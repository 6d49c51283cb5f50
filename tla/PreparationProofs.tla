--------------------------- MODULE PreparationProofs ---------------------------
(***************************************************************************)
(* What a job prepares before it reads a record: the objects of a set, and *)
(* the values of its CSV files.                                            *)
(*                                                                         *)
(* An object set asks for no more than the script, for any script, orgs,   *)
(* lookups and order of the describes.  An object only ever loses what its *)
(* entry granted it: each operator on objects lowers an object, but for    *)
(* the adaptation to the metadata, which may turn an upsert into half of   *)
(* it and checks the rights of what is left.                               *)
(*                                                                         *)
(* The tasks of a set fit the orgs and each other.  Queries are followed   *)
(* from their entries through the describes to the tasks, and so are       *)
(* lookups: covered when no parent is missing any more, linked to what     *)
(* covers them, kept only if they stay, and then there is a task.          *)
(***************************************************************************)
EXTENDS JobSetup, CsvValues, SequenceFacts, FunctionTheorems

(***************************************************************************)
(* The invariant.                                                          *)
(***************************************************************************)
ObjectFields ==
  {"name", "auto", "excluded", "operation", "fromSource", "deleteOldData", "byHierarchy",
   "externalId", "defaultId", "fields", "asked", "all", "via", "declared", "excludedFields",
   "notUpdated", "polymorphic", "stage", "missing"}
IsObject(o) == DOMAIN o = ObjectFields

\* An active object is described before it is worked on, by the orgs that have it.
Described == {"polymorphic", "done", "ready"}
StageOK(o, s) ==
  /\ ~o.excluded => o.stage \in {"source", "target"} \cup Described
  /\ o.stage \in Described /\ o.missing => o.excluded
  /\ o.stage = "target" /\ ~o.missing /\ ~s.sourceIsFile => o.name \in DOMAIN Org["source"]
  /\ o.stage \in Described /\ ~o.missing =>
       o.name \in DOMAIN Org[IF s.sourceIsFile THEN "target" ELSE "source"]

\* An object asks for no more than the entry e it comes from ...
DeletesTarget(o) == o.deleteOldData \/ o.byHierarchy
Grants(e, operation) ==
  \/ e.operation \in {operation, "Upsert"}
  \/ operation = "Delete" /\ e.operation \in DeleteOperations
AsEntry(o, e, s) ==
  /\ o.name = e.name /\ ~e.excluded
  /\ ~s.targetIsFile /\ o.operation # "Readonly" => o.name \notin Special /\ Grants(e, o.operation)
  /\ DeletesTarget(o) => ~s.targetIsFile /\ (e.deleteOldData \/ e.operation \in DeleteOperations)
  /\ e.all \/ (~o.all /\ e.notUpdated \subseteq o.notUpdated)

\* ... and for nothing if the job has added it.
AsAdded(o, s, entries) ==
  /\ ~s.targetIsFile => o.operation = "Readonly"
  /\ ~DeletesTarget(o)
  /\ o.name \in UserGroup \/ \A e \in entries : e.hasQuery => e.name # o.name
AsAsked(o, s, entries) ==
  ~o.excluded => AsAdded(o, s, entries) \/ \E e \in entries : e.hasQuery /\ AsEntry(o, e, s)
ObjectOK(o, s, entries) ==
  /\ IsObject(o) /\ StageOK(o, s) /\ AsAsked(o, s, entries)
  /\ o.fromSource => o.operation \in {"Delete", "Readonly"}

\* What the metadata allow, from the adaptation of operations on.
WriteOrg(o, s) == IF o.fromSource /\ ~s.sourceIsFile THEN "source" ELSE "target"
HasRights(o, s) ==
  ~o.excluded =>
    /\ ~s.targetIsFile => RightsFor(o.operation) \subseteq Org[WriteOrg(o, s)][o.name].crud
    /\ DeletesTarget(o) => o.fromSource \/ "delete" \in Org["target"][o.name].crud
Late ==
  \/ phase \in {"exclude", "pair", "remove", "tasks", "preflight"}
  \/ phase = "describe" /\ resume \in {"remove", "tasks"}

IsSeq(s) == s \in Seq(ToSet(s))
Entries == ToSet(ObjectSets(script)[set])
SetOK ==
  /\ script \in Scripts /\ set \in 1 .. Len(ObjectSets(script))
  /\ resume \in {"parents", "remove", "tasks"}
  /\ IsSeq(outcomes) /\ Len(outcomes) = IF phase = "ended" THEN set ELSE set - 1
ObjectsOK ==
  phase # "load" =>
    /\ IsSeq(objects)
    /\ \A i \in DOMAIN objects : ObjectOK(objects[i], script, Entries)
    /\ Late => \A i \in DOMAIN objects : HasRights(objects[i], script)
    /\ \A e \in Entries : e.hasQuery => \E i \in DOMAIN objects : objects[i].name = e.name
    /\ phase \in {"parents", "link", "operations"} =>
         \A i \in DOMAIN objects : ~objects[i].excluded => objects[i].stage = "done"
SetupInv == SetOK /\ ObjectsOK /\ OnlyAskedWrites

-----------------------------------------------------------------------------
(***************************************************************************)
(* Objects that lose rights.                                               *)
(***************************************************************************)
Lowers(o, n) ==
  /\ IsObject(n)
  /\ n.name = o.name /\ n.all = o.all /\ n.fromSource = o.fromSource
  /\ ~n.excluded => ~o.excluded
  /\ n.operation \in {o.operation, "Readonly"}
  /\ n.deleteOldData => o.deleteOldData
  /\ n.byHierarchy => o.byHierarchy
  /\ ~o.all => n.notUpdated = o.notUpdated
Staged(o, n) == n.stage = o.stage /\ n.missing = o.missing

\* Nothing needs no right.
LEMMA ReadonlyIsFree == RightsFor("Readonly") = {}
BY DEF RightsFor

\* An object that loses rights stays within its entry and within the metadata.
LEMMA LoweredIsOK ==
  ASSUME NEW o, NEW n, NEW s, NEW entries, ObjectOK(o, s, entries), Lowers(o, n), StageOK(n, s)
  PROVE  ObjectOK(n, s, entries) /\ (HasRights(o, s) => HasRights(n, s))
<1>1. n.fromSource => n.operation \in {"Delete", "Readonly"}
  BY DEF ObjectOK, Lowers
<1>2. AsAsked(n, s, entries)
  <2>1. ASSUME ~n.excluded, AsAdded(o, s, entries) PROVE AsAdded(n, s, entries)
    BY <2>1 DEF AsAdded, Lowers, DeletesTarget
  <2>2. ASSUME NEW e \in entries, AsEntry(o, e, s) PROVE AsEntry(n, e, s)
    BY <2>2 DEF AsEntry, Lowers, DeletesTarget
  <2>3. QED
    BY <2>1, <2>2 DEF AsAsked, ObjectOK, Lowers
<1>3. ASSUME HasRights(o, s) PROVE HasRights(n, s)
  BY <1>3, ReadonlyIsFree DEF HasRights, Lowers, DeletesTarget, WriteOrg
<1>4. QED
  BY <1>1, <1>2, <1>3 DEF ObjectOK, Lowers

\* An object that is only excluded or lowered is still described as it was.
LEMMA StagedIsOK ==
  ASSUME NEW o, NEW n, NEW s, StageOK(o, s), Lowers(o, n), Staged(o, n)
  PROVE  StageOK(n, s)
BY DEF StageOK, Lowers, Staged

\* Losing rights adds up.
LEMMA LowersAddsUp ==
  ASSUME NEW o, NEW n, NEW p, Lowers(o, n), Lowers(n, p)
  PROVE  Lowers(o, p) /\ (Staged(o, n) /\ Staged(n, p) => Staged(o, p))
BY DEF Lowers, Staged

\* The operators that work on an object after it was set up give it no rights.
LEMMA OperatorsLower ==
  ASSUME NEW o, IsObject(o)
  PROVE  /\ Lowers(o, o) /\ Staged(o, o)
         /\ \A side : Lowers(o, WithDescribedId(o, side)) /\ Staged(o, WithDescribedId(o, side))
         /\ \A d : Lowers(o, WithRelationships(o, d)) /\ Staged(o, WithRelationships(o, d))
         /\ Lowers(o, NoTargetDeletes(o)) /\ Staged(o, NoTargetDeletes(o))
         /\ Lowers(o, WithoutLookups(o)) /\ Staged(o, WithoutLookups(o))
         /\ Lowers(o, Sifted(o)) /\ Staged(o, Sifted(o))
<1> USE DEF IsObject, ObjectFields
<1>1. Lowers(o, o) /\ Staged(o, o)
  BY DEF Lowers, Staged
<1>2. ASSUME NEW side PROVE Lowers(o, WithDescribedId(o, side)) /\ Staged(o, WithDescribedId(o, side))
  BY DEF Lowers, Staged, WithDescribedId
<1>3. ASSUME NEW d PROVE Lowers(o, WithRelationships(o, d)) /\ Staged(o, WithRelationships(o, d))
  BY DEF Lowers, Staged, WithRelationships
<1>4. Lowers(o, NoTargetDeletes(o)) /\ Staged(o, NoTargetDeletes(o))
  BY DEF Lowers, Staged, NoTargetDeletes
<1>5. Lowers(o, WithoutLookups(o)) /\ Staged(o, WithoutLookups(o))
  BY DEF Lowers, Staged, WithoutLookups
<1>6. Lowers(o, Sifted(o)) /\ Staged(o, Sifted(o))
  BY DEF Lowers, Staged, Sifted
<1>7. QED
  BY <1>1, <1>2, <1>3, <1>4, <1>5, <1>6

\* Nor does the description of its fields.
LEMMA AdaptedFieldsLower ==
  ASSUME NEW o, IsObject(o), NEW d, NEW side
  PROVE  /\ Lowers(o, FieldsAdapted(o, d, side)) /\ Staged(o, FieldsAdapted(o, d, side))
         /\ \A n, sides : Lowers(o, n) /\ Staged(o, n) =>
              Lowers(o, MissingRemoved(o, n, sides)) /\ Staged(o, MissingRemoved(o, n, sides))
<1> DEFINE selected == Multiselected(o, d, side)
           wide == [o EXCEPT !.fields = (@ \cup selected) \ o.excludedFields,
                             !.notUpdated = @ \ selected]
           named == WithDescribedId(wide, side)
<1>1. Lowers(o, wide) /\ Staged(o, wide)
  <2>1. ~o.all => selected = {}
    BY DEF Multiselected
  <2>2. ~o.all => wide.notUpdated = o.notUpdated
    <3> HIDE DEF selected
    <3> QED BY <2>1 DEF IsObject, ObjectFields
  <2>3. QED
    BY <2>2 DEF Lowers, Staged, IsObject, ObjectFields
<1>2. Lowers(o, named) /\ Staged(o, named)
  <2> HIDE DEF wide
  <2> QED BY <1>1, OperatorsLower, LowersAddsUp DEF Lowers
<1>3. \A fields : Lowers(o, [named EXCEPT !.fields = fields]) /\ Staged(o, [named EXCEPT !.fields = fields])
  <2> HIDE DEF named
  <2> QED BY <1>2 DEF Lowers, Staged, IsObject, ObjectFields
<1>4. Lowers(o, FieldsAdapted(o, d, side)) /\ Staged(o, FieldsAdapted(o, d, side))
  <2>1. FieldsAdapted(o, d, side) =
          [named EXCEPT !.fields = FieldsAdapted(o, d, side).fields]
    <3>1. PICK fields : FieldsAdapted(o, d, side) = [named EXCEPT !.fields = fields]
      BY DEF FieldsAdapted
    <3> HIDE DEF named
    <3> QED BY <1>2, <3>1 DEF Lowers, IsObject, ObjectFields
  <2> HIDE DEF named
  <2> QED BY <1>3, <2>1
<1>5. ASSUME NEW n, NEW sides, Lowers(o, n), Staged(o, n)
      PROVE  Lowers(o, MissingRemoved(o, n, sides)) /\ Staged(o, MissingRemoved(o, n, sides))
  BY <1>5 DEF MissingRemoved, Lowers, Staged, IsObject, ObjectFields
<1>6. QED
  BY <1>4, <1>5

-----------------------------------------------------------------------------
(***************************************************************************)
(* Setting up an object b, built from an entry or added: what is defaulted,*)
(* what the delete flags make of it, and what is left for the target.      *)
(***************************************************************************)
IsBuilt(b) ==
  /\ IsObject(b) /\ b.operation \in Operations /\ b.stage = "none" /\ ~b.missing
  /\ ~b.fromSource /\ ~b.byHierarchy
  /\ b.auto => ~b.deleteOldData
Of(o, b) ==
  /\ IsObject(o) /\ ~o.missing
  /\ o.name = b.name /\ o.auto = b.auto /\ o.all = b.all /\ o.notUpdated = b.notUpdated
Defaulted(o, b) ==
  /\ Of(o, b) /\ ~o.excluded /\ o.operation \in Operations
  /\ ~o.fromSource /\ ~o.byHierarchy
  /\ o.deleteOldData => b.deleteOldData
  /\ b.auto => o.operation \in {"Insert", "Readonly"} /\ (~script.targetIsFile => o.operation = "Readonly")
  /\ ~b.auto /\ o.operation # "Readonly" => o.operation = b.operation /\ o.name \notin Special
Asks(o, b) ==
  /\ Of(o, b) /\ o.operation \in {"Insert", "Update", "Upsert", "Readonly", "Delete"}
  /\ o.fromSource => o.operation = "Delete"
  /\ ~o.excluded /\ DeletesTarget(o) => b.deleteOldData \/ b.operation \in DeleteOperations
  /\ b.auto => ~DeletesTarget(o) /\ o.operation # "Delete" /\ (~script.targetIsFile => o.operation = "Readonly")
  /\ ~b.auto /\ ~script.targetIsFile /\ o.operation # "Readonly" =>
       /\ o.name \notin Special
       /\ o.operation = b.operation \/ (o.operation = "Delete" /\ b.operation \in DeleteOperations)
Targeted(o, b) ==
  Asks(o, b) /\ (script.targetIsFile /\ ~o.excluded =>
                   ~DeletesTarget(o) /\ (o.operation = "Delete" => o.fromSource))

\* Each step of the setup does what its name says.
LEMMA SetUpSteps ==
  ASSUME NEW b, IsBuilt(b), ~b.excluded
  PROVE  /\ Defaulted(SpecialDefaults(AutoDefaults(WithDefaultId(b))), b)
         /\ \A o : Defaulted(o, b) => Asks(DeleteFlags(o), b) /\ ~DeleteFlags(o).excluded
         /\ \A o : Asks(o, b) /\ ~o.excluded => Targeted(FileTarget(o), b)
         /\ \A o : Targeted(o, b) => Targeted(ExternalIdReset(o), b)
         /\ \A o : Targeted(o, b) => Targeted(DeleteMode(o), b)
<1> USE DEF IsObject, ObjectFields, Of, DeletesTarget
<1>1. Defaulted(SpecialDefaults(AutoDefaults(WithDefaultId(b))), b)
  <2> DEFINE n == WithDefaultId(b)
             a == AutoDefaults(n)
             c == SpecialDefaults(a)
  <2>1. /\ Of(n, b) /\ ~n.excluded /\ n.operation = b.operation
        /\ ~n.fromSource /\ ~n.byHierarchy /\ n.deleteOldData = b.deleteOldData
    BY DEF IsBuilt, WithDefaultId
  <2>2. /\ Of(a, b) /\ ~a.excluded /\ ~a.fromSource /\ ~a.byHierarchy
        /\ a.deleteOldData => b.deleteOldData
        /\ b.auto => a.operation = IF script.targetIsFile THEN "Insert" ELSE "Readonly"
        /\ ~b.auto => a.operation = b.operation
    <3> HIDE DEF n
    <3> QED BY <2>1 DEF AutoDefaults, NoDeletes
  <2>3. /\ Of(c, b) /\ ~c.excluded /\ ~c.fromSource /\ ~c.byHierarchy
        /\ c.deleteOldData => b.deleteOldData
        /\ c.operation \in {a.operation, "Readonly"}
        /\ c.name \in Special => c.operation = "Readonly"
    <3> HIDE DEF a
    <3> QED BY <2>2 DEF SpecialDefaults, NoDeletes
  <2>4. b.operation \in Operations /\ {"Insert", "Readonly"} \subseteq Operations
    BY DEF IsBuilt, Operations
  <2> HIDE DEF a, c, Of, IsObject, ObjectFields
  <2>5. Defaulted(c, b)
    BY <2>2, <2>3, <2>4 DEF Defaulted
  <2>6. QED
    BY <2>5 DEF a, c
<1>2. ASSUME NEW o, Defaulted(o, b) PROVE Asks(DeleteFlags(o), b) /\ ~DeleteFlags(o).excluded
  <2>1. CASE o.operation = "DeleteSource"
    BY <1>2, <2>1 DEF Defaulted, Asks, DeleteFlags, DeleteOperations
  <2>2. CASE o.operation = "DeleteHierarchy"
    BY <1>2, <2>2 DEF Defaulted, Asks, DeleteFlags, DeleteOperations
  <2>3. CASE o.operation = "HardDelete"
    BY <1>2, <2>3 DEF Defaulted, Asks, DeleteFlags, DeleteOperations
  <2>4. CASE o.operation \notin {"DeleteSource", "DeleteHierarchy", "HardDelete"}
    <3>1. DeleteFlags(o) = o
      BY <2>4 DEF DeleteFlags
    <3>2. QED
      BY <1>2, <2>4, <3>1 DEF Defaulted, Asks, Operations, IsBuilt
  <2>5. QED
    BY <2>1, <2>2, <2>3, <2>4
<1>3. ASSUME NEW o, Asks(o, b), ~o.excluded PROVE Targeted(FileTarget(o), b)
  <2>1. CASE ~script.targetIsFile
    BY <1>3, <2>1 DEF Asks, Targeted, FileTarget
  <2>2. CASE script.targetIsFile /\ o.operation = "Delete" /\ ~o.fromSource
    BY <1>3, <2>2 DEF Asks, Targeted, FileTarget
  <2>3. CASE script.targetIsFile /\ ~(o.operation = "Delete" /\ ~o.fromSource) /\ o.fromSource
    BY <1>3, <2>3 DEF Asks, Targeted, FileTarget
  <2>4. CASE script.targetIsFile /\ ~(o.operation = "Delete" /\ ~o.fromSource) /\ ~o.fromSource
    BY <1>3, <2>4 DEF Asks, Targeted, FileTarget
  <2>5. QED
    BY <2>1, <2>2, <2>3, <2>4
<1>4. ASSUME NEW o, Targeted(o, b) PROVE Targeted(ExternalIdReset(o), b)
  BY <1>4 DEF Targeted, Asks, ExternalIdReset
<1>5. ASSUME NEW o, Targeted(o, b) PROVE Targeted(DeleteMode(o), b)
  <2>1. CASE o.operation = "Delete" /\ ~o.fromSource /\ ~o.byHierarchy
    BY <1>5, <2>1 DEF Targeted, Asks, DeleteMode, DeleteOperations
  <2>2. CASE ~(o.operation = "Delete" /\ ~o.fromSource /\ ~o.byHierarchy) /\ o.byHierarchy /\ o.operation # "Delete"
    BY <1>5, <2>2 DEF Targeted, Asks, DeleteMode
  <2>3. CASE /\ ~(o.operation = "Delete" /\ ~o.fromSource /\ ~o.byHierarchy)
             /\ ~(o.byHierarchy /\ o.operation # "Delete")
    BY <1>5, <2>3 DEF DeleteMode
  <2>4. QED
    BY <2>1, <2>2, <2>3
<1>6. QED
  BY <1>1, <1>2, <1>3, <1>4, <1>5

\* So a set up object asks for no more than it was built with.
LEMMA SetUpAsks ==
  ASSUME NEW b, IsBuilt(b)
  PROVE  /\ ~b.excluded => Targeted(SetUp(b), b) /\ SetUp(b).stage = "source"
         /\ b.excluded => SetUp(b) = b
<1>1. CASE b.excluded
  BY <1>1 DEF SetUp
<1>2. CASE ~b.excluded
  <2> DEFINE n == Normalised(WithDefaultId(b))
             m == DeleteMode(n)
  <2>1. Targeted(n, b)
    BY <1>2, SetUpSteps DEF Normalised
  <2>2. Targeted(m, b)
    BY <1>2, <2>1, SetUpSteps
  <2>3. \A original : LET r == [WithQueryFields(m, original) EXCEPT !.stage = "source"]
                      IN  Targeted(r, b) /\ r.stage = "source"
    <3> HIDE DEF m
    <3> QED BY <2>2 DEF WithQueryFields, Targeted, Asks, Of, DeletesTarget, IsObject, ObjectFields
  <2>4. SetUp(b) = [WithQueryFields(m, WithDefaultId(b).externalId) EXCEPT !.stage = "source"]
    BY <1>2 DEF SetUp
  <2> HIDE DEF m
  <2>5. QED
    BY <1>2, <2>3, <2>4
<1>3. QED
  BY <1>1, <1>2

\* A set up object keeps to its entry.
LEMMA EntriesAreSetUp ==
  ASSUME NEW e, IsEntry(e), e.hasQuery, NEW entries, e \in entries
  PROVE  ObjectOK(SetUp(Built(e)), script, entries) /\ SetUp(Built(e)).name = e.name
<1> DEFINE b == Built(e)
           o == SetUp(b)
<1>1. /\ IsBuilt(b) /\ ~b.auto /\ b.name = e.name /\ b.all = e.all /\ b.notUpdated = e.notUpdated
      /\ b.excluded = e.excluded /\ b.deleteOldData = e.deleteOldData
      /\ b.operation \in {e.operation, "Readonly"}
  BY DEF Built, IsBuilt, IsObject, ObjectFields, IsEntry, Operations
<1>2. CASE b.excluded
  <2>1. o = b
    BY <1>1, <1>2, SetUpAsks
  <2> HIDE DEF b, o
  <2>2. ObjectOK(o, script, entries) /\ o.name = e.name
    BY <1>1, <1>2, <2>1 DEF IsBuilt, ObjectOK, StageOK, AsAsked, Described
  <2> QED BY <2>2 DEF b, o
<1>3. CASE ~b.excluded
  <2>1. Targeted(o, b) /\ o.stage = "source"
    BY <1>1, <1>3, SetUpAsks
  <2> HIDE DEF b, o
  <2>2. IsObject(o) /\ StageOK(o, script) /\ o.name = e.name /\ (o.fromSource => o.operation = "Delete")
    BY <1>1, <2>1 DEF Targeted, Asks, Of, StageOK, Described
  <2>3. ~o.excluded => AsEntry(o, e, script)
    <3>1. ~script.targetIsFile /\ o.operation # "Readonly" => o.name \notin Special /\ Grants(e, o.operation)
      BY <1>1, <2>1 DEF Targeted, Asks, Grants, DeleteOperations
    <3>2. ~o.excluded /\ DeletesTarget(o) =>
             ~script.targetIsFile /\ (e.deleteOldData \/ e.operation \in DeleteOperations)
      BY <1>1, <2>1 DEF Targeted, Asks, DeleteOperations
    <3>3. ~e.excluded /\ (e.all \/ (~o.all /\ e.notUpdated \subseteq o.notUpdated))
      BY <1>1, <1>3, <2>1 DEF Targeted, Asks, Of
    <3>4. QED
      BY <2>2, <3>1, <3>2, <3>3 DEF AsEntry
  <2>4. QED
    BY <2>2, <2>3 DEF ObjectOK, AsAsked, o, b
<1>4. QED
  BY <1>2, <1>3

\* An object the job adds asks for nothing.
LEMMA AddedAreSetUp ==
  ASSUME NEW name, NEW entries,
         name \in UserGroup \/ \A e \in entries : e.hasQuery => e.name # name
  PROVE  /\ ObjectOK(SetUp(AutoObject(name)), script, entries) /\ HasRights(SetUp(AutoObject(name)), script)
         /\ SetUp(AutoObject(name)).name = name
<1> DEFINE b == AutoObject(name)
           o == SetUp(b)
<1>1. IsBuilt(b) /\ b.auto /\ b.name = name /\ ~b.excluded
  BY DEF AutoObject, Built, IsBuilt, IsObject, ObjectFields, Operations
<1>2. Targeted(o, b) /\ o.stage = "source"
  BY <1>1, SetUpAsks
<1> HIDE DEF b, o
<1>3. AsAdded(o, script, entries)
  BY <1>1, <1>2 DEF Targeted, Asks, Of, AsAdded
<1>4. IsObject(o) /\ StageOK(o, script) /\ o.name = name /\ (o.fromSource => o.operation = "Delete")
  BY <1>1, <1>2 DEF Targeted, Asks, Of, StageOK, Described
<1>5. HasRights(o, script)
  BY <1>3, ReadonlyIsFree DEF HasRights, AsAdded
<1>6. QED
  BY <1>3, <1>4, <1>5 DEF ObjectOK, AsAsked, o, b

-----------------------------------------------------------------------------
(***************************************************************************)
(* The metadata.                                                           *)
(***************************************************************************)
\* The operation the metadata allow needs no right they do not give, and is the one
\* asked for, half of it, or none.
LEMMA OperationIsAllowed ==
  ASSUME NEW operation, NEW crud
  PROVE  /\ RightsFor(OperationFor(operation, crud)) \subseteq crud
         /\ \/ OperationFor(operation, crud) \in {operation, "Readonly"}
            \/ operation = "Upsert" /\ OperationFor(operation, crud) \in {"Insert", "Update"}
<1>1. CASE operation = "Insert"
  BY <1>1 DEF OperationFor, RightsFor
<1>2. CASE operation = "Update"
  BY <1>2 DEF OperationFor, RightsFor
<1>3. CASE operation = "Delete"
  BY <1>3 DEF OperationFor, RightsFor
<1>4. CASE operation = "Upsert"
  <2>1. CASE crud \cap {"create", "update"} = {}
    BY <1>4, <2>1 DEF OperationFor, RightsFor
  <2>2. CASE "create" \notin crud /\ "update" \in crud
    BY <1>4, <2>2 DEF OperationFor, RightsFor
  <2>3. CASE "create" \in crud /\ "update" \notin crud
    BY <1>4, <2>3 DEF OperationFor, RightsFor
  <2>4. CASE "create" \in crud /\ "update" \in crud
    BY <1>4, <2>4 DEF OperationFor, RightsFor
  <2>5. QED
    BY <2>1, <2>2, <2>3, <2>4
<1>5. CASE operation \notin {"Insert", "Update", "Delete", "Upsert"}
  BY <1>5 DEF OperationFor, RightsFor
<1>6. QED
  BY <1>1, <1>2, <1>3, <1>4, <1>5

\* Flags that survive are flags of an object the target can delete.
LEMMA FlagsAreAllowed ==
  ASSUME NEW o, IsObject(o), o.fromSource => o.operation \in {"Delete", "Readonly"}
  PROVE  LET n == WithDeletableFlags(o)
         IN  /\ Lowers(o, n) /\ Staged(o, n) /\ n.operation = o.operation
             /\ DeletesTarget(n) => n.fromSource \/ "delete" \in Org["target"][o.name].crud
<1>1. /\ Lowers(o, NoTargetDeletes(o)) /\ Staged(o, NoTargetDeletes(o))
      /\ NoTargetDeletes(o).operation = o.operation /\ ~DeletesTarget(NoTargetDeletes(o))
  BY OperatorsLower DEF NoTargetDeletes, DeletesTarget, IsObject, ObjectFields
<1>2. QED
  BY <1>1, OperatorsLower DEF WithDeletableFlags, DeletesFromSource, DeletesTarget

\* After the adaptation an object asks for nothing the metadata do not allow.
LEMMA AdaptedHasRights ==
  ASSUME NEW o, NEW entries, ObjectOK(o, script, entries), script \in Scripts, ~script.targetIsFile,
         ~o.excluded => o.stage = "done"
  PROVE  /\ ObjectOK(Adapted(o), script, entries) /\ HasRights(Adapted(o), script)
         /\ Adapted(o).name = o.name
<1> DEFINE side == IF DeletesFromSource(o) THEN ReadSide ELSE "target"
           flagged == WithDeletableFlags(o)
           operation == OperationFor(flagged.operation, Org[side][o.name].crud)
           NoRights(x) == [NoTargetDeletes(x) EXCEPT !.operation = "Readonly"]
<1>0. IsObject(o) /\ StageOK(o, script) /\ (o.fromSource => o.operation \in {"Delete", "Readonly"})
  BY DEF ObjectOK
<1>1. \A x : IsObject(x) =>
        /\ Lowers(x, NoRights(x)) /\ Staged(x, NoRights(x)) /\ HasRights(NoRights(x), script)
  BY ReadonlyIsFree DEF NoTargetDeletes, Lowers, Staged, HasRights, DeletesTarget, IsObject, ObjectFields
<1>2. CASE o.excluded
  <2>1. Adapted(o) = o
    BY <1>2 DEF Adapted
  <2>2. QED
    BY <1>2, <2>1 DEF HasRights
<1>3. CASE ~o.excluded /\ ForcedReadonly(o)
  <2>1. Adapted(o) = NoRights(o)
    BY <1>3 DEF Adapted
  <2> HIDE DEF NoRights
  <2>2. QED
    BY <1>0, <1>1, <2>1, LoweredIsOK, StagedIsOK DEF Lowers
<1>4. CASE ~o.excluded /\ ~ForcedReadonly(o)
  <2>1. IsDescribed(o)
    BY <1>0, <1>4 DEF IsDescribed, StageOK, Described
  <2>2. Adapted(o) = IF operation = "Readonly" /\ flagged.operation # "Readonly"
                       THEN NoRights(flagged) ELSE [flagged EXCEPT !.operation = operation]
    BY <1>4, <2>1 DEF Adapted
  <2>3. /\ Lowers(o, flagged) /\ Staged(o, flagged) /\ flagged.operation = o.operation
        /\ DeletesTarget(flagged) => flagged.fromSource \/ "delete" \in Org["target"][o.name].crud
    BY <1>0, FlagsAreAllowed
  <2> HIDE DEF flagged, NoRights
  <2>4. ObjectOK(flagged, script, entries)
    BY <1>0, <2>3, LoweredIsOK, StagedIsOK
  <2>5. CASE operation = "Readonly" /\ flagged.operation # "Readonly"
    <3>1. Adapted(o) = NoRights(flagged)
      BY <2>2, <2>5
    <3>2. Lowers(flagged, NoRights(flagged)) /\ Staged(flagged, NoRights(flagged))
          /\ HasRights(NoRights(flagged), script)
      BY <1>1, <2>3 DEF Lowers
    <3>3. StageOK(NoRights(flagged), script)
      BY <2>4, <3>2, StagedIsOK DEF ObjectOK
    <3>4. QED
      BY <2>3, <2>4, <3>1, <3>2, <3>3, LoweredIsOK DEF Lowers
  <2>6. CASE ~(operation = "Readonly" /\ flagged.operation # "Readonly")
    <3> DEFINE n == [flagged EXCEPT !.operation = operation]
    <3>1. Adapted(o) = n
      BY <2>2, <2>6
    <3>2. /\ RightsFor(operation) \subseteq Org[side][o.name].crud
          /\ \/ operation \in {o.operation, "Readonly"}
             \/ o.operation = "Upsert" /\ operation \in {"Insert", "Update"}
      BY <2>3, OperationIsAllowed
    <3>3. /\ IsObject(n) /\ Staged(flagged, n) /\ n.operation = operation /\ n.name = o.name
          /\ n.excluded = flagged.excluded /\ n.fromSource = o.fromSource /\ n.all = flagged.all
          /\ n.deleteOldData = flagged.deleteOldData /\ n.byHierarchy = flagged.byHierarchy
          /\ n.notUpdated = flagged.notUpdated
      <4> HIDE DEF operation
      <4> QED BY <2>3 DEF Lowers, Staged, IsObject, ObjectFields
    <3>4. operation # "Readonly" => side = WriteOrg(n, script)
      <4>1. o.fromSource /\ operation # "Readonly" => o.operation = "Delete"
        BY <1>0, <3>2
      <4>2. QED
        BY <3>3, <4>1 DEF WriteOrg, DeletesFromSource, ReadSide
    <3> HIDE DEF n, operation, side
    <3>5. HasRights(n, script)
      <4>1. RightsFor(n.operation) \subseteq Org[WriteOrg(n, script)][n.name].crud
        BY <3>2, <3>3, <3>4, ReadonlyIsFree
      <4>2. DeletesTarget(n) => n.fromSource \/ "delete" \in Org["target"][n.name].crud
        BY <2>3, <3>3 DEF DeletesTarget, Lowers
      <4>3. QED
        BY <4>1, <4>2 DEF HasRights
    <3>6. StageOK(n, script) /\ (n.fromSource => n.operation \in {"Delete", "Readonly"})
      BY <1>0, <2>3, <2>4, <3>2, <3>3 DEF ObjectOK, StageOK, Staged, Lowers
    <3>7. ASSUME AsAdded(flagged, script, entries) PROVE AsAdded(n, script, entries)
      BY <2>3, <3>2, <3>3, <3>7 DEF AsAdded, DeletesTarget, Lowers
    <3>8. ASSUME NEW e \in entries, AsEntry(flagged, e, script) PROVE AsEntry(n, e, script)
      BY <2>3, <3>2, <3>3, <3>8 DEF AsEntry, DeletesTarget, Lowers, Grants
    <3>9. ObjectOK(n, script, entries)
      BY <2>4, <3>3, <3>6, <3>7, <3>8 DEF ObjectOK, AsAsked
    <3>10. QED
      BY <3>1, <3>3, <3>5, <3>9
  <2>7. QED
    BY <2>5, <2>6
<1>5. QED
  BY <1>2, <1>3, <1>4

-----------------------------------------------------------------------------
(***************************************************************************)
(* Sequences of objects.                                                   *)
(***************************************************************************)
\* What a sequence is.
LEMMA SeqShape ==
  ASSUME NEW s, IsSeq(s)
  PROVE  Len(s) \in Nat /\ DOMAIN s = 1 .. Len(s)
BY DEF IsSeq

\* A function on the first numbers is a sequence.
LEMMA FunctionIsSeq ==
  ASSUME NEW n \in Nat, NEW f, f = [i \in 1 .. n |-> f[i]]
  PROVE  IsSeq(f) /\ Len(f) = n
<1>1. f \in [1 .. n -> ToSet(f)]
  BY DEF ToSet
<1>2. QED
  BY <1>1 DEF IsSeq

\* Two sequences one after the other.
LEMMA JoinedSeq ==
  ASSUME NEW s, NEW t, IsSeq(s), IsSeq(t)
  PROVE  /\ IsSeq(s \o t) /\ Len(s \o t) = Len(s) + Len(t)
         /\ \A i \in DOMAIN s : i \in DOMAIN (s \o t) /\ (s \o t)[i] = s[i]
         /\ \A i \in DOMAIN t : \E j \in DOMAIN (s \o t) : (s \o t)[j] = t[i]
         /\ \A i \in DOMAIN (s \o t) :
              \/ i \in DOMAIN s /\ (s \o t)[i] = s[i]
              \/ i - Len(s) \in DOMAIN t /\ (s \o t)[i] = t[i - Len(s)]
<1> DEFINE S == ToSet(s) \cup ToSet(t)
           u == s \o t
           m == Len(s)
           n == Len(t)
<1>1. s \in Seq(S) /\ t \in Seq(S)
  BY DEF IsSeq
<1>2. m \in Nat /\ n \in Nat /\ DOMAIN s = 1 .. m /\ DOMAIN t = 1 .. n
  BY SeqShape
<1>3. u \in Seq(S) /\ Len(u) = m + n /\ \A i \in 1 .. m + n : u[i] = IF i <= m THEN s[i] ELSE t[i - m]
  BY <1>1, ConcatProperties
<1> HIDE DEF S, u, m, n
<1>4. DOMAIN u = 1 .. m + n /\ u = [i \in 1 .. m + n |-> u[i]]
  BY <1>3
<1>5. IsSeq(u)
  BY <1>2, <1>4, FunctionIsSeq
<1>6. \A i \in 1 .. m : i \in 1 .. m + n /\ u[i] = s[i]
  BY <1>2, <1>3
<1>7. \A i \in 1 .. n : m + i \in 1 .. m + n /\ u[m + i] = t[i]
  <2> TAKE i \in 1 .. n
  <2>1. m + i \in 1 .. m + n /\ ~(m + i <= m) /\ (m + i) - m = i
    BY <1>2
  <2>2. QED
    BY <1>3, <2>1
<1>8. \A i \in 1 .. m + n : i \in 1 .. m \/ i - m \in 1 .. n
  BY <1>2
<1>9. \A i \in 1 .. m + n : (i \in 1 .. m /\ u[i] = s[i]) \/ (i - m \in 1 .. n /\ u[i] = t[i - m])
  <2> TAKE i \in 1 .. m + n
  <2>1. CASE i <= m
    BY <1>2, <1>3, <2>1
  <2>2. CASE ~(i <= m)
    BY <1>3, <1>2, <1>8, <2>2
  <2>3. QED
    BY <2>1, <2>2
<1>10. QED
  BY <1>2, <1>3, <1>4, <1>5, <1>6, <1>7, <1>9 DEF u, m, n

-----------------------------------------------------------------------------
(***************************************************************************)
(* Steps on the objects of a set.                                          *)
(***************************************************************************)
\* Objects may lose rights one by one.
LEMMA PointwiseOK ==
  ASSUME ObjectsOK, phase # "load", script' = script, set' = set,
         objects' = [i \in DOMAIN objects |-> objects'[i]],
         \A i \in DOMAIN objects :
           Lowers(objects[i], objects'[i]) /\ StageOK(objects'[i], script),
         Late' => Late,
         phase' \in {"parents", "link", "operations"} =>
           \A i \in DOMAIN objects : ~objects'[i].excluded => objects'[i].stage = "done"
  PROVE  ObjectsOK'
<1>1. IsSeq(objects) /\ \A i \in DOMAIN objects : ObjectOK(objects[i], script, Entries)
  BY DEF ObjectsOK
<1>2. DOMAIN objects' = DOMAIN objects /\ IsSeq(objects')
  BY <1>1, SeqShape, FunctionIsSeq
<1>3. \A i \in DOMAIN objects :
        /\ ObjectOK(objects'[i], script, Entries)
        /\ HasRights(objects[i], script) => HasRights(objects'[i], script)
  BY <1>1, LoweredIsOK
<1>4. \A i \in DOMAIN objects : objects'[i].name = objects[i].name
  BY DEF Lowers
<1>5. Entries' = Entries
  BY DEF Entries
<1>6. \A i \in DOMAIN objects' : ObjectOK(objects'[i], script', Entries')
  BY <1>2, <1>3, <1>5
<1>7. Late' => \A i \in DOMAIN objects' : HasRights(objects'[i], script')
  BY <1>2, <1>3 DEF ObjectsOK
<1>8. \A e \in Entries' : e.hasQuery => \E i \in DOMAIN objects' : objects'[i].name = e.name
  BY <1>2, <1>4, <1>5 DEF ObjectsOK
<1>9. QED
  BY <1>2, <1>6, <1>7, <1>8 DEF ObjectsOK

\* Nothing happens to the objects.
LEMMA ObjectsStay ==
  ASSUME ObjectsOK, phase # "load", UNCHANGED <<script, set, objects>>, Late' => Late,
         phase' \in {"parents", "link", "operations"} =>
           \A i \in DOMAIN objects : ~objects[i].excluded => objects[i].stage = "done"
  PROVE  ObjectsOK'
<1>1. objects = [i \in DOMAIN objects |-> objects[i]]
  BY SeqShape DEF ObjectsOK, IsSeq
<1>2. \A i \in DOMAIN objects : Lowers(objects[i], objects[i]) /\ StageOK(objects[i], script)
  BY OperatorsLower DEF ObjectsOK, ObjectOK
<1>3. QED
  BY <1>1, <1>2, PointwiseOK

\* One object is described further.
LEMMA DescribedOK ==
  ASSUME ObjectsOK, phase = "describe", phase' = "describe" \/ phase' = "failed",
         UNCHANGED <<script, set, resume>>,
         NEW i \in DOMAIN objects, NEW n, At(i, n), Lowers(objects[i], n), StageOK(n, script)
  PROVE  ObjectsOK'
<1>1. objects' = [j \in DOMAIN objects |-> objects'[j]]
  BY DEF At
<1>2. ASSUME NEW j \in DOMAIN objects
      PROVE  Lowers(objects[j], objects'[j]) /\ StageOK(objects'[j], script)
  <2>1. CASE j = i
    BY <2>1 DEF At
  <2>2. CASE j # i
    BY <2>2, OperatorsLower DEF At, ObjectsOK, ObjectOK
  <2>3. QED
    BY <2>1, <2>2
<1>3. Late' => Late
  BY DEF Late
<1>4. QED
  BY <1>1, <1>2, <1>3, PointwiseOK

\* One side is an org, and both sides are read and written as the code says.
LEMMA ScriptShape ==
  ASSUME script \in Scripts
  PROVE  /\ ~(script.sourceIsFile /\ script.targetIsFile)
         /\ \A i \in DOMAIN ObjectSets(script) : IsSet(ObjectSets(script)[i])
         /\ ObjectSets(script) \in Seq(ToSet(ObjectSets(script))) \ {<<>>}
BY ScriptAssumption DEF IsScript

\* A describe in the source.
LEMMA SourceDescribed ==
  ASSUME SetOK, ObjectsOK, NEW i \in DOMAIN objects, DescribeSource(i)
  PROVE  ObjectsOK'
<1> DEFINE o == objects[i]
           next == [o EXCEPT !.stage = "target"]
<1>1. IsObject(o) /\ StageOK(o, script) /\ phase = "describe" /\ phase' = phase
  BY DEF DescribeSource, ObjectsOK, ObjectOK
<1>2. UNCHANGED <<script, set, resume>>
  BY DEF DescribeSource, UnchangedRun
<1>3. /\ Lowers(o, next) /\ (script.sourceIsFile \/ o.name \in DOMAIN Org["source"] => StageOK(next, script))
      /\ Lowers(o, [next EXCEPT !.missing = TRUE]) /\ StageOK([next EXCEPT !.missing = TRUE], script)
  BY <1>1 DEF Lowers, StageOK, Described, IsObject, ObjectFields
<1>4. \/ At(i, next) /\ (script.sourceIsFile \/ o.name \in DOMAIN Org["source"])
      \/ At(i, [next EXCEPT !.missing = TRUE])
  BY DEF DescribeSource, IsFile, Found
<1> HIDE DEF next
<1>5. QED
  BY <1>1, <1>2, <1>3, <1>4, DescribedOK

\* A describe in the target, and what it makes of the object.
LEMMA TargetDescribed ==
  ASSUME SetOK, ObjectsOK, NEW i \in DOMAIN objects, DescribeTarget(i)
  PROVE  ObjectsOK'
<1> DEFINE o == objects[i]
<1>1. IsObject(o) /\ StageOK(o, script) /\ phase = "describe" /\ o.stage = "target"
  BY DEF DescribeTarget, ObjectsOK, ObjectOK
<1>2. UNCHANGED <<script, set, resume>>
  BY DEF DescribeTarget, UnchangedRun
<1>3. Lowers(o, Excluded(o)) /\ StageOK(Excluded(o), script)
  BY <1>1 DEF Excluded, Lowers, StageOK, Described, IsObject, ObjectFields
<1>4. CASE At(i, Excluded(o)) /\ phase' = phase
  BY <1>1, <1>2, <1>3, <1>4, DescribedOK
<1>5. ASSUME NEW ds, Applied(i, o, ds), ~o.missing, script.targetIsFile \/ Found("target", o.name)
      PROVE  ObjectsOK'
  <2>1. o.name \in DOMAIN Org[IF script.sourceIsFile THEN "target" ELSE "source"]
    BY <1>1, <1>5, ScriptShape DEF StageOK, Found, SetOK
  <2>2. PICK left : /\ Lowers(o, left) /\ Staged(o, left)
                    /\ \/ At(i, [left EXCEPT !.stage = "polymorphic"]) /\ phase' = phase
                       \/ phase' = "failed" /\ objects' = objects
    <3>1. \A d, side, sides : LET left == MissingRemoved(o, FieldsAdapted(o, d, side), sides)
                              IN  Lowers(o, left) /\ Staged(o, left)
      BY <1>1, AdaptedFieldsLower
    <3>2. \E d : LET left == MissingRemoved(o, FieldsAdapted(o, d, ReadSide), OrgSides)
                 IN  \/ At(i, [left EXCEPT !.stage = "polymorphic"]) /\ phase' = phase
                     \/ phase' = "failed" /\ objects' = objects
      BY <1>5 DEF Applied
    <3>3. QED
      BY <3>1, <3>2
  <2>3. LET n == [left EXCEPT !.stage = "polymorphic"] IN Lowers(o, n) /\ StageOK(n, script)
    BY <1>1, <1>5, <2>1, <2>2 DEF Lowers, Staged, StageOK, Described, IsObject, ObjectFields
  <2>4. CASE At(i, [left EXCEPT !.stage = "polymorphic"]) /\ phase' = phase
    BY <1>1, <1>2, <2>3, <2>4, DescribedOK
  <2>5. CASE phase' = "failed" /\ objects' = objects
    BY <1>1, <1>2, <2>5, ObjectsStay DEF Late
  <2>6. QED
    BY <2>2, <2>4, <2>5
<1>6. \/ At(i, Excluded(o)) /\ phase' = phase
      \/ ~o.missing /\ (script.targetIsFile \/ Found("target", o.name)) /\ \E ds : Applied(i, o, ds)
  BY DEF DescribeTarget, IsFile
<1>7. QED
  BY <1>4, <1>5, <1>6

\* The question for polymorphic fields.
LEMMA PolymorphicFixed ==
  ASSUME SetOK, ObjectsOK, NEW i \in DOMAIN objects, FixPolymorphic(i)
  PROVE  ObjectsOK'
<1> DEFINE o == objects[i]
<1>1. IsObject(o) /\ StageOK(o, script) /\ phase = "describe" /\ phase' = phase /\ o.stage = "polymorphic"
  BY DEF FixPolymorphic, ObjectsOK, ObjectOK
<1>2. UNCHANGED <<script, set, resume>>
  <2>1. UnchangedRun /\ UNCHANGED <<phase, resume, round>>
    BY ZenonT(60) DEF FixPolymorphic
  <2>2. QED
    BY <2>1 DEF UnchangedRun
<1>3. PICK lookups : At(i, [o EXCEPT !.stage = "done", !.polymorphic = lookups])
  BY DEF FixPolymorphic
<1>4. LET n == [o EXCEPT !.stage = "done", !.polymorphic = lookups] IN Lowers(o, n) /\ StageOK(n, script)
  BY <1>1 DEF Lowers, StageOK, Described, IsObject, ObjectFields
<1>5. QED
  BY <1>1, <1>2, <1>3, <1>4, DescribedOK

\* All answers are there: active objects have been described.
LEMMA AllDescribed ==
  ASSUME SetOK, ObjectsOK, DescribesDone
  PROVE  ObjectsOK'
<1>1. \A i \in DOMAIN objects : ~objects[i].excluded => objects[i].stage = "done"
  BY DEF DescribesDone, ObjectsOK, ObjectOK, StageOK, Described
<1>2. Late' => Late
  BY DEF DescribesDone, Late, SetOK
<1>3. QED
  BY <1>1, <1>2, ObjectsStay DEF DescribesDone, UnchangedRun

-----------------------------------------------------------------------------
(***************************************************************************)
(* Objects that join the set.                                              *)
(***************************************************************************)
\* Objects the job adds ask for nothing, so that they may come at any time.
LEMMA JoinOK ==
  ASSUME ObjectsOK, phase # "load", script' = script, set' = set,
         NEW names, IsSeq(names),
         \A k \in DOMAIN names :
           names[k] \in UserGroup \/ \A e \in Entries : e.hasQuery => e.name # names[k],
         NEW then, then = "parents" \/ Late,
         Join([k \in DOMAIN names |-> AutoObject(names[k])], then)
  PROVE  ObjectsOK'
<1> DEFINE added == [k \in DOMAIN names |-> SetUp(AutoObject(names[k]))]
<1>1. objects' = objects \o added /\ phase' = "describe" /\ resume' = then
  BY DEF Join
<1>2. IsSeq(objects) /\ IsSeq(added) /\ DOMAIN added = DOMAIN names
  BY SeqShape, FunctionIsSeq DEF ObjectsOK
<1>3. \A k \in DOMAIN added : ObjectOK(added[k], script, Entries) /\ HasRights(added[k], script)
  BY AddedAreSetUp
<1> HIDE DEF added
<1>4. Entries' = Entries
  BY DEF Entries
<1>5. \A i \in DOMAIN objects : ObjectOK(objects[i], script, Entries) /\ (Late => HasRights(objects[i], script))
  BY DEF ObjectsOK
<1>6. \A i \in DOMAIN objects' :
        (i \in DOMAIN objects /\ objects'[i] = objects[i]) \/ \E j \in DOMAIN added : objects'[i] = added[j]
  BY <1>1, <1>2, JoinedSeq
<1>7. \A i \in DOMAIN objects' : ObjectOK(objects'[i], script', Entries')
  BY <1>3, <1>4, <1>5, <1>6
<1>8. Late' => Late
  BY <1>1 DEF Late
<1>9. Late' => \A i \in DOMAIN objects' : HasRights(objects'[i], script')
  BY <1>3, <1>5, <1>6, <1>8
<1>10. \A e \in Entries' : e.hasQuery => \E i \in DOMAIN objects' : objects'[i].name = e.name
  <2>1. \A i \in DOMAIN objects : i \in DOMAIN objects' /\ objects'[i] = objects[i]
    BY <1>1, <1>2, JoinedSeq
  <2>2. QED
    BY <1>4, <2>1 DEF ObjectsOK
<1>11. QED
  BY <1>1, <1>2, <1>7, <1>9, <1>10, JoinedSeq, SMTT(30) DEF ObjectsOK

\* The values of a function on a finite set are finitely many.
LEMMA FiniteImage ==
  ASSUME NEW f, IsFiniteSet(DOMAIN f)
  PROVE  IsFiniteSet({f[x] : x \in DOMAIN f})
<1> DEFINE T == {f[x] : x \in DOMAIN f}
           g == [x \in DOMAIN f |-> f[x]]
<1>1. g \in Surjection(DOMAIN f, T)
  BY DEF Surjection
<1>2. QED
  BY <1>1, FS_Surjection

\* A list of a finite set has each of its elements.
LEMMA ListsAreComplete ==
  ASSUME NEW S, IsFiniteSet(S), NEW list \in SetToSeqs(S)
  PROVE  /\ IsSeq(list)
         /\ \A i \in DOMAIN list : list[i] \in S
         /\ \A x \in S : \E i \in DOMAIN list : list[i] = x
<1>1. Cardinality(S) \in Nat
  BY FS_CardinalityType
<1>2. /\ list \in [1 .. Cardinality(S) -> S]
      /\ \A i, j \in 1 .. Cardinality(S) : i # j => list[i] # list[j]
  BY DEF SetToSeqs
<1>3. list \in Injection(1 .. Cardinality(S), S)
  BY <1>2, Fun_IsInj
<1>4. Cardinality(1 .. Cardinality(S)) = Cardinality(S)
  BY <1>1, FS_Interval
<1>5. list \in Surjection(1 .. Cardinality(S), S)
  BY <1>3, <1>4, FS_Injection
<1>6. IsSeq(list)
  BY <1>1, <1>2, FunctionIsSeq
<1>7. QED
  BY <1>2, <1>5, <1>6 DEF Surjection

\* The parents that are missing are finitely many, as what orgs say is finite.
LEMMA ParentsAreFinite ==
  ASSUME SetOK, ObjectsOK, phase # "load"
  PROVE  IsFiniteSet(MissingParents)
<1> DEFINE TargetsOf(i) == UNION {Targets(objects[i], f) : f \in LookupsOf(objects[i])}
<1>1. \A o, f : IsFiniteSet(Targets(o, f))
  <2> TAKE o, f
  <2>1. IsFiniteSet(UserGroup)
    <3>1. IsFiniteSet({"User"}) /\ IsFiniteSet({"Group"})
      BY FS_Singleton
    <3>2. IsFiniteSet({"User"} \cup {"Group"})
      BY <3>1, FS_Union
    <3>3. UserGroup = {"User"} \cup {"Group"}
      BY DEF UserGroup
    <3>4. QED
      BY <3>2, <3>3
  <2>2. Targets(o, f) \subseteq UserGroup \/ \E x : Targets(o, f) = {x}
    BY DEF Targets
  <2>3. QED
    BY <2>1, <2>2, FS_Subset, FS_Singleton
<1>2. ASSUME NEW i \in DOMAIN objects PROVE IsFiniteSet(LookupsOf(objects[i]))
  <2>1. CASE IsDescribed(objects[i])
    <3>1. objects[i].name \in DOMAIN Org[ReadSide] /\ ReadSide \in Sides
      BY <2>1 DEF IsDescribed, ObjectsOK, ObjectOK, StageOK, Described, ReadSide, Sides
    <3>2. IsFiniteSet(FieldsOf(ReadSide, objects[i].name))
      BY <3>1, OrgAssumption DEF IsOrg
    <3>3. LookupsOf(objects[i]) \subseteq FieldsOf(ReadSide, objects[i].name)
      BY DEF LookupsOf
    <3>4. QED
      BY <3>2, <3>3, FS_Subset
  <2>2. CASE ~IsDescribed(objects[i])
    BY <2>2, FS_EmptySet DEF LookupsOf
  <2>3. QED
    BY <2>1, <2>2
<1>3. ASSUME NEW i \in DOMAIN objects PROVE IsFiniteSet(TargetsOf(i))
  <2> DEFINE g == [f \in LookupsOf(objects[i]) |-> Targets(objects[i], f)]
             S == {g[f] : f \in DOMAIN g}
  <2>1. IsFiniteSet(S)
    BY <1>2, FiniteImage
  <2>2. \A T \in S : IsFiniteSet(T)
    BY <1>1
  <2>3. S = {Targets(objects[i], f) : f \in LookupsOf(objects[i])}
    OBVIOUS
  <2> HIDE DEF S
  <2>4. IsFiniteSet(UNION S)
    BY <2>1, <2>2, FS_UNION
  <2>5. QED
    BY <2>3, <2>4
<1>4. IsFiniteSet(DOMAIN objects) /\ Active(objects) \subseteq DOMAIN objects
  BY SeqShape, FS_Interval DEF ObjectsOK, Active
<1> HIDE DEF TargetsOf
<1>5. IsFiniteSet(UNION {TargetsOf(i) : i \in Active(objects)})
  <2> DEFINE g == [i \in Active(objects) |-> TargetsOf(i)]
             S == {g[i] : i \in DOMAIN g}
  <2>1. IsFiniteSet(S)
    <3>1. IsFiniteSet(Active(objects)) /\ DOMAIN g = Active(objects)
      BY <1>4, FS_Subset
    <3> HIDE DEF g
    <3>2. QED
      BY <3>1, FiniteImage
  <2>2. \A T \in S : IsFiniteSet(T)
    BY <1>3, <1>4
  <2>3. S = {TargetsOf(i) : i \in Active(objects)}
    OBVIOUS
  <2> HIDE DEF S
  <2>4. IsFiniteSet(UNION S)
    BY <2>1, <2>2, FS_UNION
  <2>5. QED
    BY <2>3, <2>4
<1>6. MissingParents \subseteq UNION {TargetsOf(i) : i \in Active(objects)}
  BY DEF MissingParents, TargetsOf
<1>7. QED
  BY <1>5, <1>6, FS_Subset

\* No object of the set, excluded ones included, has the name of a missing parent, so that
\* no entry of the set is about it.
LEMMA ParentsAreNew ==
  ASSUME ObjectsOK, phase # "load", NEW n \in MissingParents, NEW e \in Entries, e.hasQuery
  PROVE  e.name # n
<1>1. \A i \in DOMAIN objects : objects[i].name \in ExcludedNames \cup ActiveNames
  BY DEF ExcludedNames, ActiveNames, Active
<1>2. n \notin ExcludedNames \cup ActiveNames
  BY Zenon DEF MissingParents
<1>3. QED
  BY <1>1, <1>2 DEF ObjectsOK

\* Missing parents join.
LEMMA ParentsJoin ==
  ASSUME SetOK, ObjectsOK, AddParents
  PROVE  ObjectsOK'
<1>1. phase = "parents" /\ script' = script /\ set' = set
  BY DEF AddParents, UnchangedRun
<1>2. PICK missing \in Listed(MissingParents) :
        IF missing = <<>> THEN phase' = "link" /\ UNCHANGED <<objects, resume>>
        ELSE Join([k \in DOMAIN missing |-> AutoObject(missing[k])], "parents")
  BY DEF AddParents
<1>3. CASE missing = <<>>
  <2>1. \A i \in DOMAIN objects : ~objects[i].excluded => objects[i].stage = "done"
    BY <1>1 DEF ObjectsOK
  <2>2. ~Late'
    BY <1>2, <1>3 DEF Late
  <2>3. QED
    BY <1>1, <1>2, <1>3, <2>1, <2>2, ObjectsStay
<1>4. CASE missing # <<>>
  <2>1. missing \in SetToSeqs(MissingParents)
    BY DEF Listed
  <2>2. IsSeq(missing) /\ \A k \in DOMAIN missing : missing[k] \in MissingParents
    BY <1>1, <2>1, ListsAreComplete, ParentsAreFinite
  <2>3. \A k \in DOMAIN missing : \A e \in Entries : e.hasQuery => e.name # missing[k]
    BY <1>1, <2>2, ParentsAreNew
  <2>4. QED
    BY <1>1, <1>2, <1>4, <2>2, <2>3, JoinOK
<1>5. QED
  BY <1>3, <1>4

\* A name, or none.
LEMMA AmongIsSeq ==
  ASSUME NEW t, NEW names
  PROVE  /\ IsSeq(Among(t, names)) /\ Len(Among(t, names)) \in {0, 1}
         /\ \A k \in DOMAIN Among(t, names) : Among(t, names)[k] = t /\ t \in names
<1>1. IsSeq(<<>>) /\ IsSeq(<<t>>)
  <2>1. <<>> \in Seq(ToSet(<<>>)) /\ <<t>> \in Seq({t}) /\ ToSet(<<t>>) = {t}
    BY DEF ToSet
  <2>2. QED
    BY <2>1 DEF IsSeq
<1>2. QED
  BY <1>1 DEF Among

\* The two names after each other.
LEMMA PairIsSeq ==
  ASSUME NEW t \in UserGroup, NEW u \in UserGroup, NEW names
  PROVE  LET list == Among(t, names) \o Among(u, names)
         IN  /\ IsSeq(list) /\ \A k \in DOMAIN list : list[k] \in UserGroup \cap names
             /\ t # u => \A k, l \in DOMAIN list : list[k] = list[l] => k = l
<1> DEFINE first == Among(t, names)
           second == Among(u, names)
           list == first \o second
<1>1. /\ IsSeq(first) /\ Len(first) \in {0, 1} /\ \A k \in DOMAIN first : first[k] = t /\ t \in names
      /\ IsSeq(second) /\ Len(second) \in {0, 1} /\ \A k \in DOMAIN second : second[k] = u /\ u \in names
  BY AmongIsSeq
<1> HIDE DEF first, second
<1>2. /\ IsSeq(list)
      /\ \A k \in DOMAIN list : \/ k \in DOMAIN first /\ list[k] = first[k]
                                \/ k - Len(first) \in DOMAIN second /\ list[k] = second[k - Len(first)]
  BY <1>1, JoinedSeq
<1>3. \A k \in DOMAIN list : list[k] \in UserGroup \cap names
  BY <1>1, <1>2
<1>4. DOMAIN first \subseteq {1} /\ DOMAIN second \subseteq {1} /\ DOMAIN list \subseteq Nat
  BY <1>1, <1>2, SeqShape
<1>5. ASSUME t # u, NEW k \in DOMAIN list, NEW l \in DOMAIN list, list[k] = list[l] PROVE k = l
  <2>1. \/ k = 1 /\ l = 1
        \/ k - Len(first) = 1 /\ l - Len(first) = 1
    BY <1>1, <1>2, <1>4, <1>5
  <2>2. k \in Nat /\ l \in Nat /\ Len(first) \in Nat
    BY <1>1, <1>4
  <2>3. QED
    BY <2>1, <2>2
<1>6. QED
  BY <1>2, <1>3, <1>5 DEF first, second

\* Users and groups join the set.
LEMMA UserAndGroupJoin ==
  ASSUME SetOK, ObjectsOK, AddUserGroup
  PROVE  ObjectsOK'
<1> DEFINE needed == RequiredUserGroup \ ActiveNames
           added == Among("Group", needed) \o Among("User", needed)
           then == IF round = 1 THEN "remove" ELSE "tasks"
<1>1. phase = "pair" /\ script' = script /\ set' = set
  BY DEF AddUserGroup, UnchangedRun
<1>2. \/ phase' = then /\ UNCHANGED <<objects, resume>>
      \/ Join([k \in DOMAIN added |-> AutoObject(added[k])], then)
  BY DEF AddUserGroup
<1>3. IsSeq(added) /\ \A k \in DOMAIN added : added[k] \in UserGroup
  BY PairIsSeq DEF UserGroup
<1> HIDE DEF added
<1>4. Late
  BY <1>1 DEF Late
<1>5. CASE phase' = then /\ UNCHANGED <<objects, resume>>
  BY <1>1, <1>4, <1>5, ObjectsStay
<1>6. CASE Join([k \in DOMAIN added |-> AutoObject(added[k])], then)
  BY <1>1, <1>3, <1>4, <1>6, JoinOK
<1>7. QED
  BY <1>2, <1>5, <1>6

\* A set is built from its entries, each of which becomes an object.
LEMMA SetIsBuilt ==
  ASSUME SetOK, NEW objs \in BuiltObjects(ObjectSets(script)[set])
  PROVE  /\ IsSeq(objs)
         /\ \A i \in DOMAIN objs : \E e \in Entries : IsEntry(e) /\ e.hasQuery /\ objs[i] = Built(e)
         /\ \A e \in Entries : e.hasQuery => \E i \in DOMAIN objs : objs[i] = Built(e)
<1> DEFINE entries == ObjectSets(script)[set]
           queried == {i \in DOMAIN entries : entries[i].hasQuery}
<1>1. IsSet(entries) /\ Entries = ToSet(entries)
  BY ScriptShape DEF SetOK, Entries
<1>2. PICK kept \in SetToSeqs(queried) : objs = [i \in DOMAIN kept |-> Built(entries[kept[i]])]
  BY DEF BuiltObjects, WithQuery
<1> HIDE DEF entries
<1>3. IsFiniteSet(queried)
  <2>1. IsFiniteSet(DOMAIN entries)
    BY <1>1, FS_Interval DEF IsSet
  <2>2. QED
    BY <2>1, FS_Subset
<1>4. /\ IsSeq(kept) /\ \A i \in DOMAIN kept : kept[i] \in queried
      /\ \A x \in queried : \E i \in DOMAIN kept : kept[i] = x
  <2> HIDE DEF queried
  <2> QED BY <1>3, ListsAreComplete
<1>5. IsSeq(objs) /\ DOMAIN objs = DOMAIN kept
  BY <1>2, <1>4, SeqShape, FunctionIsSeq
<1>6. \A i \in DOMAIN objs : \E e \in Entries : IsEntry(e) /\ e.hasQuery /\ objs[i] = Built(e)
  BY <1>1, <1>2, <1>4 DEF IsSet, ToSet
<1>7. \A e \in Entries : e.hasQuery => \E i \in DOMAIN objs : objs[i] = Built(e)
  BY <1>1, <1>2, <1>4 DEF ToSet
<1>8. QED
  BY <1>5, <1>6, <1>7

\* A set that is loaded has the objects of its entries, and User and Group.
LEMMA ObjectsAreLoaded ==
  ASSUME SetOK, LoadSet
  PROVE  \E loaded :
           /\ IsSeq(loaded) /\ objects' = [i \in DOMAIN loaded |-> SetUp(loaded[i])]
           /\ \A i \in DOMAIN loaded :
                \/ \E e \in Entries : IsEntry(e) /\ e.hasQuery /\ loaded[i] = Built(e)
                \/ \E t \in UserGroup : loaded[i] = AutoObject(t)
           /\ \A e \in Entries : e.hasQuery => \E i \in DOMAIN loaded : loaded[i] = Built(e)
<1>1. PICK objs \in BuiltObjects(ObjectSets(script)[set]) :
        objects' = [i \in DOMAIN Expanded(objs) |-> SetUp(Expanded(objs)[i])]
  BY DEF LoadSet
<1> DEFINE loaded == Expanded(objs)
<1>2. PICK added : /\ IsSeq(added) /\ \A k \in DOMAIN added : added[k] \in UserGroup
                   /\ loaded = objs \o [k \in DOMAIN added |-> AutoObject(added[k])]
  <2>1. PICK names : loaded = objs \o [k \in DOMAIN (Among("User", names) \o Among("Group", names)) |->
                                 AutoObject((Among("User", names) \o Among("Group", names))[k])]
    BY DEF Expanded
  <2> DEFINE list == Among("User", names) \o Among("Group", names)
  <2>2. IsSeq(list) /\ \A k \in DOMAIN list : list[k] \in UserGroup
    BY PairIsSeq DEF UserGroup
  <2> HIDE DEF list
  <2>3. QED
    BY <2>1, <2>2 DEF list
<1> HIDE DEF loaded
<1> DEFINE autos == [k \in DOMAIN added |-> AutoObject(added[k])]
<1>3. IsSeq(autos) /\ DOMAIN autos = DOMAIN added
  BY <1>2, SeqShape, FunctionIsSeq
<1>4. IsSeq(loaded) /\ \A i \in DOMAIN loaded :
        \/ \E e \in Entries : IsEntry(e) /\ e.hasQuery /\ loaded[i] = Built(e)
        \/ \E t \in UserGroup : loaded[i] = AutoObject(t)
  <2>1. \A k \in DOMAIN autos : \E t \in UserGroup : autos[k] = AutoObject(t)
    BY <1>2
  <2> HIDE DEF autos
  <2>2. QED
    <3>1. loaded = objs \o autos /\ IsSeq(objs)
      BY <1>2, SetIsBuilt DEF autos
    <3>2. IsSeq(loaded) /\ \A i \in DOMAIN loaded :
            (i \in DOMAIN objs /\ loaded[i] = objs[i]) \/ \E j \in DOMAIN autos : loaded[i] = autos[j]
      BY <1>3, <3>1, JoinedSeq
    <3>3. QED
      BY <2>1, <3>2, SetIsBuilt
<1>5. \A e \in Entries : e.hasQuery => \E i \in DOMAIN loaded : loaded[i] = Built(e)
  <2> HIDE DEF autos
  <2>1. \A i \in DOMAIN objs : i \in DOMAIN loaded /\ loaded[i] = objs[i]
    BY <1>2, <1>3, SetIsBuilt, JoinedSeq DEF autos
  <2>2. QED
    BY <2>1, SetIsBuilt
<1>6. objects' = [i \in DOMAIN loaded |-> SetUp(loaded[i])]
  BY <1>1 DEF loaded
<1>7. QED
  BY <1>4, <1>5, <1>6

\* Loading a set.
LEMMA SetIsLoaded ==
  ASSUME SetOK, LoadSet
  PROVE  ObjectsOK'
<1>1. PICK loaded :
        /\ IsSeq(loaded) /\ objects' = [i \in DOMAIN loaded |-> SetUp(loaded[i])]
        /\ \A i \in DOMAIN loaded :
             \/ \E e \in Entries : IsEntry(e) /\ e.hasQuery /\ loaded[i] = Built(e)
             \/ \E t \in UserGroup : loaded[i] = AutoObject(t)
        /\ \A e \in Entries : e.hasQuery => \E i \in DOMAIN loaded : loaded[i] = Built(e)
  BY ObjectsAreLoaded
<1>2. phase' = "describe" /\ resume' = "parents" /\ script' = script /\ Entries' = Entries
  BY DEF LoadSet, Entries
<1>3. IsSeq(objects') /\ DOMAIN objects' = DOMAIN loaded
  BY <1>1, SeqShape, FunctionIsSeq
<1>4. \A i \in DOMAIN objects' : ObjectOK(objects'[i], script', Entries')
  BY <1>1, <1>2, EntriesAreSetUp, AddedAreSetUp
<1>5. \A e \in Entries' : e.hasQuery => \E i \in DOMAIN objects' : objects'[i].name = e.name
  <2>1. \A e \in Entries : IsEntry(e)
    <3>1. IsSet(ObjectSets(script)[set])
      BY ScriptShape DEF SetOK
    <3>2. QED
      BY <3>1 DEF IsSet, Entries, ToSet
  <2>2. QED
    BY <1>1, <1>2, <2>1, EntriesAreSetUp
<1>6. ~Late'
  BY <1>2 DEF Late
<1>7. QED
  BY <1>2, <1>3, <1>4, <1>5, <1>6 DEF ObjectsOK

-----------------------------------------------------------------------------
(***************************************************************************)
(* The other steps of a set.                                               *)
(***************************************************************************)
\* Operators that lower every object.
LEMMA EachLowered ==
  ASSUME ObjectsOK, phase # "load", script' = script, set' = set,
         objects' = [i \in DOMAIN objects |-> objects'[i]],
         \A i \in DOMAIN objects : Lowers(objects[i], objects'[i]) /\ Staged(objects[i], objects'[i]),
         Late' => Late,
         phase' \in {"parents", "link", "operations"} => phase \in {"parents", "link", "operations"}
  PROVE  ObjectsOK'
<1>1. \A i \in DOMAIN objects : StageOK(objects'[i], script)
  BY StagedIsOK DEF ObjectsOK, ObjectOK
<1>2. phase' \in {"parents", "link", "operations"} =>
        \A i \in DOMAIN objects : ~objects'[i].excluded => objects'[i].stage = "done"
  BY DEF ObjectsOK, Lowers, Staged
<1>3. QED
  BY <1>1, <1>2, PointwiseOK

\* Linking lookups.
LEMMA LookupsLinked ==
  ASSUME SetOK, ObjectsOK, Link
  PROVE  ObjectsOK'
<1>1. phase = "link" /\ phase' = "operations" /\ script' = script /\ set' = set
  BY DEF Link, UnchangedRun
<1>2. PICK linked :
        objects' = [i \in DOMAIN objects |->
                      IF objects[i].excluded \/ ~IsDescribed(objects[i]) THEN objects[i]
                      ELSE WithRelationships(objects[i], linked[objects[i].name])]
  BY DEF Link
<1>3. \A i \in DOMAIN objects : IsObject(objects[i])
  BY <1>1 DEF ObjectsOK, ObjectOK
<1>4. \A i \in DOMAIN objects : Lowers(objects[i], objects'[i]) /\ Staged(objects[i], objects'[i])
  BY <1>2, <1>3, OperatorsLower
<1>5. objects' = [i \in DOMAIN objects |-> objects'[i]]
  BY <1>2
<1>6. ~Late'
  BY <1>1 DEF Late
<1>7. QED
  BY <1>1, <1>4, <1>5, <1>6, EachLowered

\* Adapting operations to the metadata; a file target needs no rights.
LEMMA OperationsNormalised ==
  ASSUME SetOK, ObjectsOK, NormaliseOperations
  PROVE  ObjectsOK'
<1>1. phase = "operations" /\ phase' = "exclude" /\ script' = script /\ Entries' = Entries
  BY DEF NormaliseOperations, UnchangedRun, Entries
<1>2. /\ IsSeq(objects) /\ \A i \in DOMAIN objects : ObjectOK(objects[i], script, Entries)
      /\ \A i \in DOMAIN objects : ~objects[i].excluded => objects[i].stage = "done"
  BY <1>1 DEF ObjectsOK
<1>3. /\ IsSeq(objects') /\ DOMAIN objects' = DOMAIN objects
      /\ \A i \in DOMAIN objects : /\ ObjectOK(objects'[i], script, Entries) /\ HasRights(objects'[i], script)
                                   /\ objects'[i].name = objects[i].name
  <2>1. CASE script.targetIsFile
    <3>1. objects' = objects
      BY <2>1 DEF NormaliseOperations
    <3>2. \A i \in DOMAIN objects : HasRights(objects[i], script)
      BY <1>2, <2>1 DEF HasRights, ObjectOK, AsAsked, AsAdded, AsEntry
    <3>3. QED
      BY <1>2, <3>1, <3>2
  <2>2. CASE ~script.targetIsFile
    <3>1. objects' = [i \in DOMAIN objects |-> Adapted(objects[i])]
      BY <2>2 DEF NormaliseOperations
    <3>2. IsSeq(objects') /\ DOMAIN objects' = DOMAIN objects
      BY <1>2, <3>1, SeqShape, FunctionIsSeq
    <3>3. QED
      BY <1>2, <2>2, <3>1, <3>2, AdaptedHasRights DEF SetOK
  <2>3. QED
    BY <2>1, <2>2
<1>4. \A e \in Entries' : e.hasQuery => \E i \in DOMAIN objects' : objects'[i].name = e.name
  BY <1>1, <1>3 DEF ObjectsOK
<1>5. QED
  BY <1>1, <1>3, <1>4 DEF ObjectsOK

\* Excluding objects and their lookups.
LEMMA ObjectsExcluded ==
  ASSUME SetOK, ObjectsOK, Exclude \/ RemoveLookups
  PROVE  ObjectsOK'
<1>1. /\ phase \in {"exclude", "remove"} /\ phase' \in {"pair", "tasks", "exclude"}
      /\ script' = script /\ set' = set
  BY DEF Exclude, RemoveLookups, UnchangedRun
<1>2. \/ objects' = [i \in DOMAIN objects |-> Sifted(objects[i])]
      \/ objects' = [i \in DOMAIN objects |-> WithoutLookups(objects[i])]
  BY DEF Exclude, RemoveLookups
<1>3. \A i \in DOMAIN objects : IsObject(objects[i])
  BY <1>1 DEF ObjectsOK, ObjectOK
<1>4. \A i \in DOMAIN objects : Lowers(objects[i], objects'[i]) /\ Staged(objects[i], objects'[i])
  BY <1>2, <1>3, OperatorsLower
<1>5. objects' = [i \in DOMAIN objects |-> objects'[i]]
  BY <1>2
<1>6. Late
  BY <1>1 DEF Late
<1>7. QED
  BY <1>1, <1>4, <1>5, <1>6, EachLowered

\* The preflight of a task.
LEMMA TaskIsPrepared ==
  ASSUME SetOK, ObjectsOK, NEW i \in DOMAIN objects, PrepareTask(i)
  PROVE  ObjectsOK'
<1> DEFINE o == objects[i]
           keyed == [j \in DOMAIN objects |->
                       IF j \in LinkedParents(o) THEN [objects[j] EXCEPT !.fields = @ \cup {objects[j].externalId}]
                                                ELSE objects[j]]
<1>1. phase = "preflight" /\ phase' = phase /\ script' = script /\ set' = set /\ resume' = resume
      /\ o.stage = "done" /\ i \in Active(objects)
  BY DEF PrepareTask, UnchangedRun
<1>2. objects' = [keyed EXCEPT ![i] = [WithRelationships(@, DescribeOf(o)) EXCEPT !.stage = "ready"]]
  BY DEF PrepareTask
<1>3. \A j \in DOMAIN objects : IsObject(objects[j]) /\ StageOK(objects[j], script)
  BY <1>1 DEF ObjectsOK, ObjectOK
<1>4. \A j \in DOMAIN objects : Lowers(objects[j], keyed[j]) /\ Staged(objects[j], keyed[j])
  BY <1>3 DEF Lowers, Staged, IsObject, ObjectFields
<1>5. DOMAIN keyed = DOMAIN objects
  OBVIOUS
<1> HIDE DEF keyed
<1>6. ASSUME NEW j \in DOMAIN objects
      PROVE  Lowers(objects[j], objects'[j]) /\ StageOK(objects'[j], script)
  <2>1. CASE j # i
    <3>1. objects'[j] = keyed[j]
      BY <1>2, <1>5, <2>1
    <3>2. QED
      BY <1>3, <1>4, <3>1, StagedIsOK
  <2>2. CASE j = i
    <3> DEFINE w == WithRelationships(keyed[i], DescribeOf(o))
    <3>1. objects'[i] = [w EXCEPT !.stage = "ready"]
      BY <1>2, <1>5
    <3>2. Lowers(o, w) /\ Staged(o, w)
      BY <1>4, OperatorsLower, LowersAddsUp DEF Lowers
    <3> HIDE DEF w
    <3>3. Lowers(o, [w EXCEPT !.stage = "ready"]) /\ StageOK([w EXCEPT !.stage = "ready"], script)
      BY <1>1, <1>3, <3>2 DEF Lowers, Staged, StageOK, Described, IsObject, ObjectFields
    <3>4. QED
      BY <2>2, <3>1, <3>3
  <2>3. QED
    BY <2>1, <2>2
<1>7. objects' = [j \in DOMAIN objects |-> objects'[j]]
  BY <1>2, <1>5
<1>8. Late' => Late
  BY <1>1 DEF Late
<1>9. QED
  BY <1>1, <1>6, <1>7, <1>8, PointwiseOK

\* Every step of a set keeps the objects within the script.
LEMMA StepObjects ==
  ASSUME SetOK, ObjectsOK, Next
  PROVE  ObjectsOK'
<1>1. CASE LoadSet
  BY <1>1, SetIsLoaded
<1>2. CASE Describing
  BY <1>2, SourceDescribed, TargetDescribed, PolymorphicFixed DEF Describing
<1>3. CASE DescribesDone
  BY <1>3, AllDescribed
<1>4. CASE AddParents
  BY <1>4, ParentsJoin
<1>5. CASE Link
  BY <1>5, LookupsLinked
<1>6. CASE NormaliseOperations
  BY <1>6, OperationsNormalised
<1>7. CASE Exclude \/ RemoveLookups
  BY <1>7, ObjectsExcluded
<1>8. CASE AddUserGroup
  BY <1>8, UserAndGroupJoin
<1>9. CASE CreateTasks
  BY <1>9, ObjectsStay DEF CreateTasks, UnchangedRun, Late
<1>10. CASE \E i \in DOMAIN objects : PrepareTask(i)
  BY <1>10, TaskIsPrepared
<1>11. CASE SetDone
  <2>1. CASE phase' = "load"
    BY <2>1 DEF ObjectsOK
  <2>2. CASE phase' = "ended" /\ set' = set
    BY <1>11, <2>2, ObjectsStay DEF SetDone, Late
  <2>3. QED
    BY <1>11, <2>1, <2>2 DEF SetDone
<1>12. QED
  BY <1>1, <1>2, <1>3, <1>4, <1>5, <1>6, <1>7, <1>8, <1>9, <1>10, <1>11 DEF Next

-----------------------------------------------------------------------------
(***************************************************************************)
(* The tasks of finished sets.                                             *)
(***************************************************************************)
\* What OnlyAskedWrites says of a task of the set k.
TaskIsAsked(t, s, asked) ==
  /\ ~s.targetIsFile /\ t.operation # "Readonly" =>
       /\ \E e \in asked : \/ e.operation \in {t.operation, "Upsert"}
                           \/ t.operation = "Delete" /\ e.operation \in DeleteOperations
       /\ t.name \notin Special
       /\ RightsFor(t.operation) \subseteq Org[WriteOrg(t, s)][t.name].crud
  /\ t.deleteOldData \/ t.byHierarchy =>
       /\ ~s.targetIsFile
       /\ \E e \in asked : e.deleteOldData \/ e.operation \in DeleteOperations
       /\ t.fromSource \/ "delete" \in Org["target"][t.name].crud
  /\ \A e \in asked : e.all \/ t.name \in UserGroup \/ e.notUpdated \cap t.updated = {}

\* OnlyAskedWrites, task by task.
LEMMA WritesByTask ==
  OnlyAskedWrites <=>
    \A k \in DOMAIN outcomes : \A t \in outcomes[k] : TaskIsAsked(t, script, EntriesFor(k, t.name))
<1>1. \A p : p \in Finished <=> \E k \in DOMAIN outcomes : \E t \in outcomes[k] : p = <<k, t>>
  BY DEF Finished
<1>2. \A k, t : <<k, t>>[1] = k /\ <<k, t>>[2] = t
  OBVIOUS
<1>3. OnlyAskedWrites <=> \A p \in Finished : TaskIsAsked(p[2], script, EntriesFor(p[1], p[2].name))
  BY DEF OnlyAskedWrites, TaskIsAsked, WriteOrg
<1>4. ASSUME OnlyAskedWrites, NEW k \in DOMAIN outcomes, NEW t \in outcomes[k]
      PROVE  TaskIsAsked(t, script, EntriesFor(k, t.name))
  <2> DEFINE p == <<k, t>>
  <2>1. p \in Finished /\ p[1] = k /\ p[2] = t
    BY <1>1, <1>2, <1>4
  <2>2. TaskIsAsked(p[2], script, EntriesFor(p[1], p[2].name))
    BY <1>3, <1>4, <2>1
  <2>3. QED
    BY <2>1, <2>2
<1>5. ASSUME \A k \in DOMAIN outcomes : \A t \in outcomes[k] : TaskIsAsked(t, script, EntriesFor(k, t.name)),
             NEW p \in Finished
      PROVE  TaskIsAsked(p[2], script, EntriesFor(p[1], p[2].name))
  <2>1. PICK k \in DOMAIN outcomes : \E t \in outcomes[k] : p = <<k, t>>
    BY <1>1
  <2>2. PICK t \in outcomes[k] : p = <<k, t>>
    BY <2>1
  <2>3. p[1] = k /\ p[2] = t
    BY <2>2
  <2>4. TaskIsAsked(t, script, EntriesFor(k, t.name))
    BY <1>5
  <2>5. QED
    BY <2>3, <2>4
<1>6. QED
  BY <1>3, <1>4, <1>5

\* The task of an active object is asked for.
LEMMA ActiveIsAsked ==
  ASSUME SetOK, ObjectsOK, phase = "preflight", NEW i \in Active(objects)
  PROVE  TaskIsAsked(Outcome(objects[i]), script, EntriesFor(set, Outcome(objects[i]).name))
<1> DEFINE o == objects[i]
           t == Outcome(o)
           asked == EntriesFor(set, o.name)
<1>1. i \in DOMAIN objects /\ ~o.excluded /\ ObjectOK(o, script, Entries) /\ HasRights(o, script)
  BY DEF ObjectsOK, Late, Active
<1>2. /\ t.name = o.name /\ t.operation = o.operation /\ t.fromSource = o.fromSource
      /\ t.deleteOldData = o.deleteOldData /\ t.byHierarchy = o.byHierarchy
      /\ t.updated \cap o.notUpdated = {}
  BY DEF Outcome, FieldsToUpdate
<1>3. \A e : e \in asked <=> e \in Entries /\ e.name = o.name /\ e.hasQuery /\ ~e.excluded
  BY DEF EntriesFor, Entries
<1>4. /\ ~script.targetIsFile => RightsFor(t.operation) \subseteq Org[WriteOrg(t, script)][t.name].crud
      /\ t.deleteOldData \/ t.byHierarchy => t.fromSource \/ "delete" \in Org["target"][t.name].crud
  BY <1>1, <1>2 DEF HasRights, WriteOrg, DeletesTarget
<1> HIDE DEF t, asked
<1>5. CASE AsAdded(o, script, Entries)
  <2>1. t.name \in UserGroup \/ asked = {}
    BY <1>2, <1>3, <1>5 DEF AsAdded
  <2>2. ~(t.deleteOldData \/ t.byHierarchy) /\ (~script.targetIsFile => t.operation = "Readonly")
    BY <1>2, <1>5 DEF AsAdded, DeletesTarget
  <2>3. QED
    BY <1>2, <2>1, <2>2 DEF TaskIsAsked, t, asked
<1>6. ASSUME NEW e \in Entries, e.hasQuery, AsEntry(o, e, script)
      PROVE  TaskIsAsked(t, script, asked)
  <2>1. e \in asked
    BY <1>3, <1>6 DEF AsEntry
  <2>2. ~script.targetIsFile /\ t.operation # "Readonly" =>
          /\ \E a \in asked : \/ a.operation \in {t.operation, "Upsert"}
                              \/ t.operation = "Delete" /\ a.operation \in DeleteOperations
          /\ t.name \notin Special
    BY <1>2, <1>6, <2>1 DEF AsEntry, Grants
  <2>3. t.deleteOldData \/ t.byHierarchy =>
          /\ ~script.targetIsFile
          /\ \E a \in asked : a.deleteOldData \/ a.operation \in DeleteOperations
    BY <1>2, <1>6, <2>1 DEF AsEntry, DeletesTarget
  <2>4. \A a \in asked : a = e
    <3>1. IsSet(ObjectSets(script)[set])
      BY ScriptShape DEF SetOK
    <3>2. QED
      BY <1>3, <1>6, <3>1 DEF Entries, ToSet, IsSet, AsEntry
  <2>5. \A a \in asked : a.all \/ t.name \in UserGroup \/ a.notUpdated \cap t.updated = {}
    BY <1>2, <1>6, <2>4 DEF AsEntry
  <2>6. QED
    BY <1>4, <2>2, <2>3, <2>5 DEF TaskIsAsked
<1>7. QED
  BY <1>1, <1>2, <1>5, <1>6 DEF ObjectOK, AsAsked, t, asked

\* The outcomes of finished sets stay.
LEMMA WritesStay == OnlyAskedWrites /\ UNCHANGED <<script, outcomes>> => OnlyAskedWrites'
BY DEF OnlyAskedWrites, Finished, EntriesFor

\* Every step keeps the tasks asked for, and the set in range.
LEMMA StepWrites ==
  ASSUME SetupInv, Next
  PROVE  SetOK' /\ OnlyAskedWrites'
<1>1. SetOK /\ ObjectsOK /\ OnlyAskedWrites
  BY DEF SetupInv
<1>2. ASSUME UNCHANGED <<script, set, outcomes>>, phase # "ended" /\ phase' # "ended",
             resume' \in {"parents", "remove", "tasks"}
      PROVE  SetOK' /\ OnlyAskedWrites'
  BY <1>1, <1>2, WritesStay DEF SetOK
<1>3. CASE SetDone
  <2> DEFINE tasks == {Outcome(objects[i]) : i \in Active(objects)}
             S == ToSet(outcomes) \cup {tasks}
  <2>1. /\ phase = "preflight" /\ outcomes' = Append(outcomes, tasks) /\ script' = script /\ resume' = resume
        /\ IF set < Len(ObjectSets(script)) THEN phase' = "load" /\ set' = set + 1
                                            ELSE phase' = "ended" /\ set' = set
    BY <1>3 DEF SetDone
  <2>2. \A t \in tasks : TaskIsAsked(t, script, EntriesFor(set, t.name))
    BY <1>1, <2>1, ActiveIsAsked
  <2> HIDE DEF tasks
  <2>3. outcomes \in Seq(S) /\ Len(outcomes) = set - 1 /\ set \in Nat
    BY <1>1, <2>1 DEF SetOK, IsSeq
  <2>4. /\ outcomes' \in Seq(S) /\ Len(outcomes') = set /\ DOMAIN outcomes' = 1 .. set
        /\ \A k \in 1 .. set - 1 : k \in DOMAIN outcomes /\ outcomes'[k] = outcomes[k]
        /\ outcomes'[set] = tasks
    BY <2>1, <2>3, AppendProperties
  <2>5. IsSeq(outcomes')
    <3>1. outcomes' = [k \in 1 .. set |-> outcomes'[k]]
      BY <2>4
    <3>2. QED
      BY <2>3, <3>1, FunctionIsSeq
  <2>6. SetOK'
    <3>1. Len(ObjectSets(script)) \in Nat /\ set \in 1 .. Len(ObjectSets(script))
      BY <1>1, ScriptShape DEF SetOK
    <3>2. QED
      BY <1>1, <2>1, <2>4, <2>5, <3>1 DEF SetOK
  <2>7. \A k, n : EntriesFor(k, n)' = EntriesFor(k, n)
    BY <2>1 DEF EntriesFor
  <2>8. ASSUME NEW k \in DOMAIN outcomes', NEW t \in outcomes'[k]
        PROVE  TaskIsAsked(t, script, EntriesFor(k, t.name))
    <3>1. CASE k = set
      BY <2>2, <2>4, <2>8, <3>1
    <3>2. CASE k # set
      <4>1. k \in DOMAIN outcomes /\ t \in outcomes[k]
        BY <2>3, <2>4, <3>2
      <4>2. QED
        BY <1>1, <4>1, WritesByTask
    <3>3. QED
      BY <3>1, <3>2
  <2>9. (\A k \in DOMAIN outcomes : \A t \in outcomes[k] : TaskIsAsked(t, script, EntriesFor(k, t.name)))'
    BY <2>1, <2>7, <2>8
  <2>10. OnlyAskedWrites'
    BY <2>9, WritesByTask, PTL
  <2>11. QED
    BY <2>6, <2>10
<1>4. CASE LoadSet
  BY <1>2, <1>4 DEF LoadSet
<1>5. CASE Describing
  <2>1. PICK i \in DOMAIN objects : DescribeSource(i) \/ DescribeTarget(i) \/ FixPolymorphic(i)
    BY <1>5, Zenon DEF Describing
  <2>2. CASE DescribeSource(i)
    <3>1. UnchangedRun /\ UNCHANGED <<phase, resume>> /\ phase = "describe"
      BY <2>2, ZenonT(60) DEF DescribeSource
    <3>2. QED
      BY <1>1, <1>2, <3>1 DEF UnchangedRun, SetOK
  <2>3. CASE DescribeTarget(i)
    <3>1. UnchangedRun /\ UNCHANGED <<resume, round>> /\ phase = "describe"
      BY <2>3, ZenonT(60) DEF DescribeTarget
    <3>2. phase' = phase \/ \E ds : Applied(i, objects[i], ds)
      BY <2>3, ZenonT(60) DEF DescribeTarget
    <3>3. ASSUME NEW ds, Applied(i, objects[i], ds) PROVE phase' = phase \/ phase' = "failed"
      BY <3>3, ZenonT(60) DEF Applied
    <3>4. QED
      BY <1>1, <1>2, <3>1, <3>2, <3>3 DEF UnchangedRun, SetOK
  <2>4. CASE FixPolymorphic(i)
    <3>1. UnchangedRun /\ UNCHANGED <<phase, resume>> /\ phase = "describe"
      BY <2>4, ZenonT(60) DEF FixPolymorphic
    <3>2. QED
      BY <1>1, <1>2, <3>1 DEF UnchangedRun, SetOK
  <2>5. QED
    BY <2>1, <2>2, <2>3, <2>4
<1>6. CASE DescribesDone
  BY <1>1, <1>2, <1>6 DEF DescribesDone, UnchangedRun, SetOK
<1>7. CASE AddParents
  BY <1>1, <1>2, <1>7 DEF AddParents, Join, UnchangedRun, SetOK
<1>8. CASE Link
  BY <1>1, <1>2, <1>8 DEF Link, UnchangedRun, SetOK
<1>9. CASE NormaliseOperations \/ Exclude \/ RemoveLookups \/ CreateTasks
  BY <1>1, <1>2, <1>9 DEF NormaliseOperations, Exclude, RemoveLookups, CreateTasks, UnchangedRun, SetOK
<1>10. CASE AddUserGroup
  BY <1>1, <1>2, <1>10 DEF AddUserGroup, Join, UnchangedRun, SetOK
<1>11. CASE \E i \in DOMAIN objects : PrepareTask(i)
  BY <1>1, <1>2, <1>11 DEF PrepareTask, UnchangedRun, SetOK
<1>12. QED
  BY <1>3, <1>4, <1>5, <1>6, <1>7, <1>8, <1>9, <1>10, <1>11 DEF Next

\* The invariant holds.
LEMMA SetupHolds == Spec => []SetupInv
<1>1. Init => SetupInv
  <2> SUFFICES ASSUME Init PROVE SetupInv
    OBVIOUS
  <2>1. script \in Scripts /\ set = 1 /\ phase = "load" /\ resume = "parents" /\ outcomes = <<>>
    BY DEF Init
  <2>2. SetOK
    <3>1. Len(ObjectSets(script)) \in Nat \ {0}
      BY <2>1, ScriptShape, EmptySeq
    <3>2. IsSeq(<<>>)
      BY DEF IsSeq
    <3>3. QED
      BY <2>1, <3>1, <3>2 DEF SetOK
  <2>3. ObjectsOK
    BY <2>1 DEF ObjectsOK
  <2>4. OnlyAskedWrites
    BY <2>1 DEF OnlyAskedWrites, Finished
  <2>5. QED
    BY <2>2, <2>3, <2>4 DEF SetupInv
<1>2. SetupInv /\ [Next]_vars => SetupInv'
  <2>1. ASSUME SetupInv, Next PROVE SetupInv'
    BY <2>1, StepObjects, StepWrites DEF SetupInv
  <2>2. ASSUME SetupInv, UNCHANGED vars PROVE SetupInv'
    BY <2>2 DEF SetupInv, vars, SetOK, ObjectsOK, Late, Entries, OnlyAskedWrites, Finished, EntriesFor
  <2>3. QED
    BY <2>1, <2>2
<1>3. QED
  BY <1>1, <1>2, PTL DEF Spec

\* However the operation of an object is defaulted, forced and adapted, an org is only
\* written or emptied where the script asks for it and the metadata allow it, for any
\* script, orgs and answers of the describes (ScriptObject.setup, MigrationJob.setupAsync).
THEOREM OnlyAsked == Spec => []OnlyAskedWrites
<1>1. SetupInv => OnlyAskedWrites
  BY DEF SetupInv
<1>2. QED
  BY <1>1, SetupHolds, PTL

-----------------------------------------------------------------------------
(***************************************************************************)
(* The tasks of a set fit the orgs and each other.                         *)
(***************************************************************************)
\* The cached describes have the fields of the orgs, linked to no later set than last.
IsDescribe(d, side, name, last) ==
  /\ name \in DOMAIN Org[side] /\ DOMAIN d = FieldsOf(side, name)
  /\ \A f \in DOMAIN d : /\ DOMAIN d[f] = {"ref", "poly", "definition", "parent"}
                         /\ d[f].parent = NoParent \/ d[f].parent.set \in 1 .. last
AreDescribes(ds, last) ==
  DOMAIN ds = Sides /\ \A side \in Sides : \A n \in DOMAIN ds[side] : IsDescribe(ds[side][n], side, n, last)
BeforeLink == phase \in {"load", "parents", "link"} \/ (phase = "describe" /\ resume = "parents")
LateDescribe == phase = "describe" /\ resume # "parents"
AfterLink == phase \in {"operations", "exclude", "pair", "remove", "tasks"} \/ LateDescribe
LastLinked == IF BeforeLink THEN set - 1 ELSE set

\* Which objects are cached.
IsKnown(o, ds, orgs) ==
  /\ o.stage = "target" /\ ~o.missing /\ "source" \in orgs => o.name \in DOMAIN ds["source"]
  /\ o.stage \in Described /\ ~o.missing => \A side \in orgs : o.name \in DOMAIN ds[side]
DescribesOK ==
  /\ AreDescribes(describes, LastLinked)
  /\ \A i \in DOMAIN objects : IsKnown(objects[i], describes, OrgSides)

\* The query of an object: as its entry excludes fields, but for User and Group added
\* again; as set up; and as described.
Barred(k, name) == UNION {e.excludedFields : e \in EntriesFor(k, name)}
Rejoined(o) == o.name \in UserGroup /\ ~o.all /\ o.fields \subseteq {"Id", o.externalId}
FromEntry(o, barred) == o.excludedFields \subseteq barred /\ (barred \subseteq o.excludedFields \/ Rejoined(o))
AsSetUp(o) ==
  /\ {"Id", o.externalId} \subseteq o.fields /\ o.via = {}
  /\ o.defaultId /\ o.operation # "Insert" /\ ~o.fromSource => o.externalId # "Id"
AsDescribed(o, read, orgs) ==
  /\ \A side \in orgs : o.fields \cup {o.externalId} \subseteq FieldsOf(side, o.name)
  /\ "Id" \in o.fields \cup o.excludedFields
  /\ o.externalId \in o.fields \cup o.excludedFields \/ To(read, o.name, o.externalId) # <<>>
  /\ o.fields \cap o.excludedFields \subseteq {o.externalId}
  /\ \A v \in o.via : v[1] \in o.fields /\ To(read, o.name, v[1]) # <<>>
QueryOK(o, barred, read, orgs) ==
  ~o.excluded => /\ FromEntry(o, barred)
                 /\ o.stage \in {"source", "target"} => AsSetUp(o)
                 /\ o.stage \in Described => AsDescribed(o, read, orgs)
QueriesOK ==
  phase # "load" => \A i \in DOMAIN objects :
                      QueryOK(objects[i], Barred(set, objects[i].name), ReadSide, OrgSides)

\* How far the objects are in each phase.  Users and groups that join late have no lookups.
StagesOK ==
  /\ round \in {1, 2}
  /\ phase \in {"parents", "link", "operations", "exclude", "pair", "remove", "tasks"} =>
       \A i \in DOMAIN objects : objects[i].stage \in {"none", "done"}
  /\ phase \notin {"preflight", "load", "ended"} => \A i \in DOMAIN objects : objects[i].stage # "ready"
  /\ phase # "load" /\ (BeforeLink \/ phase = "operations") => round = 1
IsNewcomer(o, read) ==
  /\ o.name \in UserGroup /\ ~o.all /\ o.fields \subseteq {"Id", "Name", Org[read][o.name].nameField}
  /\ o.stage \in {"source", "target"} => ~o.excluded /\ o.externalId = "Name"
NewcomersOK ==
  LateDescribe => \A i \in DOMAIN objects : objects[i].stage \notin {"none", "done"} =>
    /\ IsNewcomer(objects[i], ReadSide)
    /\ \A j \in Active(objects) \ {i} : objects[j].name # objects[i].name

\* The lookup f of an object, described by d, refers to an object the set has or excludes
\* (covered); it is linked to it if that is active; it is left by the removal of lookups;
\* and there is a task for it.
AllNames == ExcludedNames \cup ActiveNames
DoneNames == {objects[j].name : j \in {k \in Active(objects) : objects[k].stage = "done"}}
LoneNames == {objects[j].name : j \in {k \in DOMAIN objects \ Active(objects) : OnlyId(objects[k])}}
OneTarget(name, d, f) == d[f].poly \/ ToSet(To(ReadSide, name, f)) \cap UserGroup = {}
IsCovered(name, d, f) == OneTarget(name, d, f) => d[f].ref \in AllNames
IsLinked(d, f) ==
  /\ d[f].parent.set = set => d[f].parent.name = d[f].ref
  /\ d[f].ref \in ActiveNames \ UserGroup => d[f].parent.set = set
Stays(name, d, f) == UserGroupLookup(d, ReadSide, name, f) \/ ParentName(d, f) \notin ExcludedNames
HasTask(name, d, f) ==
  \/ UserGroupLookup(d, ReadSide, name, f)
  \/ ~OneTarget(name, d, f)
  \/ d[f].parent.set \in 1 .. set - 1
  \/ d[f].ref \in DoneNames
  \/ round = 2 /\ ParentName(d, f) \in LoneNames
Settled == phase = "tasks" \/ (phase = "pair" /\ round = 2) \/ (phase = "describe" /\ resume = "tasks")
LookupOK(name, d, f) ==
  /\ phase = "link" \/ AfterLink => IsCovered(name, d, f)
  /\ AfterLink => IsLinked(d, f)
  /\ phase = "exclude" /\ round = 2 => Stays(name, d, f)
  /\ Settled => HasTask(name, d, f)
LookupsOK ==
  \A i \in Active(objects) : \A f \in LookupsOf(objects[i]) :
    LookupOK(objects[i].name, DescribeOf(objects[i]), f)
SoundInv ==
  DescribesOK /\ QueriesOK /\ StagesOK /\ NewcomersOK /\ LookupsOK /\ QueriesAreValid /\ ParentsHaveKeys

-----------------------------------------------------------------------------
(* Describes.                                                              *)

\* Objects are read from an org.
LEMMA OrgsOfScript ==
  ASSUME script \in Scripts
  PROVE  ReadSide \in OrgSides /\ OrgSides \subseteq Sides /\ ("source" \in OrgSides <=> ~script.sourceIsFile)
BY ScriptShape DEF ReadSide, OrgSides, IsFile, Sides

\* Ids are no lookups.
LEMMA IdIsNoLookup ==
  ASSUME NEW side \in Sides, NEW name \in DOMAIN Org[side]
  PROVE  "Id" \in FieldsOf(side, name) /\ To(side, name, "Id") = <<>>
BY OrgAssumption DEF IsOrg

\* ds2 has the describes of ds, and only that of the object n differs.
Grown(ds, ds2, n) ==
  \A side \in Sides : /\ DOMAIN ds[side] \subseteq DOMAIN ds2[side]
                      /\ \A m \in DOMAIN ds[side] \ {n} : ds2[side][m] = ds[side][m]

\* A describe is loaded.
LEMMA LoadedDescribe ==
  ASSUME NEW last, AreDescribes(describes, last), NEW side \in Sides, NEW n \in DOMAIN Org[side]
  PROVE  /\ AreDescribes(Loaded(side, n), last) /\ Grown(describes, Loaded(side, n), n)
         /\ n \in DOMAIN Loaded(side, n)[side]
<1>1. CASE IsCached(side, n)
  BY <1>1 DEF Loaded, Grown, IsCached
<1>2. CASE ~IsCached(side, n)
  <2> DEFINE ds == Loaded(side, n)
  <2>1. /\ DOMAIN ds = Sides /\ \A s \in Sides \ {side} : ds[s] = describes[s]
        /\ DOMAIN ds[side] = DOMAIN describes[side] \cup {n}
        /\ \A m \in DOMAIN ds[side] : ds[side][m] = IF m = n THEN Fresh(side, n) ELSE describes[side][m]
    BY <1>2 DEF Loaded, AreDescribes
  <2>2. IsDescribe(Fresh(side, n), side, n, last)
    BY DEF IsDescribe, Fresh, FreshField
  <2> HIDE DEF ds
  <2>3. Grown(describes, ds, n)
    BY <2>1 DEF Grown
  <2>4. AreDescribes(ds, last)
    BY <2>1, <2>2 DEF AreDescribes
  <2>5. QED
    BY <2>1, <2>3, <2>4 DEF ds
<1>3. QED
  BY <1>1, <1>2

\* The describes of one object are replaced.
LEMMA ReplacedDescribe ==
  ASSUME NEW last, NEW ds, AreDescribes(ds, last), NEW n, NEW ds2, DOMAIN ds2 = Sides,
         \A side \in Sides :
           \/ ds2[side] = ds[side]
           \/ \E d : ds2[side] = [ds[side] EXCEPT ![n] = d] /\ (n \in DOMAIN ds[side] => IsDescribe(d, side, n, last))
  PROVE  AreDescribes(ds2, last) /\ Grown(ds, ds2, n) /\ \A side \in Sides : DOMAIN ds2[side] = DOMAIN ds[side]
<1>1. ASSUME NEW side \in Sides
      PROVE  /\ DOMAIN ds2[side] = DOMAIN ds[side]
             /\ \A m \in DOMAIN ds[side] \ {n} : ds2[side][m] = ds[side][m]
             /\ \A m \in DOMAIN ds2[side] : IsDescribe(ds2[side][m], side, m, last)
  <2>1. \A m \in DOMAIN ds[side] : IsDescribe(ds[side][m], side, m, last)
    BY DEF AreDescribes
  <2>2. CASE ds2[side] = ds[side]
    BY <2>1, <2>2
  <2>3. ASSUME NEW d, ds2[side] = [ds[side] EXCEPT ![n] = d], n \in DOMAIN ds[side] => IsDescribe(d, side, n, last)
        PROVE  /\ DOMAIN ds2[side] = DOMAIN ds[side]
               /\ \A m \in DOMAIN ds[side] \ {n} : ds2[side][m] = ds[side][m]
               /\ \A m \in DOMAIN ds2[side] : IsDescribe(ds2[side][m], side, m, last)
    BY <2>1, <2>3
  <2>4. QED
    BY <2>2, <2>3
<1>2. QED
  BY <1>1 DEF AreDescribes, Grown

\* What queries declare and what orgs tell of polymorphic fields keeps the links.
LEMMA CorrectedDescribe ==
  ASSUME NEW d, NEW side, NEW n, NEW last, IsDescribe(d, side, n, last)
  PROVE  /\ \A o : o.name = n => IsDescribe(Declared(d, o, side), side, n, last)
         /\ \A definitions : IsDescribe(Corrected(d, side, n, definitions), side, n, last)
<1>1. ASSUME NEW o, o.name = n PROVE IsDescribe(Declared(d, o, side), side, n, last)
  <2> DEFINE e == Declared(d, o, side)
  <2>1. DOMAIN e = DOMAIN d
    BY DEF Declared
  <2>2. ASSUME NEW f \in DOMAIN d PROVE DOMAIN e[f] = DOMAIN d[f] /\ e[f].parent = d[f].parent
    BY DEF Declared, IsDescribe
  <2> HIDE DEF e
  <2>3. QED
    BY <2>1, <2>2 DEF IsDescribe, e
<1>2. ASSUME NEW definitions PROVE IsDescribe(Corrected(d, side, n, definitions), side, n, last)
  <2> DEFINE e == Corrected(d, side, n, definitions)
  <2>1. DOMAIN e = DOMAIN d
    BY DEF Corrected
  <2>2. ASSUME NEW f \in DOMAIN d PROVE DOMAIN e[f] = DOMAIN d[f] /\ e[f].parent = d[f].parent
    <3> DEFINE g == [d[f] EXCEPT !.definition = f \in definitions]
    <3>1. DOMAIN g = DOMAIN d[f] /\ g.parent = d[f].parent /\ DOMAIN d[f] = {"ref", "poly", "definition", "parent"}
      BY DEF IsDescribe
    <3>2. e[f] \in {d[f], g, [g EXCEPT !.poly = FALSE, !.ref = OriginalRef(side, n, f)]}
      BY DEF Corrected
    <3> HIDE DEF g, e
    <3>3. QED
      BY <3>1, <3>2
  <2> HIDE DEF e
  <2>3. QED
    BY <2>1, <2>2 DEF IsDescribe, e
<1>3. QED
  BY <1>1, <1>2

\* Grown describes know the objects known before.
LEMMA StillKnown ==
  ASSUME NEW ds, NEW ds2, NEW n, Grown(ds, ds2, n), NEW orgs, orgs \subseteq Sides
  PROVE  \A o : IsKnown(o, ds, orgs) => IsKnown(o, ds2, orgs)
BY DEF Grown, IsKnown, Sides

-----------------------------------------------------------------------------
(* Queries.                                                                *)

\* What most of the setup leaves alone.
SameQuery(o, n) ==
  /\ IsObject(n) /\ n.name = o.name /\ n.all = o.all /\ n.externalId = o.externalId /\ n.defaultId = o.defaultId
  /\ n.fields = o.fields /\ n.via = o.via /\ n.excludedFields = o.excludedFields

LEMMA SetUpKeepsQuery ==
  ASSUME NEW o, IsObject(o)
  PROVE  /\ SameQuery(o, AutoDefaults(o)) /\ SameQuery(o, SpecialDefaults(o))
         /\ SameQuery(o, DeleteFlags(o)) /\ SameQuery(o, FileTarget(o))
<1> USE DEF SameQuery, IsObject, ObjectFields
<1>1. SameQuery(o, AutoDefaults(o)) /\ SameQuery(o, SpecialDefaults(o))
  BY DEF AutoDefaults, SpecialDefaults, NoDeletes
<1>2. SameQuery(o, DeleteFlags(o))
  <2>1. \/ DeleteFlags(o) \in {o, [o EXCEPT !.operation = "Delete"]}
        \/ DeleteFlags(o) \in {[o EXCEPT !.fromSource = TRUE, !.operation = "Delete"],
                               [o EXCEPT !.byHierarchy = TRUE, !.operation = "Delete"]}
    BY DEF DeleteFlags
  <2>2. QED
    BY <2>1
<1>3. SameQuery(o, FileTarget(o))
  <2>1. \/ FileTarget(o) \in {o, [o EXCEPT !.excluded = TRUE]}
        \/ FileTarget(o) \in {[o EXCEPT !.deleteOldData = FALSE, !.byHierarchy = FALSE],
                              [o EXCEPT !.deleteOldData = FALSE, !.byHierarchy = FALSE, !.operation = "Insert"]}
    BY DEF FileTarget
  <2>2. QED
    BY <2>1
<1>4. QED
  BY <1>1, <1>2, <1>3

\* The query of an object that is set up names its Id and its key; users and groups the
\* job adds are kept.
LEMMA QueryIsSetUp ==
  ASSUME NEW b, IsBuilt(b), ~b.excluded, b.via = {}, ~b.defaultId
  PROVE  /\ AsSetUp(SetUp(b)) /\ SetUp(b).excludedFields = b.excludedFields
         /\ b.auto /\ b.name \in UserGroup /\ b.fields = {"Id"} =>
              /\ ~SetUp(b).excluded /\ SetUp(b).all = b.all
              /\ SetUp(b).externalId = "Name" /\ SetUp(b).fields = {"Id", "Name"}
<1> DEFINE w == WithDefaultId(b)
           c == SpecialDefaults(AutoDefaults(w))
           g == DeleteFlags(c)
           t == FileTarget(g)
           n == ExternalIdReset(t)
           m == DeleteMode(n)
           s == [WithQueryFields(m, w.externalId) EXCEPT !.stage = "source"]
<1>1. SetUp(b) = s
  BY DEF SetUp, Normalised
<1>2. /\ IsObject(w) /\ w.name = b.name /\ w.auto = b.auto /\ w.all = b.all /\ w.fields = b.fields /\ w.via = {}
      /\ w.excludedFields = b.excludedFields /\ ~w.excluded
      /\ w.defaultId \/ b.auto => w.externalId = "Name"
  BY DEF WithDefaultId, IsBuilt, IsObject, ObjectFields
<1> HIDE DEF w
<1>3. SameQuery(w, c) /\ SameQuery(w, g) /\ SameQuery(w, t)
  <2>1. SameQuery(w, AutoDefaults(w))
    BY <1>2, SetUpKeepsQuery
  <2>2. SameQuery(w, c)
    BY <2>1, SetUpKeepsQuery DEF SameQuery
  <2>3. SameQuery(w, g)
    <3> HIDE DEF c
    <3> QED BY <2>2, SetUpKeepsQuery DEF SameQuery
  <2>4. SameQuery(w, t)
    <3> HIDE DEF g
    <3> QED BY <2>3, SetUpKeepsQuery DEF SameQuery
  <2>5. QED
    BY <2>2, <2>3, <2>4
<1>4. b.name \in UserGroup => ~t.excluded
  <2> SUFFICES ASSUME b.name \in UserGroup PROVE ~t.excluded
    OBVIOUS
  <2>1. w.name \in Special
    BY <1>2 DEF UserGroup, Special
  <2>2. LET a == AutoDefaults(w) IN IsObject(a) /\ a.name = w.name /\ ~a.excluded
    BY <1>2 DEF AutoDefaults, NoDeletes, IsObject, ObjectFields
  <2>3. IsObject(c) /\ c.operation = "Readonly" /\ ~c.excluded
    BY <2>1, <2>2 DEF SpecialDefaults, NoDeletes, IsObject, ObjectFields
  <2> HIDE DEF c
  <2>4. g = c
    BY <2>3 DEF DeleteFlags
  <2> HIDE DEF g
  <2>5. QED
    BY <2>3, <2>4 DEF FileTarget, IsObject, ObjectFields
<1> HIDE DEF t
<1>5. /\ IsObject(n) /\ n.via = {} /\ n.excludedFields = b.excludedFields /\ n.all = b.all
      /\ n.fields = b.fields /\ n.excluded = t.excluded
      /\ n.defaultId /\ n.operation # "Insert" /\ ~n.fromSource => n.externalId = "Name"
      /\ b.auto /\ b.name \in UserGroup => n.externalId = "Name"
  BY <1>2, <1>3 DEF ExternalIdReset, SameQuery, UserGroup, Special, IsObject, ObjectFields
<1> HIDE DEF n
<1>6. /\ IsObject(m) /\ m.via = {} /\ m.excludedFields = b.excludedFields /\ m.all = b.all
      /\ m.externalId = n.externalId /\ m.defaultId = n.defaultId /\ m.operation = n.operation
      /\ m.fromSource = n.fromSource /\ m.excluded = n.excluded
      /\ b.fields = {"Id"} => m.fields = {"Id"}
  BY <1>5 DEF DeleteMode, IsObject, ObjectFields
<1> HIDE DEF m
<1>7. /\ AsSetUp(s) /\ s.excludedFields = b.excludedFields /\ s.all = b.all /\ s.excluded = t.excluded
      /\ s.externalId = n.externalId /\ s.fields = m.fields \cup {"Id", n.externalId, w.externalId}
  BY <1>5, <1>6 DEF AsSetUp, WithQueryFields, IsObject, ObjectFields
<1>8. QED
  BY <1>1, <1>2, <1>4, <1>5, <1>6, <1>7

\* The query of an entry that is set up ...
LEMMA EntryIsQueried ==
  ASSUME SetOK, NEW e \in Entries, IsEntry(e), e.hasQuery
  PROVE  /\ QueryOK(SetUp(Built(e)), Barred(set, e.name), ReadSide, OrgSides)
         /\ SetUp(Built(e)).stage \in {"none", "source"}
<1> DEFINE b == Built(e)
           s == SetUp(b)
<1>1. /\ IsBuilt(b) /\ b.name = e.name /\ b.excluded = e.excluded /\ b.via = {} /\ ~b.defaultId
      /\ b.excludedFields = e.excludedFields
  BY DEF Built, IsBuilt, IsObject, ObjectFields, IsEntry, Operations
<1> HIDE DEF b
<1>2. CASE b.excluded
  <2>1. s.excluded /\ s.stage = "none"
    BY <1>1, <1>2, SetUpAsks DEF IsBuilt
  <2>2. QED
    BY <2>1 DEF QueryOK, b
<1>3. CASE ~b.excluded
  <2>1. AsSetUp(s) /\ s.excludedFields = e.excludedFields /\ s.stage = "source"
    BY <1>1, <1>3, QueryIsSetUp, SetUpAsks
  <2>2. EntriesFor(set, e.name) = {e}
    <3>1. IsSet(ObjectSets(script)[set])
      BY ScriptShape DEF SetOK
    <3>2. QED
      BY <1>1, <1>3, <3>1 DEF EntriesFor, Entries, ToSet, IsSet
  <2>3. Barred(set, e.name) = e.excludedFields
    BY <2>2 DEF Barred
  <2>4. QueryOK(s, Barred(set, e.name), ReadSide, OrgSides)
    BY <2>1, <2>3 DEF QueryOK, FromEntry, Described
  <2>5. QED
    BY <2>1, <2>4 DEF b
<1>4. QED
  BY <1>2, <1>3 DEF b

\* ... and of an object the job adds: no entry is about it, or it is User or Group.
LEMMA AddedIsQueried ==
  ASSUME SetOK, NEW name, name \in UserGroup \/ \A e \in Entries : e.hasQuery => e.name # name
  PROVE  /\ QueryOK(SetUp(AutoObject(name)), Barred(set, name), ReadSide, OrgSides)
         /\ SetUp(AutoObject(name)).name = name /\ SetUp(AutoObject(name)).stage = "source"
         /\ ~SetUp(AutoObject(name)).missing
         /\ name \in UserGroup => IsNewcomer(SetUp(AutoObject(name)), ReadSide)
<1> DEFINE b == AutoObject(name)
           s == SetUp(b)
<1>1. /\ IsBuilt(b) /\ b.auto /\ b.name = name /\ ~b.excluded /\ b.via = {} /\ ~b.defaultId /\ ~b.all
      /\ b.excludedFields = {} /\ b.fields = {"Id"}
  BY DEF AutoObject, Built, IsBuilt, IsObject, ObjectFields, Operations
<1> HIDE DEF b
<1>2. Targeted(s, b) /\ s.stage = "source"
  BY <1>1, SetUpAsks
<1>3. /\ AsSetUp(s) /\ s.excludedFields = {}
      /\ name \in UserGroup => ~s.excluded /\ ~s.all /\ s.externalId = "Name" /\ s.fields = {"Id", "Name"}
  BY <1>1, QueryIsSetUp
<1>4. s.name = name /\ ~s.missing
  BY <1>1, <1>2 DEF Targeted, Asks, Of
<1> HIDE DEF s
<1>5. name \in UserGroup \/ Barred(set, name) = {}
  BY DEF Barred, EntriesFor, Entries
<1>6. FromEntry(s, Barred(set, name))
  BY <1>3, <1>4, <1>5 DEF FromEntry, Rejoined
<1>7. QueryOK(s, Barred(set, name), ReadSide, OrgSides)
  BY <1>2, <1>3, <1>6 DEF QueryOK, Described
<1>8. name \in UserGroup => IsNewcomer(s, ReadSide)
  BY <1>3, <1>4 DEF IsNewcomer
<1>9. QED
  BY <1>2, <1>4, <1>7, <1>8 DEF s, b

\* What the describe d makes of the query of o.
LEMMA FieldsAreAdapted ==
  ASSUME NEW o, IsObject(o), NEW d, NEW side
  PROVE  LET n == FieldsAdapted(o, d, side) IN
         /\ IsObject(n) /\ n.name = o.name /\ n.all = o.all /\ n.excluded = o.excluded
         /\ n.excludedFields = o.excludedFields /\ n.via = o.via
         /\ \/ n.externalId = o.externalId
            \/ /\ o.defaultId /\ o.operation # "Insert" /\ ~o.fromSource
               /\ n.externalId = Org[side][o.name].nameField
         /\ n.fields \subseteq DOMAIN d
         /\ n.externalId # o.externalId => o.externalId \notin n.fields
         /\ \A f \in n.fields : f \in (o.fields \cup Multiselected(o, d, side)) \ o.excludedFields \/ f = n.externalId
         /\ \A f \in (o.fields \ o.excludedFields) \cap DOMAIN d :
              To(side, o.name, f) = <<>> /\ f # o.externalId => f \in n.fields
         /\ n.externalId \in DOMAIN d /\ To(side, o.name, n.externalId) = <<>> =>
              n.externalId \in n.fields \/ (n.externalId = o.externalId /\ o.externalId \notin o.fields \ o.excludedFields)
<1> DEFINE selected == Multiselected(o, d, side)
           wide == [o EXCEPT !.fields = (@ \cup selected) \ o.excludedFields,
                             !.notUpdated = @ \ selected]
           named == WithDescribedId(wide, side)
           barred == script.excludedObjects \cup {"Group"}
           dropped == {f \in DOMAIN d : /\ To(side, o.name, f) # <<>> /\ d[f].ref \in barred
                                        /\ ~UserGroupLookup(d, side, o.name, f)}
           n == [named EXCEPT !.fields = (@ \cap DOMAIN d) \ dropped]
<1>1. FieldsAdapted(o, d, side) = n
  BY DEF FieldsAdapted
<1>2. \A f \in dropped : To(side, o.name, f) # <<>>
  OBVIOUS
<1> HIDE DEF selected, dropped
<1>3. /\ IsObject(wide) /\ wide.fields = (o.fields \cup selected) \ o.excludedFields
      /\ wide.name = o.name /\ wide.all = o.all /\ wide.excluded = o.excluded /\ wide.via = o.via
      /\ wide.excludedFields = o.excludedFields /\ wide.externalId = o.externalId
      /\ wide.defaultId = o.defaultId /\ wide.operation = o.operation /\ wide.fromSource = o.fromSource
  BY DEF IsObject, ObjectFields
<1> HIDE DEF wide
<1>4. /\ IsObject(named) /\ named.name = o.name /\ named.all = o.all /\ named.excluded = o.excluded
      /\ named.excludedFields = o.excludedFields /\ named.via = o.via
      /\ \/ named.externalId = o.externalId /\ named.fields = wide.fields
         \/ /\ o.defaultId /\ o.operation # "Insert" /\ ~o.fromSource
            /\ named.externalId = Org[side][o.name].nameField /\ named.externalId # o.externalId
            /\ named.fields = (wide.fields \ {o.externalId}) \cup {named.externalId}
  BY <1>3 DEF WithDescribedId, IsObject, ObjectFields
<1> HIDE DEF named
<1>5. /\ IsObject(n) /\ n.name = o.name /\ n.all = o.all /\ n.excluded = o.excluded
      /\ n.excludedFields = o.excludedFields /\ n.via = o.via /\ n.externalId = named.externalId
      /\ n.fields = (named.fields \cap DOMAIN d) \ dropped
  BY <1>4 DEF IsObject, ObjectFields
<1> HIDE DEF n
<1>6. \A f \in n.fields : f \in (o.fields \cup selected) \ o.excludedFields \/ f = n.externalId
  BY <1>3, <1>4, <1>5
<1>7. \A f \in (o.fields \ o.excludedFields) \cap DOMAIN d :
        To(side, o.name, f) = <<>> /\ f # o.externalId => f \in n.fields
  BY <1>2, <1>3, <1>4, <1>5
<1>8. n.externalId \in DOMAIN d /\ To(side, o.name, n.externalId) = <<>> =>
        n.externalId \in n.fields \/ (n.externalId = o.externalId /\ o.externalId \notin o.fields \ o.excludedFields)
  BY <1>2, <1>3, <1>4, <1>5
<1>9. QED
  BY <1>1, <1>4, <1>5, <1>6, <1>7, <1>8 DEF selected

\* So the query of a set up object fits the orgs.
LEMMA QueryIsDescribed ==
  ASSUME script \in Scripts, NEW o, IsObject(o), AsSetUp(o), \A side \in OrgSides : o.name \in DOMAIN Org[side],
         NEW d, DOMAIN d = FieldsOf(ReadSide, o.name),
         \A side \in OrgSides : HasKey(FieldsAdapted(o, d, ReadSide), side)
  PROVE  LET n == MissingRemoved(o, FieldsAdapted(o, d, ReadSide), OrgSides) IN
         /\ IsObject(n) /\ n.name = o.name /\ n.all = o.all /\ n.excludedFields = o.excludedFields
         /\ o.excluded => n.excluded
         /\ AsDescribed(n, ReadSide, OrgSides)
         /\ Rejoined(o) => Rejoined(n)
         /\ ~o.all => n.fields \subseteq o.fields \cup {Org[ReadSide][o.name].nameField}
<1> DEFINE a == FieldsAdapted(o, d, ReadSide)
           absent == UNION {MissingFields(a, side) : side \in OrgSides}
           left == [a EXCEPT !.fields = @ \ absent]
           n == MissingRemoved(o, a, OrgSides)
<1>1. ReadSide \in OrgSides /\ OrgSides \subseteq Sides
  BY OrgsOfScript
<1>2. /\ IsObject(a) /\ a.name = o.name /\ a.all = o.all /\ a.excluded = o.excluded
      /\ a.excludedFields = o.excludedFields /\ a.via = o.via
      /\ \/ a.externalId = o.externalId
         \/ /\ o.defaultId /\ o.operation # "Insert" /\ ~o.fromSource
            /\ a.externalId = Org[ReadSide][o.name].nameField
      /\ a.fields \subseteq DOMAIN d
      /\ a.externalId # o.externalId => o.externalId \notin a.fields
      /\ \A f \in a.fields : f \in (o.fields \cup Multiselected(o, d, ReadSide)) \ o.excludedFields \/ f = a.externalId
      /\ \A f \in (o.fields \ o.excludedFields) \cap DOMAIN d :
           To(ReadSide, o.name, f) = <<>> /\ f # o.externalId => f \in a.fields
      /\ a.externalId \in DOMAIN d /\ To(ReadSide, o.name, a.externalId) = <<>> =>
           a.externalId \in a.fields \/ (a.externalId = o.externalId /\ o.externalId \notin o.fields \ o.excludedFields)
  BY FieldsAreAdapted, Zenon
<1>3. \A side \in OrgSides : a.externalId \in FieldsOf(side, o.name)
  BY <1>2 DEF HasKey
<1> HIDE DEF a
<1>4. \A f : f \in absent <=> \E side \in OrgSides : f \in (a.asked \cup a.fields) \ FieldsOf(side, o.name)
  BY <1>2 DEF MissingFields
<1> HIDE DEF absent
<1>5. /\ IsObject(n) /\ n.name = o.name /\ n.all = o.all /\ n.excludedFields = o.excludedFields
      /\ o.excluded => n.excluded
      /\ n.externalId = a.externalId /\ n.via = a.via /\ n.fields = a.fields \ absent
  BY <1>2 DEF MissingRemoved, IsObject, ObjectFields, absent
<1> HIDE DEF n
<1>6. \A side \in OrgSides : n.fields \cup {n.externalId} \subseteq FieldsOf(side, n.name)
  BY <1>3, <1>4, <1>5
<1>7. \A f \in a.fields : (\A side \in OrgSides : f \in FieldsOf(side, o.name)) => f \in n.fields
  BY <1>4, <1>5
<1>8. "Id" \in n.fields \cup n.excludedFields
  <2>1. /\ \A side \in OrgSides : "Id" \in FieldsOf(side, o.name)
        /\ "Id" \in DOMAIN d /\ To(ReadSide, o.name, "Id") = <<>>
    BY <1>1, IdIsNoLookup
  <2>2. "Id" \in o.fields
    BY DEF AsSetUp
  <2>3. "Id" \in a.fields \cup o.excludedFields
    <3>1. CASE o.externalId # "Id"
      BY <1>2, <2>1, <2>2, <3>1
    <3>2. CASE o.externalId = "Id"
      <4>1. a.externalId = "Id"
        BY <1>2, <3>2 DEF AsSetUp
      <4>2. QED
        BY <1>2, <2>1, <2>2, <3>2, <4>1
    <3>3. QED
      BY <3>1, <3>2
  <2>4. QED
    BY <1>5, <1>7, <2>1, <2>3
<1>9. n.externalId \in n.fields \cup n.excludedFields \/ To(ReadSide, n.name, n.externalId) # <<>>
  <2>1. a.externalId \in DOMAIN d /\ o.externalId \in o.fields
    BY <1>1, <1>3 DEF AsSetUp
  <2>2. a.externalId \in a.fields \cup o.excludedFields \/ To(ReadSide, o.name, a.externalId) # <<>>
    BY <1>2, <2>1
  <2>3. QED
    BY <1>3, <1>5, <1>7, <2>2
<1>10. n.fields \cap n.excludedFields \subseteq {n.externalId}
  BY <1>2, <1>5
<1>11. n.via = {}
  BY <1>2, <1>5 DEF AsSetUp
<1>12. ~o.all => n.fields \subseteq o.fields \cup {a.externalId}
  BY <1>2, <1>5 DEF Multiselected
<1>13. Rejoined(o) => Rejoined(n)
  BY <1>2, <1>5, <1>12 DEF Rejoined
<1>14. ~o.all => n.fields \subseteq o.fields \cup {Org[ReadSide][o.name].nameField}
  BY <1>2, <1>12 DEF AsSetUp
<1>15. AsDescribed(n, ReadSide, OrgSides)
  BY <1>6, <1>8, <1>9, <1>10, <1>11 DEF AsDescribed
<1>16. QED
  BY <1>5, <1>13, <1>14, <1>15 DEF n, a

-----------------------------------------------------------------------------
(* One object is described further.                                        *)

\* What a describe makes of the object o.
IsDescribedAs(o, n, ds) ==
  /\ n.name = o.name /\ n.stage \in {"target", "polymorphic", "done"} /\ (o.excluded => n.excluded)
  /\ QueryOK(n, Barred(set, o.name), ReadSide, OrgSides) /\ IsKnown(n, ds, OrgSides)
  /\ LateDescribe => IsNewcomer(n, ReadSide)
  /\ o.stage = "polymorphic" => n.fields = o.fields /\ n.via = o.via /\ n.excluded = o.excluded
OneDescribed(i) ==
  LET o == objects[i] IN
  /\ phase = "describe" /\ o.stage \in {"source", "target", "polymorphic"}
  /\ UNCHANGED <<script, set, outcomes, resume, round>>
  /\ AreDescribes(describes', LastLinked) /\ Grown(describes, describes', o.name)
  /\ \/ phase' = phase /\ \E n : At(i, n) /\ IsDescribedAs(o, n, describes')
     \/ phase' = "failed" /\ objects' = objects

\* What is known of an object that is described.
LEMMA ObjectShape ==
  ASSUME SetOK, ObjectsOK, phase # "load", DescribesOK, QueriesOK, NEW i \in DOMAIN objects
  PROVE  LET o == objects[i] IN
         /\ IsObject(o) /\ StageOK(o, script) /\ script \in Scripts
         /\ IsKnown(o, describes, OrgSides)
         /\ QueryOK(o, Barred(set, o.name), ReadSide, OrgSides)
BY DEF SetOK, ObjectsOK, ObjectOK, DescribesOK, QueriesOK

\* The source describes an object.
LEMMA SourceDescribes ==
  ASSUME SetOK, ObjectsOK, DescribesOK, QueriesOK, NewcomersOK, NEW i \in DOMAIN objects, DescribeSource(i)
  PROVE  OneDescribed(i)
<1> DEFINE o == objects[i]
           next == [o EXCEPT !.stage = "target"]
<1>1. phase = "describe" /\ o.stage = "source" /\ phase' = phase /\ UNCHANGED <<script, set, outcomes, resume, round>>
  BY DEF DescribeSource, UnchangedRun
<1>2. /\ IsObject(o) /\ script \in Scripts /\ IsKnown(o, describes, OrgSides)
      /\ QueryOK(o, Barred(set, o.name), ReadSide, OrgSides)
  BY <1>1, ObjectShape
<1>3. AreDescribes(describes, LastLinked) /\ Grown(describes, describes, o.name)
  BY DEF DescribesOK, Grown
<1>4. LateDescribe => IsNewcomer(o, ReadSide)
  BY <1>1 DEF NewcomersOK
<1>5. ASSUME NEW n \in {next, [next EXCEPT !.missing = TRUE]}, NEW ds,
             ~n.missing /\ "source" \in OrgSides => o.name \in DOMAIN ds["source"]
      PROVE  IsDescribedAs(o, n, ds)
  <2>1. /\ n.name = o.name /\ n.stage = "target" /\ n.excluded = o.excluded /\ n.fields = o.fields /\ n.via = o.via
        /\ n.excludedFields = o.excludedFields /\ n.externalId = o.externalId /\ n.all = o.all
        /\ n.defaultId = o.defaultId /\ n.operation = o.operation /\ n.fromSource = o.fromSource
    BY <1>2 DEF IsObject, ObjectFields
  <2> HIDE DEF next
  <2>2. QueryOK(n, Barred(set, o.name), ReadSide, OrgSides)
    BY <1>1, <1>2, <2>1 DEF QueryOK, FromEntry, Rejoined, AsSetUp, Described
  <2>3. IsKnown(n, ds, OrgSides)
    BY <1>5, <2>1 DEF IsKnown, Described
  <2>4. LateDescribe => IsNewcomer(n, ReadSide)
    BY <1>1, <1>4, <2>1 DEF IsNewcomer
  <2>5. QED
    BY <1>1, <2>1, <2>2, <2>3, <2>4 DEF IsDescribedAs
<1>6. CASE IsFile("source") /\ At(i, next) /\ describes' = describes
  <2>1. "source" \notin OrgSides
    BY <1>6 DEF OrgSides
  <2>2. IsDescribedAs(o, next, describes')
    BY <1>5, <2>1
  <2>3. QED
    BY <1>1, <1>3, <1>6, <2>2 DEF OneDescribed
<1>7. CASE Found("source", o.name) /\ At(i, next) /\ describes' = Loaded("source", o.name)
  <2>1. /\ AreDescribes(describes', LastLinked) /\ Grown(describes, describes', o.name)
        /\ o.name \in DOMAIN describes'["source"]
    BY <1>3, <1>7, LoadedDescribe DEF Found, Sides
  <2>2. IsDescribedAs(o, next, describes')
    BY <1>5, <2>1
  <2>3. QED
    BY <1>1, <1>7, <2>1, <2>2 DEF OneDescribed
<1>8. CASE At(i, [next EXCEPT !.missing = TRUE]) /\ describes' = describes
  <2>1. [next EXCEPT !.missing = TRUE].missing
    BY <1>2 DEF IsObject, ObjectFields
  <2>2. IsDescribedAs(o, [next EXCEPT !.missing = TRUE], describes')
    BY <1>5, <2>1
  <2>3. QED
    BY <1>1, <1>3, <1>8, <2>2 DEF OneDescribed
<1>9. QED
  BY <1>6, <1>7, <1>8 DEF DescribeSource

\* The target describes an object, and what both orgs have told is applied.
LEMMA DescribesApplied ==
  ASSUME SetOK, ObjectsOK, DescribesOK, QueriesOK, NewcomersOK, NEW i \in DOMAIN objects,
         objects[i].stage = "target", ~objects[i].missing, phase = "describe",
         UNCHANGED <<script, set, outcomes, resume, round>>,
         NEW ds, AreDescribes(ds, LastLinked), Grown(describes, ds, objects[i].name),
         "target" \in OrgSides => objects[i].name \in DOMAIN ds["target"],
         Applied(i, objects[i], ds)
  PROVE  OneDescribed(i)
<1> DEFINE o == objects[i]
           declared == [side \in Sides |-> IF side \notin OrgSides THEN ds[side]
                                           ELSE [ds[side] EXCEPT ![o.name] = Declared(@, o, side)]]
           d == declared[ReadSide][o.name]
           adapted == FieldsAdapted(o, d, ReadSide)
           left == MissingRemoved(o, adapted, OrgSides)
           n == [left EXCEPT !.stage = "polymorphic"]
<1>1. /\ IsObject(o) /\ script \in Scripts /\ IsKnown(o, describes, OrgSides)
      /\ QueryOK(o, Barred(set, o.name), ReadSide, OrgSides)
  BY ObjectShape
<1>2. ReadSide \in OrgSides /\ OrgSides \subseteq Sides
  BY <1>1, OrgsOfScript
<1>3. \A side \in OrgSides : o.name \in DOMAIN ds[side]
  <2>1. "source" \in OrgSides => o.name \in DOMAIN ds["source"]
    BY <1>1 DEF IsKnown, Grown, Sides
  <2>2. QED
    BY <1>2, <2>1 DEF Sides
<1>4. \A side \in Sides : DOMAIN declared[side] = DOMAIN ds[side]
  OBVIOUS
<1>5. AreDescribes(declared, LastLinked) /\ Grown(ds, declared, o.name)
  <2>1. DOMAIN declared = Sides
    OBVIOUS
  <2>2. ASSUME NEW side \in Sides
        PROVE  \/ declared[side] = ds[side]
               \/ \E e : /\ declared[side] = [ds[side] EXCEPT ![o.name] = e]
                         /\ o.name \in DOMAIN ds[side] => IsDescribe(e, side, o.name, LastLinked)
    <3> DEFINE e == Declared(ds[side][o.name], o, side)
    <3>1. o.name \in DOMAIN ds[side] => IsDescribe(e, side, o.name, LastLinked)
      BY CorrectedDescribe DEF AreDescribes
    <3>2. declared[side] = ds[side] \/ declared[side] = [ds[side] EXCEPT ![o.name] = e]
      OBVIOUS
    <3> HIDE DEF e, declared
    <3>3. QED
      BY <3>1, <3>2
  <2> HIDE DEF declared
  <2>3. QED
    BY <2>1, <2>2, ReplacedDescribe, Zenon
<1>6. Grown(describes, declared, o.name)
  BY <1>4, <1>5 DEF Grown
<1>7. /\ describes' = declared
      /\ IF \A side \in OrgSides : HasKey(adapted, side)
           THEN At(i, n) /\ phase' = phase ELSE phase' = "failed" /\ objects' = objects
  BY DEF Applied
<1>8. \A side \in OrgSides : o.name \in DOMAIN declared[side] /\ o.name \in DOMAIN Org[side]
  BY <1>2, <1>3, <1>4, <1>5 DEF AreDescribes, IsDescribe
<1>9. DOMAIN d = FieldsOf(ReadSide, o.name)
  BY <1>2, <1>5, <1>8 DEF AreDescribes, IsDescribe
<1> HIDE DEF declared, d
<1>10. ASSUME \A side \in OrgSides : HasKey(adapted, side) PROVE IsDescribedAs(o, n, declared)
  <2>1. LateDescribe => IsNewcomer(o, ReadSide)
    BY DEF NewcomersOK
  <2>2. ~o.excluded => AsSetUp(o) /\ FromEntry(o, Barred(set, o.name))
    BY <1>1 DEF QueryOK
  <2>3. IsObject(left) /\ left.name = o.name /\ (o.excluded => left.excluded)
    <3>1. Lowers(o, left)
      BY <1>1, AdaptedFieldsLower
    <3>2. QED
      BY <3>1 DEF Lowers
  <2>4. ~o.excluded =>
          /\ left.all = o.all /\ left.excludedFields = o.excludedFields
          /\ AsDescribed(left, ReadSide, OrgSides)
          /\ Rejoined(o) => Rejoined(left)
          /\ ~o.all => left.fields \subseteq o.fields \cup {Org[ReadSide][o.name].nameField}
    BY <1>1, <1>8, <1>9, <1>10, <2>2, QueryIsDescribed
  <2> HIDE DEF left
  <2>5. /\ n.name = left.name /\ n.stage = "polymorphic" /\ n.excluded = left.excluded /\ n.fields = left.fields
        /\ n.via = left.via /\ n.excludedFields = left.excludedFields /\ n.externalId = left.externalId
        /\ n.all = left.all
    BY <2>3 DEF IsObject, ObjectFields
  <2> HIDE DEF n
  <2>6. QueryOK(n, Barred(set, o.name), ReadSide, OrgSides)
    <3> SUFFICES ASSUME ~n.excluded PROVE FromEntry(n, Barred(set, o.name)) /\ AsDescribed(n, ReadSide, OrgSides)
      BY <2>5 DEF QueryOK
    <3>1. AsDescribed(n, ReadSide, OrgSides)
      BY <2>3, <2>4, <2>5 DEF AsDescribed
    <3>2. Rejoined(o) => Rejoined(n)
      BY <2>3, <2>4, <2>5 DEF Rejoined
    <3>3. QED
      BY <2>2, <2>3, <2>4, <2>5, <3>1, <3>2 DEF FromEntry
  <2>7. IsKnown(n, declared, OrgSides)
    BY <1>8, <2>3, <2>5 DEF IsKnown
  <2>8. LateDescribe => IsNewcomer(n, ReadSide)
    BY <2>1, <2>3, <2>4, <2>5 DEF IsNewcomer
  <2>9. QED
    BY <2>3, <2>5, <2>6, <2>7, <2>8 DEF IsDescribedAs
<1> HIDE DEF n, adapted
<1>11. QED
  BY <1>5, <1>6, <1>7, <1>10 DEF OneDescribed

LEMMA TargetDescribes ==
  ASSUME SetOK, ObjectsOK, DescribesOK, QueriesOK, NewcomersOK, NEW i \in DOMAIN objects, DescribeTarget(i)
  PROVE  OneDescribed(i)
<1> DEFINE o == objects[i]
<1>1. phase = "describe" /\ o.stage = "target" /\ UNCHANGED <<script, set, outcomes, resume, round>>
  BY DEF DescribeTarget, UnchangedRun
<1>2. /\ IsObject(o) /\ script \in Scripts /\ IsKnown(o, describes, OrgSides)
      /\ AreDescribes(describes, LastLinked) /\ Grown(describes, describes, o.name)
  BY <1>1, ObjectShape DEF DescribesOK, Grown
<1>3. ASSUME NEW ds, AreDescribes(ds, LastLinked), Grown(describes, ds, o.name),
             At(i, Excluded(o)), describes' = ds, phase' = phase
      PROVE  OneDescribed(i)
  <2>1. /\ Excluded(o).name = o.name /\ Excluded(o).stage = "done" /\ Excluded(o).excluded /\ Excluded(o).missing
        /\ Excluded(o).all = o.all /\ Excluded(o).fields = o.fields
    BY <1>2 DEF Excluded, IsObject, ObjectFields
  <2>2. LateDescribe => IsNewcomer(o, ReadSide)
    BY <1>1 DEF NewcomersOK
  <2>3. IsDescribedAs(o, Excluded(o), ds)
    BY <1>1, <2>1, <2>2 DEF IsDescribedAs, QueryOK, IsKnown, IsNewcomer
  <2>4. QED
    BY <1>1, <1>3, <2>3 DEF OneDescribed
<1>4. CASE At(i, Excluded(o)) /\ describes' = describes /\ phase' = phase
  BY <1>2, <1>3, <1>4
<1>5. CASE /\ IF IsFile("target") THEN UNCHANGED faults ELSE Found("target", o.name)
           /\ LET ds == IF IsFile("target") THEN describes ELSE Loaded("target", o.name) IN
              IF o.missing THEN At(i, Excluded(o)) /\ describes' = ds /\ UNCHANGED phase
                           ELSE Applied(i, o, ds)
  <2> DEFINE ds == IF IsFile("target") THEN describes ELSE Loaded("target", o.name)
  <2>1. /\ AreDescribes(ds, LastLinked) /\ Grown(describes, ds, o.name)
        /\ "target" \in OrgSides => o.name \in DOMAIN ds["target"]
    <3>1. CASE IsFile("target")
      BY <1>2, <3>1 DEF OrgSides
    <3>2. CASE ~IsFile("target")
      BY <1>2, <1>5, <3>2, LoadedDescribe DEF Found, Sides
    <3>3. QED
      BY <3>1, <3>2
  <2>2. IF o.missing THEN At(i, Excluded(o)) /\ describes' = ds /\ phase' = phase ELSE Applied(i, o, ds)
    BY <1>5
  <2> HIDE DEF ds
  <2>3. QED
    BY <1>1, <1>3, <2>1, <2>2, DescribesApplied
<1>6. QED
  BY <1>4, <1>5 DEF DescribeTarget

\* The org tells which fields are polymorphic.
LEMMA PolymorphicDescribes ==
  ASSUME SetOK, ObjectsOK, DescribesOK, QueriesOK, NewcomersOK, NEW i \in DOMAIN objects, FixPolymorphic(i)
  PROVE  OneDescribed(i)
<1> DEFINE o == objects[i]
           After(definitions) ==
             [side \in Sides |->
                IF side \notin OrgSides \/ definitions = {} THEN describes[side]
                ELSE [describes[side] EXCEPT ![o.name] = Corrected(@, side, o.name, definitions)]]
<1>1. phase = "describe" /\ o.stage = "polymorphic" /\ phase' = phase /\ UNCHANGED <<script, set, outcomes, resume, round>>
  <2>1. UnchangedRun /\ UNCHANGED <<phase, resume, round>> /\ phase = "describe" /\ o.stage = "polymorphic"
    BY ZenonT(60) DEF FixPolymorphic
  <2>2. QED
    BY <2>1 DEF UnchangedRun
<1>2. \E definitions : describes' = After(definitions)
  BY DEF FixPolymorphic
<1>3. PICK lookups : At(i, [o EXCEPT !.stage = "done", !.polymorphic = lookups])
  BY DEF FixPolymorphic
<1>4. /\ IsObject(o) /\ script \in Scripts /\ IsKnown(o, describes, OrgSides)
      /\ QueryOK(o, Barred(set, o.name), ReadSide, OrgSides)
  BY <1>1, ObjectShape
<1>5. PICK definitions : describes' = After(definitions)
  BY <1>2
<1>6. AreDescribes(describes', LastLinked) /\ Grown(describes, describes', o.name)
  <2>1. DOMAIN describes' = Sides
    BY <1>5
  <2>2. ASSUME NEW side \in Sides
        PROVE  \/ describes'[side] = describes[side]
               \/ \E e : /\ describes'[side] = [describes[side] EXCEPT ![o.name] = e]
                         /\ o.name \in DOMAIN describes[side] => IsDescribe(e, side, o.name, LastLinked)
    <3> DEFINE e == Corrected(describes[side][o.name], side, o.name, definitions)
    <3>1. o.name \in DOMAIN describes[side] => IsDescribe(e, side, o.name, LastLinked)
      BY CorrectedDescribe DEF AreDescribes, DescribesOK
    <3>2. describes'[side] = describes[side] \/ describes'[side] = [describes[side] EXCEPT ![o.name] = e]
      BY <1>5
    <3> HIDE DEF e
    <3>3. QED
      BY <3>1, <3>2
  <2>3. QED
    BY <2>1, <2>2, ReplacedDescribe, Zenon DEF DescribesOK
<1> DEFINE n == [o EXCEPT !.stage = "done", !.polymorphic = lookups]
<1>7. /\ n.name = o.name /\ n.stage = "done" /\ n.excluded = o.excluded /\ n.fields = o.fields /\ n.via = o.via
      /\ n.excludedFields = o.excludedFields /\ n.externalId = o.externalId /\ n.all = o.all /\ n.missing = o.missing
  BY <1>4 DEF IsObject, ObjectFields
<1> HIDE DEF n
<1>8. QueryOK(n, Barred(set, o.name), ReadSide, OrgSides)
  BY <1>1, <1>4, <1>7 DEF QueryOK, FromEntry, Rejoined, AsDescribed, Described
<1>9. IsKnown(n, describes', OrgSides)
  <2>1. IsKnown(n, describes, OrgSides)
    BY <1>1, <1>4, <1>7 DEF IsKnown, Described
  <2>2. QED
    BY <1>4, <1>6, <2>1, OrgsOfScript, StillKnown
<1>10. LateDescribe => IsNewcomer(n, ReadSide)
  <2>1. LateDescribe => IsNewcomer(o, ReadSide)
    BY <1>1 DEF NewcomersOK
  <2>2. QED
    BY <1>7, <2>1 DEF IsNewcomer
<1>11. IsDescribedAs(o, n, describes')
  BY <1>7, <1>8, <1>9, <1>10 DEF IsDescribedAs
<1>12. QED
  BY <1>1, <1>3, <1>6, <1>11 DEF OneDescribed, n

\* The script and the set stay, and what depends on them only.
LEMMA SidesStay ==
  ASSUME script' = script
  PROVE  /\ ReadSide' = ReadSide /\ OrgSides' = OrgSides
         /\ \A k, n : Barred(k, n)' = Barred(k, n)
BY DEF ReadSide, OrgSides, IsFile, Barred, EntriesFor

\* The lookups of a query.
LookupFields(o, read) ==
  IF IsDescribed(o) THEN {f \in o.fields \cap FieldsOf(read, o.name) : To(read, o.name, f) # <<>>} ELSE {}
LEMMA LookupsOfQuery ==
  /\ \A o : LookupsOf(o) = LookupFields(o, ReadSide)
  /\ script' = script => \A i : LookupsOf(objects[i])' = LookupFields(objects'[i], ReadSide)
<1>1. \A o : LookupsOf(o) = LookupFields(o, ReadSide)
  BY DEF LookupsOf, LookupFields, Lookup
<1>2. ASSUME script' = script PROVE \A i : LookupsOf(objects[i])' = LookupFields(objects'[i], ReadSide)
  BY <1>2, SidesStay DEF LookupsOf, LookupFields, Lookup, IsDescribed
<1>3. QED
  BY <1>1, <1>2

\* To show that the lookups are in order after a step.
LEMMA LookupsFollow ==
  ASSUME script' = script,
         \A i \in Active(objects') : \A f \in LookupFields(objects'[i], ReadSide) : \A n, d :
           n = objects'[i].name /\ d = describes'[ReadSide][n] => LookupOK(n, d, f)'
  PROVE  LookupsOK'
<1>1. SUFFICES ASSUME NEW i \in Active(objects'), NEW f \in LookupsOf(objects[i])'
               PROVE  LookupOK(objects[i].name, DescribeOf(objects[i]), f)'
  BY DEF LookupsOK, Active
<1>2. f \in LookupFields(objects'[i], ReadSide)
  BY LookupsOfQuery
<1>3. PICK n, d : n = objects'[i].name /\ d = describes'[ReadSide][n]
  OBVIOUS
<1>4. LookupOK(n, d, f)'
  BY <1>2, <1>3
<1>5. n = objects'[i].name /\ d = DescribeOf(objects[i])'
  BY <1>3, SidesStay DEF DescribeOf
<1>6. QED
  BY <1>4, <1>5 DEF LookupOK, IsCovered, OneTarget, IsLinked, Stays, HasTask

\* What objects do to a lookup that stays as it is.
LEMMA LookupStays ==
  ASSUME UNCHANGED <<script, set>>, NEW n, NEW d, NEW f
  PROVE  /\ AllNames \subseteq AllNames' /\ IsCovered(n, d, f) => IsCovered(n, d, f)'
         /\ ActiveNames' \subseteq ActiveNames \cup UserGroup /\ IsLinked(d, f) => IsLinked(d, f)'
         /\ /\ DoneNames \subseteq DoneNames' /\ LoneNames \subseteq LoneNames'
            /\ round' = round /\ HasTask(n, d, f)
            => HasTask(n, d, f)'
<1>1. OneTarget(n, d, f)' <=> OneTarget(n, d, f)
  BY SidesStay DEF OneTarget
<1>2. UserGroupLookup(d, ReadSide, n, f)' <=> UserGroupLookup(d, ReadSide, n, f)
  BY SidesStay DEF UserGroupLookup
<1>3. QED
  BY <1>1, <1>2 DEF IsCovered, IsLinked, HasTask

\* Describes are linked to no later set than before.
LEMMA LaterLinks ==
  ASSUME NEW ds, NEW a, NEW b, a \in Int, b \in Int, a <= b, AreDescribes(ds, a)
  PROVE  AreDescribes(ds, b)
BY DEF AreDescribes, IsDescribe

\* The tasks of earlier sets stay, and as long as no task is ready no key is needed.
LEMMA ValidStays == QueriesAreValid /\ UNCHANGED <<script, outcomes>> => QueriesAreValid'
BY DEF QueriesAreValid, Finished, EntriesFor, OrgSides, IsFile
LEMMA NothingReady == (\A i \in DOMAIN objects' : objects'[i].stage # "ready") => ParentsHaveKeys'
BY DEF ParentsHaveKeys, Active

\* The number of the set.
LEMMA SetNumber == SetOK => set \in Nat /\ set >= 1
BY ScriptShape DEF SetOK

\* A described object keeps the invariant.
LEMMA DescribedSound ==
  ASSUME SetOK, ObjectsOK, SoundInv, NEW i \in DOMAIN objects, OneDescribed(i)
  PROVE  SoundInv'
<1> DEFINE o == objects[i]
<1>1. /\ DescribesOK /\ QueriesOK /\ StagesOK /\ NewcomersOK /\ LookupsOK /\ QueriesAreValid
      /\ phase = "describe" /\ UNCHANGED <<script, set, outcomes, resume, round>> /\ script \in Scripts
      /\ AreDescribes(describes', LastLinked) /\ Grown(describes, describes', o.name)
      /\ o.stage \in {"source", "target", "polymorphic"}
  BY DEF SoundInv, OneDescribed, SetOK
<1>2. /\ ReadSide' = ReadSide /\ OrgSides' = OrgSides /\ \A k, n : Barred(k, n)' = Barred(k, n)
      /\ ReadSide \in OrgSides /\ OrgSides \subseteq Sides
  BY <1>1, SidesStay, OrgsOfScript
<1>3. QueriesAreValid'
  BY <1>1, ValidStays
<1>4. AreDescribes(describes', LastLinked')
  <2>1. set \in Nat /\ LastLinked \in {set - 1, set} /\ LastLinked' \in {set - 1, set} /\ (BeforeLink' => BeforeLink)
    BY <1>1, SetNumber DEF LastLinked, BeforeLink, OneDescribed
  <2>2. LastLinked \in Int /\ LastLinked' \in Int /\ LastLinked <= LastLinked'
    BY <1>1, <2>1 DEF LastLinked
  <2>3. QED
    BY <1>1, <2>2, LaterLinks
<1>5. \A n : IsKnown(n, describes, OrgSides) => IsKnown(n, describes', OrgSides)
  BY <1>1, <1>2, StillKnown
<1>6. CASE phase' = "failed" /\ objects' = objects
  <2>1. DescribesOK'
    BY <1>1, <1>2, <1>4, <1>5, <1>6 DEF DescribesOK
  <2>2. QueriesOK'
    BY <1>1, <1>2, <1>6 DEF QueriesOK
  <2>3. StagesOK' /\ ~LateDescribe' /\ ~AfterLink' /\ ~Settled' /\ \A j \in DOMAIN objects' : objects'[j].stage # "ready"
    BY <1>1, <1>6 DEF StagesOK, BeforeLink, LateDescribe, AfterLink, Settled
  <2>4. LookupsOK'
    BY <1>1, <1>6, <2>3, LookupsFollow DEF LookupOK
  <2>5. QED
    BY <1>3, <2>1, <2>2, <2>3, <2>4, NothingReady DEF SoundInv, NewcomersOK
<1>7. ASSUME phase' = phase, NEW n, At(i, n), IsDescribedAs(o, n, describes') PROVE SoundInv'
  <2>1. /\ DOMAIN objects' = DOMAIN objects /\ objects'[i] = n /\ \A j \in DOMAIN objects \ {i} : objects'[j] = objects[j]
    BY <1>7 DEF At
  <2>2. /\ n.name = o.name /\ n.stage \in {"target", "polymorphic", "done"} /\ (o.excluded => n.excluded)
        /\ QueryOK(n, Barred(set, o.name), ReadSide, OrgSides) /\ IsKnown(n, describes', OrgSides)
        /\ LateDescribe => IsNewcomer(n, ReadSide)
        /\ o.stage = "polymorphic" => n.fields = o.fields /\ n.via = o.via /\ n.excluded = o.excluded
    BY <1>7 DEF IsDescribedAs
  <2>3. DescribesOK'
    <3>1. \A j \in DOMAIN objects' : IsKnown(objects'[j], describes', OrgSides)
      BY <1>1, <1>5, <2>1, <2>2 DEF DescribesOK
    <3>2. QED
      BY <1>2, <1>4, <3>1 DEF DescribesOK
  <2>4. QueriesOK'
    <3>1. \A j \in DOMAIN objects' : QueryOK(objects'[j], Barred(set, objects'[j].name), ReadSide, OrgSides)
      BY <1>1, <2>1, <2>2 DEF QueriesOK
    <3>2. QED
      BY <1>1, <1>2, <3>1 DEF QueriesOK
  <2>5. \A j \in DOMAIN objects' : objects'[j].stage # "ready"
    BY <1>1, <2>1, <2>2 DEF StagesOK
  <2>6. StagesOK'
    BY <1>1, <1>7, <2>5 DEF StagesOK, BeforeLink
  <2>7. LateDescribe' <=> LateDescribe
    BY <1>1, <1>7 DEF LateDescribe
  <2>8. Active(objects') \subseteq Active(objects) /\ \A j \in Active(objects') : objects'[j].name = objects[j].name
    BY <2>1, <2>2 DEF Active
  <2>9. NewcomersOK'
    BY <1>1, <1>2, <2>1, <2>2, <2>7, <2>8 DEF NewcomersOK
  <2>10. LookupsOK'
    <3>1. SUFFICES ASSUME NEW k \in Active(objects'), NEW f \in LookupFields(objects'[k], ReadSide),
                          NEW m, NEW d, m = objects'[k].name, d = describes'[ReadSide][m]
                   PROVE  LookupOK(m, d, f)'
      BY <1>1, LookupsFollow
    <3>2. CASE ~LateDescribe
      BY <1>1, <1>7, <2>7, <3>2 DEF LookupOK, AfterLink, Settled, LateDescribe
    <3>3. CASE LateDescribe
      <4>1. IsDescribed(objects'[k]) /\ k \in DOMAIN objects
        BY <2>1 DEF LookupFields, Active
      <4>2. k # i
        <5> SUFFICES ASSUME k = i PROVE FALSE
          OBVIOUS
        <5>1. /\ n.name \in DOMAIN Org[ReadSide] /\ n.name \in UserGroup
              /\ n.fields \subseteq {"Id", "Name", Org[ReadSide][n.name].nameField}
          BY <1>1, <1>2, <2>1, <2>2, <3>3, <4>1 DEF IsDescribed, IsKnown, Described, AreDescribes, IsDescribe, IsNewcomer
        <5>2. f \in n.fields /\ f \in FieldsOf(ReadSide, n.name) /\ To(ReadSide, n.name, f) # <<>>
          BY <2>1, <4>1 DEF LookupFields
        <5>3. QED
          BY <1>2, <5>1, <5>2, OrgAssumption DEF IsOrg
      <4>3. objects'[k] = objects[k] /\ k \in Active(objects) /\ m # o.name
        BY <1>1, <2>1, <2>8, <3>1, <3>3, <4>1, <4>2 DEF NewcomersOK
      <4>4. m \in DOMAIN describes[ReadSide] /\ d = describes[ReadSide][m]
        BY <1>1, <1>2, <3>1, <4>1, <4>3 DEF DescribesOK, IsKnown, IsDescribed, Described, Grown
      <4>5. f \in LookupsOf(objects[k])
        BY <4>3, LookupsOfQuery
      <4>6. LookupOK(m, d, f)
        BY <1>1, <3>1, <4>3, <4>4, <4>5 DEF LookupsOK, DescribeOf
      <4>7. AllNames \subseteq AllNames' /\ ActiveNames' \subseteq ActiveNames /\ DoneNames \subseteq DoneNames'
        <5>1. \A j \in DOMAIN objects' : objects'[j].name = objects[j].name
          BY <2>1, <2>2
        <5>2. \A x : x \in AllNames <=> x \in script.excludedObjects \/ \E j \in DOMAIN objects : objects[j].name = x
          BY DEF AllNames, ExcludedNames, ActiveNames, Active
        <5>3. \A x : x \in AllNames' <=> x \in script.excludedObjects \/ \E j \in DOMAIN objects' : objects'[j].name = x
          BY <1>1 DEF AllNames, ExcludedNames, ActiveNames, Active
        <5>4. ActiveNames' \subseteq ActiveNames
          BY <2>8 DEF ActiveNames
        <5>5. \A j \in DOMAIN objects : objects[j].stage = "done" => j # i
          BY <1>1
        <5>6. DoneNames \subseteq DoneNames'
          BY <2>1, <5>5 DEF DoneNames, Active
        <5>7. QED
          BY <2>1, <5>1, <5>2, <5>3, <5>4, <5>6
      <4>8. LoneNames \subseteq LoneNames'
        <5>1. o.excluded => o.stage = "polymorphic"
          BY <1>1, <3>3 DEF NewcomersOK, IsNewcomer
        <5>2. \A j \in DOMAIN objects \ Active(objects) : OnlyId(objects[j]) =>
                j \in DOMAIN objects' \ Active(objects') /\ OnlyId(objects'[j]) /\ objects'[j].name = objects[j].name
          BY <2>1, <2>2, <5>1 DEF Active, OnlyId
        <5>3. QED
          BY <5>2 DEF LoneNames
      <4>9. phase # "exclude" /\ phase # "link" /\ (AfterLink' => AfterLink) /\ (Settled' => Settled)
        BY <1>1, <1>7, <3>3 DEF AfterLink, Settled, LateDescribe
      <4>10. /\ IsCovered(m, d, f) => IsCovered(m, d, f)'
             /\ IsLinked(d, f) => IsLinked(d, f)'
             /\ HasTask(m, d, f) => HasTask(m, d, f)'
        BY <1>1, <4>7, <4>8, LookupStays
      <4>11. QED
        BY <1>1, <1>7, <4>6, <4>9, <4>10 DEF LookupOK
    <3>4. QED
      BY <3>2, <3>3
  <2>11. QED
    BY <1>3, <2>3, <2>4, <2>5, <2>6, <2>9, <2>10, NothingReady DEF SoundInv
<1>8. QED
  BY <1>6, <1>7 DEF OneDescribed

-----------------------------------------------------------------------------
(* Objects come.                                                           *)

\* A set is loaded.
LEMMA LoadedSound ==
  ASSUME SetOK, SoundInv, LoadSet
  PROVE  SoundInv'
<1>1. PICK loaded :
        /\ IsSeq(loaded) /\ objects' = [i \in DOMAIN loaded |-> SetUp(loaded[i])]
        /\ \A i \in DOMAIN loaded :
             \/ \E e \in Entries : IsEntry(e) /\ e.hasQuery /\ loaded[i] = Built(e)
             \/ \E t \in UserGroup : loaded[i] = AutoObject(t)
        /\ \A e \in Entries : e.hasQuery => \E i \in DOMAIN loaded : loaded[i] = Built(e)
  BY ObjectsAreLoaded
<1>2. /\ phase = "load" /\ phase' = "describe" /\ resume' = "parents" /\ round' = 1
      /\ UNCHANGED <<script, set, describes, outcomes>>
  BY DEF LoadSet
<1>3. ASSUME NEW i \in DOMAIN objects'
      PROVE  /\ QueryOK(objects'[i], Barred(set, objects'[i].name), ReadSide, OrgSides)
             /\ objects'[i].stage \in {"none", "source"}
  <2>1. i \in DOMAIN loaded /\ objects'[i] = SetUp(loaded[i])
    BY <1>1
  <2>2. CASE \E e \in Entries : IsEntry(e) /\ e.hasQuery /\ loaded[i] = Built(e)
    BY <2>1, <2>2, EntryIsQueried, EntriesAreSetUp
  <2>3. CASE \E t \in UserGroup : loaded[i] = AutoObject(t)
    <3>1. PICK t \in UserGroup : loaded[i] = AutoObject(t)
      BY <2>3
    <3>2. QED
      BY <2>1, <3>1, AddedIsQueried
  <2>4. QED
    BY <1>1, <2>1, <2>2, <2>3
<1>4. /\ ReadSide' = ReadSide /\ OrgSides' = OrgSides /\ \A k, n : Barred(k, n)' = Barred(k, n)
  BY <1>2, SidesStay
<1>5. DescribesOK'
  <2>1. LastLinked' = LastLinked
    BY <1>2 DEF LastLinked, BeforeLink
  <2>2. \A i \in DOMAIN objects' : IsKnown(objects'[i], describes', OrgSides)
    BY <1>3 DEF IsKnown, Described
  <2>3. QED
    BY <1>2, <1>4, <2>1, <2>2 DEF SoundInv, DescribesOK
<1>6. QueriesOK'
  BY <1>2, <1>3, <1>4 DEF QueriesOK
<1>7. \A i \in DOMAIN objects' : objects'[i].stage # "ready"
  BY <1>3
<1>8. StagesOK' /\ NewcomersOK'
  BY <1>2, <1>7 DEF StagesOK, NewcomersOK, LateDescribe
<1>9. LookupsOK'
  BY <1>2, LookupsFollow DEF LookupOK, AfterLink, Settled, LateDescribe
<1>10. QueriesAreValid'
  BY <1>2, ValidStays DEF SoundInv
<1>11. QED
  BY <1>5, <1>6, <1>7, <1>8, <1>9, <1>10, NothingReady DEF SoundInv

\* Objects join the set: parents, of which no entry speaks, or late, User and Group.
LEMMA JoinedSound ==
  ASSUME SetOK, ObjectsOK, SoundInv, UNCHANGED <<script, set, outcomes, describes, round>>,
         NEW names, IsSeq(names), NEW then, Join([k \in DOMAIN names |-> AutoObject(names[k])], then),
         \/ /\ phase = "parents" /\ then = "parents"
            /\ \A k \in DOMAIN names : \A e \in Entries : e.hasQuery => e.name # names[k]
         \/ /\ phase = "pair" /\ then = IF round = 1 THEN "remove" ELSE "tasks"
            /\ \A k \in DOMAIN names : names[k] \in UserGroup \ ActiveNames
            /\ \A k, l \in DOMAIN names : names[k] = names[l] => k = l
  PROVE  SoundInv'
<1> DEFINE added == [k \in DOMAIN names |-> SetUp(AutoObject(names[k]))]
           m == Len(objects)
<1>1. objects' = objects \o added /\ phase' = "describe" /\ resume' = then
  BY DEF Join
<1>2. IsSeq(objects) /\ IsSeq(added) /\ DOMAIN added = DOMAIN names
  BY SeqShape, FunctionIsSeq DEF ObjectsOK
<1>3. \A k \in DOMAIN names :
        /\ QueryOK(added[k], Barred(set, names[k]), ReadSide, OrgSides)
        /\ added[k].name = names[k] /\ added[k].stage = "source"
        /\ names[k] \in UserGroup => IsNewcomer(added[k], ReadSide)
  BY AddedIsQueried
<1> HIDE DEF added
<1>4. /\ \A i \in DOMAIN objects : i \in DOMAIN objects' /\ objects'[i] = objects[i]
      /\ \A i \in DOMAIN objects' : \/ i \in DOMAIN objects /\ objects'[i] = objects[i]
                                    \/ i - m \in DOMAIN names /\ objects'[i] = added[i - m]
  BY <1>1, <1>2, JoinedSeq
<1>5. m \in Nat /\ DOMAIN objects' \subseteq Nat
  <2>1. IsSeq(objects')
    BY <1>1, <1>2, JoinedSeq
  <2>2. QED
    BY <1>2, <2>1, SeqShape
<1> HIDE DEF m
<1>6. /\ DescribesOK /\ QueriesOK /\ StagesOK /\ LookupsOK /\ QueriesAreValid
      /\ ReadSide' = ReadSide /\ OrgSides' = OrgSides /\ \A k, n : Barred(k, n)' = Barred(k, n)
  BY SidesStay DEF SoundInv
<1>7. \A i \in DOMAIN objects : objects[i].stage \in {"none", "done"}
  BY <1>6 DEF StagesOK
<1>8. DescribesOK'
  <2>1. LastLinked' = LastLinked
    BY <1>1 DEF LastLinked, BeforeLink
  <2>2. \A i \in DOMAIN objects' : IsKnown(objects'[i], describes, OrgSides)
    BY <1>3, <1>4, <1>6 DEF DescribesOK, IsKnown, Described
  <2>3. QED
    BY <1>6, <2>1, <2>2 DEF DescribesOK
<1>9. QueriesOK'
  <2>1. \A i \in DOMAIN objects' : QueryOK(objects'[i], Barred(set, objects'[i].name), ReadSide, OrgSides)
    BY <1>3, <1>4, <1>6 DEF QueriesOK
  <2>2. QED
    BY <1>6, <2>1 DEF QueriesOK
<1>10. \A i \in DOMAIN objects' : objects'[i].stage # "ready"
  BY <1>3, <1>4, <1>7
<1>11. StagesOK'
  BY <1>1, <1>6, <1>10 DEF StagesOK, BeforeLink
<1>12. QueriesAreValid'
  BY <1>6, ValidStays
<1>13. CASE then = "parents"
  <2>1. NewcomersOK' /\ ~AfterLink' /\ ~Settled'
    BY <1>1, <1>13 DEF NewcomersOK, LateDescribe, AfterLink, Settled
  <2>2. LookupsOK'
    BY <1>1, <2>1, LookupsFollow DEF LookupOK
  <2>3. QED
    BY <1>8, <1>9, <1>10, <1>11, <1>12, <2>1, <2>2, NothingReady DEF SoundInv
<1>14. CASE then # "parents"
  <2>1. /\ phase = "pair" /\ then = IF round = 1 THEN "remove" ELSE "tasks"
        /\ \A k \in DOMAIN names : names[k] \in UserGroup \ ActiveNames
        /\ \A k, l \in DOMAIN names : names[k] = names[l] => k = l
    BY <1>14
  <2>2. NewcomersOK'
    <3>1. ASSUME NEW i \in DOMAIN objects', objects'[i].stage \notin {"none", "done"}
          PROVE  /\ IsNewcomer(objects'[i], ReadSide)
                 /\ \A j \in Active(objects') \ {i} : objects'[j].name # objects'[i].name
      <4>1. i - m \in DOMAIN names /\ objects'[i] = added[i - m]
        BY <1>4, <1>7, <3>1
      <4>2. objects'[i].name = names[i - m] /\ IsNewcomer(objects'[i], ReadSide)
        BY <1>3, <2>1, <4>1
      <4>3. ASSUME NEW j \in Active(objects') \ {i} PROVE objects'[j].name # objects'[i].name
        <5>1. CASE j \in DOMAIN objects /\ objects'[j] = objects[j]
          BY <2>1, <4>1, <4>2, <5>1 DEF Active, ActiveNames
        <5>2. CASE j - m \in DOMAIN names /\ objects'[j] = added[j - m]
          <6>1. j - m # i - m
            BY <1>5 DEF Active
          <6>2. QED
            BY <1>3, <2>1, <4>1, <4>2, <5>2, <6>1
        <5>3. QED
          BY <1>4, <5>1, <5>2 DEF Active
      <4>4. QED
        BY <4>2, <4>3
    <3>2. QED
      BY <1>6, <3>1 DEF NewcomersOK
  <2>3. LookupsOK'
    <3>1. SUFFICES ASSUME NEW k \in Active(objects'), NEW f \in LookupFields(objects'[k], ReadSide),
                          NEW n, NEW d, n = objects'[k].name, d = describes'[ReadSide][n]
                   PROVE  LookupOK(n, d, f)'
      BY LookupsFollow
    <3>2. objects'[k].stage \in {"done", "ready"} /\ k \in DOMAIN objects'
      BY DEF LookupFields, IsDescribed, Active
    <3>3. k \in Active(objects) /\ objects'[k] = objects[k]
      BY <1>3, <1>4, <3>2 DEF Active
    <3>4. f \in LookupsOf(objects[k]) /\ n = objects[k].name /\ d = describes[ReadSide][n]
      BY <3>1, <3>3, LookupsOfQuery
    <3>5. LookupOK(n, d, f)
      BY <1>6, <3>3, <3>4 DEF LookupsOK, DescribeOf
    <3>6. /\ \A j \in Active(objects) : j \in Active(objects') /\ objects'[j] = objects[j]
          /\ \A j \in DOMAIN objects \ Active(objects) : j \in DOMAIN objects' \ Active(objects') /\ objects'[j] = objects[j]
          /\ \A j \in Active(objects') : objects'[j].name \in ActiveNames \cup UserGroup
      BY <1>3, <1>4, <2>1 DEF Active, ActiveNames
    <3>7. AllNames \subseteq AllNames' /\ ActiveNames' \subseteq ActiveNames \cup UserGroup
      BY <3>6 DEF AllNames, ActiveNames, ExcludedNames
    <3>8. DoneNames \subseteq DoneNames' /\ LoneNames \subseteq LoneNames'
      BY <3>6 DEF DoneNames, LoneNames
    <3>9. /\ IsCovered(n, d, f) => IsCovered(n, d, f)'
          /\ IsLinked(d, f) => IsLinked(d, f)'
          /\ HasTask(n, d, f) => HasTask(n, d, f)'
      BY <3>7, <3>8, LookupStays
    <3>10. AfterLink /\ (Settled' => Settled) /\ phase' # "exclude"
      BY <1>1, <1>6, <2>1 DEF AfterLink, Settled, StagesOK
    <3>11. QED
      BY <3>5, <3>9, <3>10 DEF LookupOK
  <2>4. QED
    BY <1>8, <1>9, <1>10, <1>11, <1>12, <2>2, <2>3, NothingReady DEF SoundInv
<1>15. QED
  BY <1>13, <1>14

\* Only the phase changes.
LEMMA PhaseSound ==
  ASSUME SoundInv, phase # "load", UNCHANGED <<script, set, outcomes, objects, describes, round>>,
         BeforeLink' <=> BeforeLink, StagesOK', ~LateDescribe', phase' # "exclude", phase' # "link",
         AfterLink' => AfterLink, Settled' => Settled
  PROVE  SoundInv'
<1>1. /\ DescribesOK /\ QueriesOK /\ LookupsOK /\ QueriesAreValid /\ ParentsHaveKeys
      /\ ReadSide' = ReadSide /\ OrgSides' = OrgSides /\ \A k, n : Barred(k, n)' = Barred(k, n)
  BY SidesStay DEF SoundInv
<1>2. DescribesOK' /\ QueriesOK'
  BY <1>1 DEF DescribesOK, QueriesOK, LastLinked
<1>3. LookupsOK'
  <2>1. SUFFICES ASSUME NEW k \in Active(objects'), NEW f \in LookupFields(objects'[k], ReadSide),
                        NEW n, NEW d, n = objects'[k].name, d = describes'[ReadSide][n]
                 PROVE  LookupOK(n, d, f)'
    BY LookupsFollow
  <2>2. LookupOK(n, d, f)
    BY <1>1, <2>1, LookupsOfQuery DEF LookupsOK, DescribeOf
  <2>3. AllNames' = AllNames /\ ActiveNames' = ActiveNames /\ DoneNames' = DoneNames /\ LoneNames' = LoneNames
    BY DEF AllNames, ActiveNames, ExcludedNames, DoneNames, LoneNames
  <2>4. /\ IsCovered(n, d, f) => IsCovered(n, d, f)'
        /\ IsLinked(d, f) => IsLinked(d, f)'
        /\ HasTask(n, d, f) => HasTask(n, d, f)'
    BY <2>3, LookupStays
  <2>5. QED
    BY <2>2, <2>4 DEF LookupOK
<1>4. QueriesAreValid' /\ ParentsHaveKeys'
  <2>1. \A i : LookupsOf(objects[i])' = LookupsOf(objects[i])
    BY <1>1, LookupsOfQuery
  <2>2. \A i : DescribeOf(objects[i])' = DescribeOf(objects[i])
    BY <1>1 DEF DescribeOf
  <2>3. ParentsHaveKeys'
    BY <1>1, <2>1, <2>2 DEF ParentsHaveKeys, Active
  <2>4. QED
    BY <1>1, <2>3, ValidStays
<1>5. QED
  BY <1>2, <1>3, <1>4 DEF SoundInv, NewcomersOK

\* All objects are described.
LEMMA AllDescribedSound ==
  ASSUME SetOK, SoundInv, DescribesDone
  PROVE  SoundInv'
<1>1. /\ phase = "describe" /\ phase' = resume /\ \A i \in DOMAIN objects : objects[i].stage \in {"none", "done"}
      /\ UNCHANGED <<script, set, outcomes, objects, describes, resume, round>>
      /\ resume \in {"parents", "remove", "tasks"}
  BY DEF DescribesDone, UnchangedRun, SetOK
<1>2. /\ BeforeLink' <=> BeforeLink
      /\ AfterLink' => AfterLink
      /\ Settled' => Settled
      /\ ~LateDescribe'
  BY <1>1 DEF BeforeLink, AfterLink, LateDescribe, Settled
<1>3. StagesOK'
  BY <1>1, <1>2 DEF SoundInv, StagesOK, BeforeLink
<1>4. QED
  BY <1>1, <1>2, <1>3, PhaseSound

\* Missing parents are added, until every lookup is covered.
LEMMA ParentsSound ==
  ASSUME SetOK, ObjectsOK, SoundInv, AddParents
  PROVE  SoundInv'
<1>1. phase = "parents" /\ UNCHANGED <<script, set, outcomes, describes, round>>
  BY DEF AddParents, UnchangedRun
<1>2. PICK missing \in Listed(MissingParents) :
        IF missing = <<>> THEN phase' = "link" /\ UNCHANGED <<objects, resume>>
        ELSE Join([k \in DOMAIN missing |-> AutoObject(missing[k])], "parents")
  BY DEF AddParents
<1>3. /\ IsSeq(missing) /\ \A k \in DOMAIN missing : missing[k] \in MissingParents
      /\ \A x \in MissingParents : \E k \in DOMAIN missing : missing[k] = x
  <2>1. missing \in SetToSeqs(MissingParents)
    BY DEF Listed
  <2>2. QED
    BY <1>1, <2>1, ListsAreComplete, ParentsAreFinite
<1>4. CASE missing # <<>>
  <2>1. \A k \in DOMAIN missing : \A e \in Entries : e.hasQuery => e.name # missing[k]
    BY <1>1, <1>3, ParentsAreNew
  <2>2. QED
    BY <1>1, <1>2, <1>3, <1>4, <2>1, JoinedSound
<1>5. CASE missing = <<>>
  <2>1. MissingParents = {} /\ phase' = "link" /\ objects' = objects
    BY <1>2, <1>3, <1>5
  <2>2. /\ DescribesOK /\ QueriesOK /\ StagesOK /\ QueriesAreValid
        /\ ReadSide' = ReadSide /\ OrgSides' = OrgSides /\ \A k, n : Barred(k, n)' = Barred(k, n)
    BY <1>1, SidesStay DEF SoundInv
  <2>3. DescribesOK' /\ QueriesOK' /\ StagesOK' /\ NewcomersOK' /\ QueriesAreValid'
    BY <1>1, <2>1, <2>2, ValidStays DEF DescribesOK, QueriesOK, StagesOK, NewcomersOK, LastLinked, BeforeLink, LateDescribe
  <2>4. \A i \in DOMAIN objects' : objects'[i].stage # "ready"
    BY <1>1, <2>1, <2>2 DEF StagesOK
  <2>5. LookupsOK'
    <3>1. SUFFICES ASSUME NEW k \in Active(objects'), NEW f \in LookupFields(objects'[k], ReadSide),
                          NEW n, NEW d, n = objects'[k].name, d = describes'[ReadSide][n]
                   PROVE  LookupOK(n, d, f)'
      BY <1>1, LookupsFollow
    <3>2. k \in Active(objects) /\ f \in LookupsOf(objects[k]) /\ n = objects[k].name /\ d = DescribeOf(objects[k])
      BY <1>1, <2>1, <3>1, LookupsOfQuery DEF DescribeOf
    <3>3. Targets(objects[k], f) \subseteq AllNames
      BY <2>1, <3>2 DEF MissingParents, AllNames
    <3>4. OneTarget(n, d, f) => Targets(objects[k], f) = {d[f].ref}
      BY <3>2 DEF OneTarget, Targets
    <3>5. IsCovered(n, d, f)
      BY <3>3, <3>4 DEF IsCovered
    <3>6. AllNames \subseteq AllNames'
      BY <1>1, <2>1 DEF AllNames, ActiveNames, ExcludedNames
    <3>7. IsCovered(n, d, f)'
      BY <1>1, <3>5, <3>6, LookupStays
    <3>8. QED
      BY <2>1, <3>7 DEF LookupOK, AfterLink, Settled, LateDescribe
  <2>6. QED
    BY <2>3, <2>4, <2>5, NothingReady DEF SoundInv
<1>6. QED
  BY <1>4, <1>5

\* Users and groups join late.
LEMMA UsersSound ==
  ASSUME SetOK, ObjectsOK, SoundInv, AddUserGroup
  PROVE  SoundInv'
<1> DEFINE needed == RequiredUserGroup \ ActiveNames
           added == Among("Group", needed) \o Among("User", needed)
           then == IF round = 1 THEN "remove" ELSE "tasks"
<1>1. phase = "pair" /\ UNCHANGED <<script, set, outcomes, describes, round>>
  BY DEF AddUserGroup, UnchangedRun
<1>2. \/ phase' = then /\ UNCHANGED <<objects, resume>>
      \/ Join([k \in DOMAIN added |-> AutoObject(added[k])], then)
  BY DEF AddUserGroup
<1>3. /\ IsSeq(added) /\ \A k \in DOMAIN added : added[k] \in UserGroup \ ActiveNames
      /\ \A k, l \in DOMAIN added : added[k] = added[l] => k = l
  <2>1. "Group" \in UserGroup /\ "User" \in UserGroup /\ "Group" # "User"
    BY DEF UserGroup
  <2> HIDE DEF needed
  <2>2. /\ IsSeq(added) /\ \A k \in DOMAIN added : added[k] \in UserGroup \cap needed
        /\ \A k, l \in DOMAIN added : added[k] = added[l] => k = l
    BY <2>1, PairIsSeq
  <2>3. needed \cap ActiveNames = {}
    BY DEF needed
  <2> HIDE DEF added
  <2>4. QED
    BY <2>2, <2>3
<1> HIDE DEF added
<1>4. CASE phase' = then /\ UNCHANGED <<objects, resume>>
  <2>1. StagesOK /\ round \in {1, 2}
    BY DEF SoundInv, StagesOK
  <2>2. /\ BeforeLink' <=> BeforeLink
        /\ AfterLink' => AfterLink
        /\ Settled' => Settled
        /\ ~LateDescribe' /\ StagesOK'
    BY <1>1, <1>4, <2>1 DEF BeforeLink, AfterLink, LateDescribe, Settled, StagesOK
  <2>3. QED
    BY <1>1, <1>4, <2>2, PhaseSound
<1>5. CASE Join([k \in DOMAIN added |-> AutoObject(added[k])], then)
  BY <1>1, <1>3, <1>5, JoinedSound
<1>6. QED
  BY <1>2, <1>4, <1>5

-----------------------------------------------------------------------------
(* Objects are worked on in place.                                         *)

\* What adapting operations and excluding objects leave alone.
SameRole(o, n) ==
  /\ n.name = o.name /\ n.fields = o.fields /\ n.via = o.via /\ n.stage = o.stage /\ n.missing = o.missing
  /\ n.externalId = o.externalId /\ n.all = o.all /\ n.excludedFields = o.excludedFields
  /\ o.excluded => n.excluded

LEMMA RolesStay ==
  ASSUME NEW o, IsObject(o)
  PROVE  SameRole(o, Adapted(o)) /\ SameRole(o, Sifted(o))
<1>1. SameRole(o, Sifted(o))
  BY DEF SameRole, Sifted, IsObject, ObjectFields
<1>2. ASSUME NEW w, IsObject(w), SameRole(o, w)
      PROVE  /\ IsObject(NoTargetDeletes(w)) /\ SameRole(o, NoTargetDeletes(w))
             /\ \A operation : SameRole(o, [w EXCEPT !.operation = operation])
  BY <1>2 DEF SameRole, NoTargetDeletes, IsObject, ObjectFields
<1>3. SameRole(o, o)
  BY DEF SameRole
<1>4. /\ IsObject(NoTargetDeletes(o)) /\ SameRole(o, NoTargetDeletes(o))
      /\ IsObject(WithDeletableFlags(o)) /\ SameRole(o, WithDeletableFlags(o))
  BY <1>2, <1>3 DEF WithDeletableFlags
<1>5. \/ Adapted(o) = o
      \/ \E operation : \E w \in {NoTargetDeletes(o), NoTargetDeletes(WithDeletableFlags(o)), WithDeletableFlags(o)} :
           Adapted(o) = [w EXCEPT !.operation = operation]
  BY DEF Adapted
<1>6. QED
  BY <1>1, <1>2, <1>3, <1>4, <1>5

LEMMA RoleIsQueried ==
  ASSUME NEW o, NEW n, SameRole(o, n), o.stage \in {"none", "done"}
  PROVE  /\ \A barred, read, orgs : QueryOK(o, barred, read, orgs) => QueryOK(n, barred, read, orgs)
         /\ \A read : LookupFields(n, read) = LookupFields(o, read)
<1>1. ASSUME NEW barred, NEW read, NEW orgs, QueryOK(o, barred, read, orgs) PROVE QueryOK(n, barred, read, orgs)
  <2>1. AsDescribed(o, read, orgs) => AsDescribed(n, read, orgs)
    BY DEF SameRole, AsDescribed
  <2>2. FromEntry(o, barred) => FromEntry(n, barred)
    BY DEF SameRole, FromEntry, Rejoined
  <2>3. QED
    BY <1>1, <2>1, <2>2 DEF QueryOK, SameRole
<1>2. \A read : LookupFields(n, read) = LookupFields(o, read)
  BY DEF SameRole, LookupFields, IsDescribed
<1>3. QED
  BY <1>1, <1>2

\* To show that such a step keeps the invariant.
LEMMA InPlaceSound ==
  ASSUME SoundInv, UNCHANGED <<script, set, outcomes, describes>>, round' \in {1, 2},
         phase \in {"operations", "exclude", "remove"}, phase' \in {"exclude", "pair", "tasks"},
         DOMAIN objects' = DOMAIN objects,
         \A i \in DOMAIN objects :
           /\ objects'[i].name = objects[i].name /\ objects'[i].stage = objects[i].stage
           /\ objects'[i].missing = objects[i].missing
           /\ QueryOK(objects'[i], Barred(set, objects[i].name), ReadSide, OrgSides),
         LookupsOK'
  PROVE  SoundInv'
<1>1. /\ DescribesOK /\ QueriesOK /\ StagesOK /\ QueriesAreValid
      /\ ReadSide' = ReadSide /\ OrgSides' = OrgSides /\ \A k, n : Barred(k, n)' = Barred(k, n)
  BY SidesStay DEF SoundInv
<1>2. DescribesOK'
  <2>1. LastLinked' = LastLinked
    BY DEF LastLinked, BeforeLink
  <2>2. \A i \in DOMAIN objects' : IsKnown(objects'[i], describes, OrgSides)
    BY <1>1 DEF DescribesOK, IsKnown
  <2>3. QED
    BY <1>1, <2>1, <2>2 DEF DescribesOK
<1>3. QueriesOK'
  BY <1>1 DEF QueriesOK
<1>4. \A i \in DOMAIN objects' : objects'[i].stage \in {"none", "done"}
  BY <1>1 DEF StagesOK
<1>5. StagesOK' /\ NewcomersOK'
  BY <1>4 DEF StagesOK, NewcomersOK, LateDescribe, BeforeLink
<1>6. QED
  BY <1>1, <1>2, <1>3, <1>4, <1>5, ValidStays, NothingReady DEF SoundInv

\* An object keeps its name.
LEMMA NamesStay ==
  ASSUME script' = script, DOMAIN objects' = DOMAIN objects,
         \A i \in DOMAIN objects :
           objects'[i].name = objects[i].name /\ (objects[i].excluded => objects'[i].excluded)
  PROVE  /\ AllNames' = AllNames /\ ActiveNames' \subseteq ActiveNames
         /\ Active(objects') \subseteq Active(objects)
<1>1. \A x : x \in AllNames <=> x \in script.excludedObjects \/ \E i \in DOMAIN objects : objects[i].name = x
  BY DEF AllNames, ExcludedNames, ActiveNames, Active
<1>2. \A x : x \in AllNames' <=> x \in script.excludedObjects \/ \E i \in DOMAIN objects' : objects'[i].name = x
  BY DEF AllNames, ExcludedNames, ActiveNames, Active
<1>3. AllNames' = AllNames
  BY <1>1, <1>2
<1>4. QED
  BY <1>3 DEF ActiveNames, Active

\* The describe of a lookup is known, and linked to this set or an earlier one.
LEMMA LookupIsKnown ==
  ASSUME SetOK, DescribesOK, NEW i \in Active(objects), NEW f \in LookupsOf(objects[i])
  PROVE  LET d == DescribeOf(objects[i]) IN
         /\ objects[i].name \in DOMAIN describes[ReadSide]
         /\ f \in FieldsOf(ReadSide, objects[i].name) /\ To(ReadSide, objects[i].name, f) # <<>>
         /\ d[f].parent = NoParent \/ d[f].parent.set \in 1 .. LastLinked
<1>1. /\ IsDescribed(objects[i]) /\ i \in DOMAIN objects
      /\ f \in FieldsOf(ReadSide, objects[i].name) /\ To(ReadSide, objects[i].name, f) # <<>>
  BY LookupsOfQuery DEF LookupFields, Active
<1>2. ReadSide \in OrgSides /\ OrgSides \subseteq Sides
  BY OrgsOfScript DEF SetOK
<1>3. objects[i].name \in DOMAIN describes[ReadSide]
  BY <1>1, <1>2 DEF DescribesOK, IsKnown, IsDescribed, Described
<1>4. QED
  BY <1>1, <1>2, <1>3 DEF DescribesOK, AreDescribes, IsDescribe, DescribeOf

\* A lookup that stays refers to users, is linked to an earlier set, or to an active object.
LEMMA StayingLookup ==
  ASSUME NEW n, NEW d, NEW f, set \in Nat, d[f].parent = NoParent \/ d[f].parent.set \in 1 .. set,
         IsCovered(n, d, f), IsLinked(d, f), Stays(n, d, f)
  PROVE  \/ UserGroupLookup(d, ReadSide, n, f)
         \/ ~OneTarget(n, d, f)
         \/ d[f].parent.set \in 1 .. set - 1
         \/ /\ d[f].ref \in ActiveNames /\ ParentName(d, f) = d[f].ref
            /\ d[f].ref \in UserGroup \/ d[f].parent.name = d[f].ref
<1> SUFFICES ASSUME ~UserGroupLookup(d, ReadSide, n, f), OneTarget(n, d, f), d[f].parent.set \notin 1 .. set - 1
             PROVE  /\ d[f].ref \in ActiveNames /\ ParentName(d, f) = d[f].ref
                    /\ d[f].ref \in UserGroup \/ d[f].parent.name = d[f].ref
  OBVIOUS
<1>1. d[f].parent = NoParent \/ d[f].parent.set = set
  OBVIOUS
<1>2. ParentName(d, f) = d[f].ref
  BY <1>1 DEF ParentName, IsLinked
<1>3. d[f].ref \in ActiveNames
  BY <1>2 DEF IsCovered, Stays, AllNames
<1>4. d[f].ref \notin UserGroup => d[f].parent.name = d[f].ref
  BY <1>3 DEF IsLinked
<1>5. QED
  BY <1>2, <1>3, <1>4

\* Operations are adapted to the metadata.
LEMMA OperationsSound ==
  ASSUME SetOK, ObjectsOK, SoundInv, NormaliseOperations
  PROVE  SoundInv'
<1>1. phase = "operations" /\ phase' = "exclude" /\ UNCHANGED <<script, set, outcomes, describes, round>>
  BY DEF NormaliseOperations, UnchangedRun
<1>2. /\ DescribesOK /\ QueriesOK /\ StagesOK /\ LookupsOK /\ round = 1
  BY <1>1 DEF SoundInv, StagesOK
<1>3. /\ \A i \in DOMAIN objects : IsObject(objects[i]) /\ objects[i].stage \in {"none", "done"}
      /\ IsSeq(objects)
  BY <1>1, <1>2 DEF ObjectsOK, ObjectOK, StagesOK
<1>4. /\ DOMAIN objects' = DOMAIN objects
      /\ \A i \in DOMAIN objects : SameRole(objects[i], objects'[i])
  <2>1. CASE script.targetIsFile
    BY <2>1 DEF NormaliseOperations, SameRole
  <2>2. CASE ~script.targetIsFile
    BY <1>3, <2>2, RolesStay DEF NormaliseOperations
  <2>3. QED
    BY <2>1, <2>2
<1>5. \A i \in DOMAIN objects :
        /\ QueryOK(objects'[i], Barred(set, objects[i].name), ReadSide, OrgSides)
        /\ LookupFields(objects'[i], ReadSide) = LookupFields(objects[i], ReadSide)
  BY <1>1, <1>2, <1>3, <1>4, RoleIsQueried DEF QueriesOK
<1>6. AllNames' = AllNames /\ ActiveNames' \subseteq ActiveNames /\ Active(objects') \subseteq Active(objects)
  BY <1>1, <1>4, NamesStay DEF SameRole
<1>7. LookupsOK'
  <2>1. SUFFICES ASSUME NEW k \in Active(objects'), NEW f \in LookupFields(objects'[k], ReadSide),
                        NEW n, NEW d, n = objects'[k].name, d = describes'[ReadSide][n]
                 PROVE  LookupOK(n, d, f)'
    BY <1>1, LookupsFollow
  <2>2. /\ k \in Active(objects) /\ f \in LookupsOf(objects[k])
        /\ n = objects[k].name /\ d = DescribeOf(objects[k])
    BY <1>1, <1>4, <1>5, <1>6, <2>1, LookupsOfQuery DEF Active, SameRole, DescribeOf
  <2>3. IsCovered(n, d, f) /\ IsLinked(d, f)
    BY <1>1, <1>2, <2>2 DEF LookupsOK, LookupOK, AfterLink
  <2>4. IsCovered(n, d, f)' /\ IsLinked(d, f)'
    BY <1>1, <1>6, <2>3, LookupStays
  <2>5. QED
    BY <1>1, <1>2, <2>4 DEF LookupOK, Settled
<1>8. QED
  BY <1>1, <1>2, <1>4, <1>5, <1>7, InPlaceSound DEF SameRole

\* Objects are excluded.
LEMMA ExclusionsSound ==
  ASSUME SetOK, ObjectsOK, SoundInv, Exclude
  PROVE  SoundInv'
<1>1. /\ phase = "exclude" /\ phase' = "pair" /\ UNCHANGED <<script, set, outcomes, describes, round>>
      /\ objects' = [i \in DOMAIN objects |-> Sifted(objects[i])]
  BY DEF Exclude, UnchangedRun
<1>2. DescribesOK /\ QueriesOK /\ StagesOK /\ LookupsOK /\ round \in {1, 2}
  BY DEF SoundInv, StagesOK
<1>3. \A i \in DOMAIN objects : /\ IsObject(objects[i]) /\ StageOK(objects[i], script)
                                /\ objects[i].stage \in {"none", "done"}
  BY <1>1, <1>2 DEF ObjectsOK, ObjectOK, StagesOK
<1>4. \A i \in DOMAIN objects : SameRole(objects[i], objects'[i])
  BY <1>1, <1>3, RolesStay
<1>5. \A i \in DOMAIN objects :
        /\ QueryOK(objects'[i], Barred(set, objects[i].name), ReadSide, OrgSides)
        /\ LookupFields(objects'[i], ReadSide) = LookupFields(objects[i], ReadSide)
  BY <1>1, <1>2, <1>3, <1>4, RoleIsQueried DEF QueriesOK
<1>6. AllNames' = AllNames /\ ActiveNames' \subseteq ActiveNames /\ Active(objects') \subseteq Active(objects)
  BY <1>1, <1>4, NamesStay DEF SameRole
<1>7. LookupsOK'
  <2>1. SUFFICES ASSUME NEW k \in Active(objects'), NEW f \in LookupFields(objects'[k], ReadSide),
                        NEW n, NEW d, n = objects'[k].name, d = describes'[ReadSide][n]
                 PROVE  LookupOK(n, d, f)'
    BY <1>1, LookupsFollow
  <2>2. /\ k \in Active(objects) /\ f \in LookupsOf(objects[k])
        /\ n = objects[k].name /\ d = DescribeOf(objects[k])
    BY <1>1, <1>4, <1>5, <1>6, <2>1, LookupsOfQuery DEF Active, SameRole, DescribeOf
  <2>3. IsCovered(n, d, f) /\ IsLinked(d, f) /\ (round = 2 => Stays(n, d, f))
    BY <1>1, <1>2, <2>2 DEF LookupsOK, LookupOK, AfterLink
  <2>4. IsCovered(n, d, f)' /\ IsLinked(d, f)'
    BY <1>1, <1>6, <2>3, LookupStays
  <2>5. ASSUME round = 2 PROVE HasTask(n, d, f)'
    <3>1. d[f].parent = NoParent \/ d[f].parent.set \in 1 .. set
      BY <1>1, <1>2, <2>2, LookupIsKnown DEF LastLinked, BeforeLink
    <3>2. \/ UserGroupLookup(d, ReadSide, n, f)
          \/ ~OneTarget(n, d, f)
          \/ d[f].parent.set \in 1 .. set - 1
          \/ /\ d[f].ref \in ActiveNames /\ ParentName(d, f) = d[f].ref
             /\ d[f].ref \in UserGroup \/ d[f].parent.name = d[f].ref
      BY <2>3, <2>5, <3>1, SetNumber, StayingLookup
    <3>3. /\ OneTarget(n, d, f)' <=> OneTarget(n, d, f)
          /\ UserGroupLookup(d, ReadSide, n, f)' <=> UserGroupLookup(d, ReadSide, n, f)
      BY <1>1, SidesStay DEF OneTarget, UserGroupLookup
    <3>4. ASSUME d[f].ref \in ActiveNames, ParentName(d, f) = d[f].ref,
                 d[f].ref \in UserGroup \/ d[f].parent.name = d[f].ref
          PROVE  d[f].ref \in DoneNames' \/ ParentName(d, f) \in LoneNames'
      <4>1. PICK j \in Active(objects) : objects[j].name = d[f].ref
        BY <3>4 DEF ActiveNames
      <4>2. j \in DOMAIN objects /\ ~objects[j].excluded /\ objects[j].stage = "done"
        BY <1>3, <4>1 DEF Active, StageOK, Described
      <4>3. objects[j].name \in ReferencedNames \cup UserGroup
        BY <2>2, <3>4, <4>1 DEF ReferencedNames, Active
      <4>4. ~objects'[j].excluded \/ OnlyId(objects[j])
        BY <1>1, <4>2, <4>3 DEF Sifted
      <4>5. objects'[j].name = d[f].ref /\ objects'[j].stage = "done" /\ (OnlyId(objects'[j]) <=> OnlyId(objects[j]))
        BY <1>4, <4>1, <4>2 DEF SameRole, OnlyId
      <4>6. QED
        BY <1>1, <3>4, <4>2, <4>4, <4>5 DEF DoneNames, LoneNames, Active
    <3>5. QED
      BY <1>1, <2>5, <3>2, <3>3, <3>4 DEF HasTask
  <2>6. QED
    BY <1>1, <2>4, <2>5 DEF LookupOK, Settled
<1>8. QED
  BY <1>1, <1>2, <1>4, <1>5, <1>7, InPlaceSound DEF SameRole

\* Lookups of excluded objects leave the queries.
LEMMA LookupsRemoved ==
  ASSUME NEW o, IsObject(o), o.stage \in {"none", "done"}, script \in Scripts,
         NEW barred, QueryOK(o, barred, ReadSide, OrgSides),
         IsDescribed(o) => o.name \in DOMAIN Org[ReadSide]
  PROVE  LET n == WithoutLookups(o)
             gone == LookupsToExcluded(o) IN
         /\ n.name = o.name /\ n.stage = o.stage /\ n.missing = o.missing /\ n.excluded = o.excluded
         /\ QueryOK(n, barred, ReadSide, OrgSides)
         /\ LookupFields(n, ReadSide) = LookupFields(o, ReadSide) \ gone
         /\ n = o => gone = {}
<1> DEFINE n == WithoutLookups(o)
           gone == LookupsToExcluded(o)
<1>1. CASE gone = {}
  BY <1>1 DEF WithoutLookups
<1>2. CASE gone # {}
  <2>1. ~o.excluded /\ IsDescribed(o) /\ gone \subseteq LookupsOf(o) \cup {v[1] : v \in o.via}
    BY <1>2 DEF LookupsToExcluded
  <2>2. FromEntry(o, barred) /\ AsDescribed(o, ReadSide, OrgSides)
    BY <2>1 DEF QueryOK, IsDescribed, Described
  <2>3. \A f \in gone : f \in o.fields /\ To(ReadSide, o.name, f) # <<>>
    BY <2>1, <2>2, LookupsOfQuery DEF AsDescribed, LookupFields
  <2>4. "Id" \notin gone
    BY <2>1, <2>3, OrgsOfScript, IdIsNoLookup
  <2>5. /\ n.name = o.name /\ n.stage = o.stage /\ n.missing = o.missing /\ n.excluded = o.excluded
        /\ n.fields = o.fields \ gone /\ n.via = {v \in o.via : v[1] \notin gone}
        /\ n.externalId = o.externalId /\ n.excludedFields = o.excludedFields /\ n.all = o.all
    BY <1>2 DEF WithoutLookups, IsObject, ObjectFields
  <2> HIDE DEF gone, n
  <2>6. AsDescribed(n, ReadSide, OrgSides)
    BY <2>2, <2>3, <2>4, <2>5 DEF AsDescribed
  <2>7. FromEntry(n, barred)
    BY <2>2, <2>5 DEF FromEntry, Rejoined
  <2>8. QueryOK(n, barred, ReadSide, OrgSides)
    BY <2>1, <2>5, <2>6, <2>7 DEF QueryOK, IsDescribed
  <2>9. LookupFields(n, ReadSide) = LookupFields(o, ReadSide) \ gone
    BY <2>5 DEF LookupFields, IsDescribed
  <2>10. n # o
    BY <1>2, <2>3, <2>5
  <2>11. QED
    BY <2>5, <2>8, <2>9, <2>10 DEF n, gone
<1>3. QED
  BY <1>1, <1>2

LEMMA RemovalsSound ==
  ASSUME SetOK, ObjectsOK, SoundInv, RemoveLookups
  PROVE  SoundInv'
<1>1. /\ phase = "remove" /\ UNCHANGED <<script, set, outcomes, describes>>
      /\ objects' = [i \in DOMAIN objects |-> WithoutLookups(objects[i])]
      /\ IF objects' = objects THEN phase' = "tasks" /\ round' = round ELSE phase' = "exclude" /\ round' = 2
  BY DEF RemoveLookups, UnchangedRun
<1>2. DescribesOK /\ QueriesOK /\ StagesOK /\ LookupsOK /\ round \in {1, 2} /\ script \in Scripts
  BY DEF SoundInv, StagesOK, SetOK
<1>3. \A i \in DOMAIN objects : /\ IsObject(objects[i]) /\ StageOK(objects[i], script)
                                /\ objects[i].stage \in {"none", "done"}
  BY <1>1, <1>2 DEF ObjectsOK, ObjectOK, StagesOK
<1>4. ASSUME NEW i \in DOMAIN objects
      PROVE  LET o == objects[i]
                 n == objects'[i] IN
             /\ n.name = o.name /\ n.stage = o.stage /\ n.missing = o.missing /\ n.excluded = o.excluded
             /\ QueryOK(n, Barred(set, o.name), ReadSide, OrgSides)
             /\ LookupFields(n, ReadSide) = LookupFields(o, ReadSide) \ LookupsToExcluded(o)
             /\ n = o => LookupsToExcluded(o) = {}
  <2>1. IsDescribed(objects[i]) => objects[i].name \in DOMAIN Org[ReadSide]
    BY <1>2, OrgsOfScript DEF DescribesOK, IsKnown, IsDescribed, Described, AreDescribes, IsDescribe
  <2>2. QueryOK(objects[i], Barred(set, objects[i].name), ReadSide, OrgSides)
    BY <1>1, <1>2 DEF QueriesOK
  <2>3. objects'[i] = WithoutLookups(objects[i])
    BY <1>1
  <2>4. QED
    BY <1>2, <1>3, <2>1, <2>2, <2>3, LookupsRemoved
<1>5. DOMAIN objects' = DOMAIN objects
  BY <1>1
<1>6. /\ AllNames' = AllNames /\ ActiveNames' = ActiveNames /\ ExcludedNames' = ExcludedNames
      /\ Active(objects') = Active(objects) /\ DoneNames' = DoneNames
  <2>1. Active(objects') = Active(objects)
    BY <1>4, <1>5 DEF Active
  <2>2. ActiveNames' = ActiveNames /\ ExcludedNames' = ExcludedNames /\ DoneNames' = DoneNames
    BY <1>1, <1>4, <1>5, <2>1 DEF ActiveNames, ExcludedNames, DoneNames, Active
  <2>3. QED
    BY <2>1, <2>2 DEF AllNames
<1>7. LookupsOK'
  <2>1. SUFFICES ASSUME NEW k \in Active(objects'), NEW f \in LookupFields(objects'[k], ReadSide),
                        NEW n, NEW d, n = objects'[k].name, d = describes'[ReadSide][n]
                 PROVE  LookupOK(n, d, f)'
    BY <1>1, LookupsFollow
  <2>2. /\ k \in Active(objects) /\ k \in DOMAIN objects /\ f \in LookupsOf(objects[k])
        /\ f \notin LookupsToExcluded(objects[k])
        /\ n = objects[k].name /\ d = DescribeOf(objects[k])
    BY <1>1, <1>4, <1>6, <2>1, LookupsOfQuery DEF Active, DescribeOf
  <2>3. IsCovered(n, d, f) /\ IsLinked(d, f)
    BY <1>1, <1>2, <2>2 DEF LookupsOK, LookupOK, AfterLink
  <2>4. IsCovered(n, d, f)' /\ IsLinked(d, f)'
    BY <1>1, <1>6, <2>3, LookupStays
  <2>5. Stays(n, d, f)
    BY <2>2 DEF Stays, LookupsToExcluded, LookupsOf, Active
  <2>6. /\ OneTarget(n, d, f)' <=> OneTarget(n, d, f)
        /\ UserGroupLookup(d, ReadSide, n, f)' <=> UserGroupLookup(d, ReadSide, n, f)
    BY <1>1, SidesStay DEF OneTarget, UserGroupLookup
  <2>7. Stays(n, d, f)'
    BY <1>6, <2>5, <2>6 DEF Stays
  <2>8. HasTask(n, d, f)'
    <3>1. d[f].parent = NoParent \/ d[f].parent.set \in 1 .. set
      BY <1>1, <1>2, <2>2, LookupIsKnown DEF LastLinked, BeforeLink
    <3>2. \/ UserGroupLookup(d, ReadSide, n, f)
          \/ ~OneTarget(n, d, f)
          \/ d[f].parent.set \in 1 .. set - 1
          \/ d[f].ref \in ActiveNames
      BY <2>3, <2>5, <3>1, SetNumber, StayingLookup
    <3>3. ActiveNames \subseteq DoneNames
      <4>1. \A j \in Active(objects) : objects[j].stage = "done"
        BY <1>3 DEF Active, StageOK, Described
      <4>2. QED
        BY <4>1 DEF ActiveNames, DoneNames
    <3>4. QED
      BY <1>1, <1>6, <2>6, <3>2, <3>3 DEF HasTask
  <2>9. QED
    BY <1>1, <2>4, <2>7, <2>8 DEF LookupOK
<1>8. QED
  BY <1>1, <1>2, <1>4, <1>5, <1>7, InPlaceSound

-----------------------------------------------------------------------------
(* Lookups are linked to the objects of the set.                           *)

\* The greatest of some indices.
LEMMA GreatestIndex ==
  ASSUME NEW n \in Nat, NEW T, T \subseteq 1 .. n, T # {}
  PROVE  \E i \in T : \A j \in T : j <= i
<1> DEFINE D == {n - i : i \in T}
<1>1. \A i \in T : i \in Int /\ n - i \in Nat
  <2> TAKE i \in T
  <2>1. i \in 1 .. n
    OBVIOUS
  <2>2. QED
    BY <2>1
<1>2. D \subseteq Nat /\ D # {}
  BY <1>1
<1> HIDE DEF D
<1>3. PICK m \in D : \A k \in D : m <= k
  BY <1>2, LeastNatural
<1>4. PICK i \in T : m = n - i
  BY <1>3 DEF D
<1>5. \A j \in T : n - i <= n - j
  BY <1>3, <1>4 DEF D
<1>6. \A j \in T : j <= i
  BY <1>1, <1>5
<1>7. QED
  BY <1>6

\* A linked describe refers to what it referred to, and is linked to this set where that
\* is in it.
LEMMA LinkedDescribe ==
  ASSUME IsSeq(objects), set \in Nat, set >= 1,
         NEW d, NEW n, n \in DOMAIN Org[ReadSide], IsDescribe(d, ReadSide, n, set - 1)
  PROVE  /\ IsDescribe(Linked(d, n), ReadSide, n, set)
         /\ \A f \in DOMAIN d :
              /\ Linked(d, n)[f].ref = d[f].ref /\ Linked(d, n)[f].poly = d[f].poly
              /\ To(ReadSide, n, f) # <<>> => IsLinked(Linked(d, n), f)
<1> DEFINE ParentIn(f) == {i \in Active(objects) : objects[i].name = d[f].ref}
           e == Linked(d, n)
<1>1. /\ DOMAIN d = FieldsOf(ReadSide, n) /\ DOMAIN e = DOMAIN d
      /\ \A f \in DOMAIN d : /\ DOMAIN d[f] = {"ref", "poly", "definition", "parent"}
                             /\ d[f].parent = NoParent \/ d[f].parent.set \in 1 .. set - 1
  BY DEF IsDescribe, Linked
<1>2. ASSUME NEW f \in DOMAIN d
      PROVE  /\ DOMAIN e[f] = {"ref", "poly", "definition", "parent"}
             /\ e[f].parent = NoParent \/ e[f].parent.set \in 1 .. set
             /\ e[f].ref = d[f].ref /\ e[f].poly = d[f].poly
             /\ To(ReadSide, n, f) # <<>> => IsLinked(e, f)
  <2>1. CASE To(ReadSide, n, f) = <<>> \/ ParentIn(f) = {}
    <3>1. e[f] = d[f]
      BY <2>1 DEF Linked
    <3>2. d[f].parent.set # set
      BY <1>1 DEF NoParent
    <3>3. To(ReadSide, n, f) # <<>> => d[f].ref \notin ActiveNames
      BY <2>1 DEF ActiveNames
    <3>4. e[f].parent = NoParent \/ e[f].parent.set \in 1 .. set
      BY <1>1, <3>1
    <3>5. QED
      BY <1>1, <3>1, <3>2, <3>3, <3>4 DEF IsLinked
  <2>2. CASE To(ReadSide, n, f) # <<>> /\ ParentIn(f) # {}
    <3> DEFINE c == CHOOSE i \in ParentIn(f) : \A j \in ParentIn(f) : j <= i
    <3>1. ParentIn(f) \subseteq 1 .. Len(objects) /\ Len(objects) \in Nat
      BY SeqShape DEF Active
    <3>2. \E i \in ParentIn(f) : \A j \in ParentIn(f) : j <= i
      BY <2>2, <3>1, GreatestIndex
    <3>3. c \in ParentIn(f)
      BY <3>2
    <3>4. e[f] = [d[f] EXCEPT !.parent = [set |-> set, name |-> objects[c].name, id |-> objects[c].externalId]]
      BY <2>2 DEF Linked
    <3> HIDE DEF c
    <3>5. objects[c].name = d[f].ref
      BY <3>3
    <3>6. /\ DOMAIN e[f] = DOMAIN d[f] /\ e[f].ref = d[f].ref /\ e[f].poly = d[f].poly
          /\ e[f].parent.set = set /\ e[f].parent.name = d[f].ref
      BY <1>1, <3>4, <3>5
    <3>7. QED
      BY <1>1, <3>6 DEF IsLinked
  <2>3. QED
    BY <2>1, <2>2
<1>3. IsDescribe(e, ReadSide, n, set)
  BY <1>1, <1>2 DEF IsDescribe
<1>4. QED
  BY <1>2, <1>3

\* The keys of parents are queried with the lookups of a query only.
LEMMA KeysJoinQuery ==
  ASSUME NEW o, IsObject(o), NEW d
  PROVE  LET n == WithRelationships(o, d) IN
         /\ n.name = o.name /\ n.fields = o.fields /\ n.stage = o.stage /\ n.missing = o.missing
         /\ n.excluded = o.excluded /\ n.externalId = o.externalId /\ n.all = o.all
         /\ n.excludedFields = o.excludedFields
         /\ \A v \in n.via : v \in o.via \/ v[1] \in LookupsOf(o)
         /\ o.stage \in {"done", "ready"} =>
              \A barred : QueryOK(o, barred, ReadSide, OrgSides) => QueryOK(n, barred, ReadSide, OrgSides)
<1> DEFINE n == WithRelationships(o, d)
<1>1. /\ n.name = o.name /\ n.fields = o.fields /\ n.stage = o.stage /\ n.missing = o.missing
      /\ n.excluded = o.excluded /\ n.externalId = o.externalId /\ n.all = o.all
      /\ n.excludedFields = o.excludedFields
      /\ n.via = o.via \cup {<<f, d[f].parent.id>> : f \in {f \in LookupsOf(o) : d[f].parent # NoParent}}
  BY DEF WithRelationships, IsObject, ObjectFields
<1> HIDE DEF n
<1>2. \A v \in n.via : v \in o.via \/ v[1] \in LookupsOf(o)
  BY <1>1
<1>3. \A f \in LookupsOf(o) : f \in o.fields /\ To(ReadSide, o.name, f) # <<>>
  BY LookupsOfQuery DEF LookupFields
<1>4. ASSUME AsDescribed(o, ReadSide, OrgSides) PROVE AsDescribed(n, ReadSide, OrgSides)
  BY <1>1, <1>2, <1>3, <1>4 DEF AsDescribed
<1>5. ASSUME NEW barred, FromEntry(o, barred) PROVE FromEntry(n, barred)
  BY <1>1, <1>5 DEF FromEntry, Rejoined
<1>6. QED
  BY <1>1, <1>2, <1>4, <1>5 DEF QueryOK, n

LEMMA LinkSound ==
  ASSUME SetOK, ObjectsOK, SoundInv, Link
  PROVE  SoundInv'
<1> DEFINE linked == [n \in DOMAIN describes[ReadSide] |->
                        IF \E i \in Active(objects) : objects[i].name = n /\ IsDescribed(objects[i])
                          THEN Linked(describes[ReadSide][n], n) ELSE describes[ReadSide][n]]
<1>1. /\ phase = "link" /\ phase' = "operations" /\ UNCHANGED <<script, set, outcomes, round>>
      /\ describes' = [describes EXCEPT ![ReadSide] = linked]
      /\ objects' = [i \in DOMAIN objects |->
                       IF objects[i].excluded \/ ~IsDescribed(objects[i]) THEN objects[i]
                       ELSE WithRelationships(objects[i], linked[objects[i].name])]
  BY DEF Link, UnchangedRun
<1>2. /\ DescribesOK /\ QueriesOK /\ StagesOK /\ LookupsOK /\ QueriesAreValid /\ round = 1
      /\ set \in Nat /\ set >= 1
  BY <1>1, SetNumber DEF SoundInv, StagesOK, BeforeLink
<1>3. /\ ReadSide \in OrgSides /\ OrgSides \subseteq Sides
      /\ ReadSide' = ReadSide /\ OrgSides' = OrgSides /\ \A k, n : Barred(k, n)' = Barred(k, n)
  BY <1>1, OrgsOfScript, SidesStay DEF SetOK
<1>4. LastLinked = set - 1 /\ LastLinked' = set
  BY <1>1 DEF LastLinked, BeforeLink
<1>5. IsSeq(objects) /\ \A i \in DOMAIN objects : IsObject(objects[i]) /\ objects[i].stage \in {"none", "done"}
  BY <1>1, <1>2 DEF ObjectsOK, ObjectOK, StagesOK
<1>6. ASSUME NEW n \in DOMAIN describes[ReadSide]
      PROVE  /\ n \in DOMAIN Org[ReadSide] /\ IsDescribe(describes[ReadSide][n], ReadSide, n, set - 1)
             /\ IsDescribe(Linked(describes[ReadSide][n], n), ReadSide, n, set)
             /\ IsDescribe(linked[n], ReadSide, n, set)
  <2>1. IsDescribe(describes[ReadSide][n], ReadSide, n, set - 1)
    BY <1>2, <1>3, <1>4 DEF DescribesOK, AreDescribes
  <2>2. n \in DOMAIN Org[ReadSide]
    BY <2>1 DEF IsDescribe
  <2>3. IsDescribe(Linked(describes[ReadSide][n], n), ReadSide, n, set)
    BY <1>2, <1>5, <2>1, <2>2, LinkedDescribe
  <2>4. IsDescribe(describes[ReadSide][n], ReadSide, n, set)
    BY <1>2, <2>1 DEF IsDescribe
  <2>5. QED
    BY <2>1, <2>2, <2>3, <2>4
<1>7. /\ DOMAIN describes = Sides /\ DOMAIN describes' = Sides /\ describes'[ReadSide] = linked
      /\ \A side \in Sides \ {ReadSide} : describes'[side] = describes[side]
      /\ \A side \in Sides : DOMAIN describes'[side] = DOMAIN describes[side]
  BY <1>1, <1>2, <1>3 DEF DescribesOK, AreDescribes
<1>8. AreDescribes(describes', set)
  <2>1. AreDescribes(describes, set)
    BY <1>2, <1>4, LaterLinks DEF DescribesOK
  <2>2. \A side \in Sides : \A n \in DOMAIN describes'[side] : IsDescribe(describes'[side][n], side, n, set)
    BY <1>6, <1>7, <2>1 DEF AreDescribes
  <2>3. QED
    BY <1>7, <2>2 DEF AreDescribes
<1>9. ASSUME NEW i \in DOMAIN objects
      PROVE  LET o == objects[i]
                 n == objects'[i] IN
             /\ n.name = o.name /\ n.stage = o.stage /\ n.missing = o.missing /\ n.excluded = o.excluded
             /\ n.fields = o.fields
             /\ QueryOK(n, Barred(set, o.name), ReadSide, OrgSides)
  <2>1. QueryOK(objects[i], Barred(set, objects[i].name), ReadSide, OrgSides)
    BY <1>1, <1>2 DEF QueriesOK
  <2>2. CASE objects'[i] = objects[i]
    BY <2>1, <2>2
  <2>3. CASE IsDescribed(objects[i]) /\ objects'[i] = WithRelationships(objects[i], linked[objects[i].name])
    BY <1>5, <2>1, <2>3, KeysJoinQuery DEF IsDescribed
  <2>4. QED
    BY <1>1, <2>2, <2>3
<1>10. DOMAIN objects' = DOMAIN objects
  BY <1>1
<1> HIDE DEF linked
<1>11. DescribesOK'
  <2>1. \A i \in DOMAIN objects' : IsKnown(objects'[i], describes', OrgSides)
    BY <1>2, <1>3, <1>7, <1>9, <1>10 DEF DescribesOK, IsKnown, Sides
  <2>2. QED
    BY <1>3, <1>4, <1>8, <2>1 DEF DescribesOK
<1>12. QueriesOK'
  BY <1>1, <1>3, <1>9, <1>10 DEF QueriesOK
<1>13. \A i \in DOMAIN objects' : objects'[i].stage # "ready" /\ objects'[i].stage \in {"none", "done"}
  BY <1>5, <1>9, <1>10
<1>14. StagesOK' /\ NewcomersOK'
  BY <1>1, <1>2, <1>13 DEF StagesOK, NewcomersOK, LateDescribe, BeforeLink
<1>15. LookupsOK'
  <2>1. SUFFICES ASSUME NEW k \in Active(objects'), NEW f \in LookupFields(objects'[k], ReadSide),
                        NEW n, NEW d, n = objects'[k].name, d = describes'[ReadSide][n]
                 PROVE  LookupOK(n, d, f)'
    BY <1>1, LookupsFollow
  <2>2. /\ k \in DOMAIN objects /\ k \in Active(objects) /\ f \in LookupsOf(objects[k]) /\ n = objects[k].name
        /\ IsDescribed(objects[k])
    BY <1>9, <1>10, <2>1, LookupsOfQuery DEF Active, LookupFields, IsDescribed
  <2>3. /\ n \in DOMAIN describes[ReadSide] /\ f \in FieldsOf(ReadSide, n) /\ To(ReadSide, n, f) # <<>>
    BY <1>2, <2>2, LookupIsKnown
  <2>4. d = Linked(describes[ReadSide][n], n)
    BY <1>7, <2>1, <2>2, <2>3 DEF linked
  <2>5. f \in DOMAIN describes[ReadSide][n]
    BY <1>6, <2>3 DEF IsDescribe
  <2>6. d[f].ref = describes[ReadSide][n][f].ref /\ d[f].poly = describes[ReadSide][n][f].poly /\ IsLinked(d, f)
    BY <1>2, <1>5, <1>6, <2>3, <2>4, <2>5, LinkedDescribe
  <2>7. IsCovered(n, describes[ReadSide][n], f)
    BY <1>1, <1>2, <2>2 DEF LookupsOK, LookupOK, DescribeOf
  <2>8. IsCovered(n, d, f)
    BY <2>6, <2>7 DEF IsCovered, OneTarget
  <2>9. AllNames' = AllNames /\ ActiveNames' \subseteq ActiveNames
    BY <1>1, <1>9, <1>10, NamesStay
  <2>10. IsCovered(n, d, f)' /\ IsLinked(d, f)'
    BY <1>1, <2>6, <2>8, <2>9, LookupStays
  <2>11. QED
    BY <1>1, <2>10 DEF LookupOK, Settled
<1>16. QED
  BY <1>1, <1>2, <1>11, <1>12, <1>13, <1>14, <1>15, ValidStays, NothingReady DEF SoundInv

-----------------------------------------------------------------------------
(* Tasks.                                                                  *)

\* Tasks are created.
LEMMA CreationSound ==
  ASSUME SetOK, SoundInv, CreateTasks
  PROVE  SoundInv'
<1>1. phase = "tasks" /\ phase' = "preflight" /\ UNCHANGED <<script, set, outcomes, objects, describes, round>>
  BY DEF CreateTasks, UnchangedRun
<1>2. /\ BeforeLink' <=> BeforeLink
      /\ AfterLink' => AfterLink
      /\ Settled' => Settled
      /\ ~LateDescribe'
  BY <1>1 DEF BeforeLink, AfterLink, LateDescribe, Settled
<1>3. StagesOK'
  BY <1>1, <1>2 DEF SoundInv, StagesOK
<1>4. QED
  BY <1>1, <1>2, <1>3, PhaseSound

\* The key of a parent joins its query.
LEMMA KeyIsQueried ==
  ASSUME NEW o, IsObject(o), o.stage \in Described \/ o.stage \in {"source", "target"} \/ o.excluded
  PROVE  LET n == [o EXCEPT !.fields = @ \cup {o.externalId}] IN
         /\ IsObject(n) /\ n.name = o.name /\ n.stage = o.stage /\ n.missing = o.missing
         /\ n.excluded = o.excluded /\ n.externalId = o.externalId
         /\ n.fields = o.fields \cup {o.externalId}
         /\ \A barred : QueryOK(o, barred, ReadSide, OrgSides) => QueryOK(n, barred, ReadSide, OrgSides)
<1> DEFINE n == [o EXCEPT !.fields = @ \cup {o.externalId}]
<1>1. /\ IsObject(n) /\ n.name = o.name /\ n.stage = o.stage /\ n.missing = o.missing
      /\ n.excluded = o.excluded /\ n.externalId = o.externalId /\ n.all = o.all /\ n.via = o.via
      /\ n.excludedFields = o.excludedFields /\ n.defaultId = o.defaultId /\ n.operation = o.operation
      /\ n.fromSource = o.fromSource
      /\ n.fields = o.fields \cup {o.externalId}
  BY DEF IsObject, ObjectFields
<1> HIDE DEF n
<1>2. ASSUME NEW barred, FromEntry(o, barred) PROVE FromEntry(n, barred)
  BY <1>1, <1>2 DEF FromEntry, Rejoined
<1>3. AsSetUp(o) => AsSetUp(n)
  BY <1>1 DEF AsSetUp
<1>4. AsDescribed(o, ReadSide, OrgSides) => AsDescribed(n, ReadSide, OrgSides)
  BY <1>1 DEF AsDescribed
<1>5. QED
  BY <1>1, <1>2, <1>3, <1>4 DEF QueryOK, n

\* A task is prepared: the parents its lookups are linked to get their keys.
LEMMA PreparationSound ==
  ASSUME SetOK, ObjectsOK, SoundInv, NEW i \in DOMAIN objects, PrepareTask(i)
  PROVE  SoundInv'
<1> DEFINE o == objects[i]
           keyed == [j \in DOMAIN objects |->
                       IF j \in LinkedParents(o) THEN [objects[j] EXCEPT !.fields = @ \cup {objects[j].externalId}]
                                                ELSE objects[j]]
<1>0. script' = script
  BY DEF PrepareTask, UnchangedRun
<1>1. /\ phase = "preflight" /\ phase' = phase /\ UNCHANGED <<script, set, outcomes, describes, round, resume>>
      /\ i \in Active(objects) /\ o.stage = "done"
      /\ objects' = [keyed EXCEPT ![i] = [WithRelationships(@, DescribeOf(o)) EXCEPT !.stage = "ready"]]
  BY DEF PrepareTask, UnchangedRun
<1>2. DescribesOK /\ QueriesOK /\ StagesOK /\ QueriesAreValid /\ ParentsHaveKeys
  BY DEF SoundInv
<1>3. /\ ReadSide' = ReadSide /\ OrgSides' = OrgSides /\ \A k, n : Barred(k, n)' = Barred(k, n)
  BY <1>1, SidesStay
<1>4. ASSUME NEW j \in DOMAIN objects
      PROVE  /\ IsObject(objects[j]) /\ StageOK(objects[j], script)
             /\ QueryOK(objects[j], Barred(set, objects[j].name), ReadSide, OrgSides)
  BY <1>1, <1>2 DEF ObjectsOK, ObjectOK, QueriesOK
<1>5. ASSUME NEW j \in DOMAIN objects
      PROVE  /\ IsObject(keyed[j]) /\ keyed[j].name = objects[j].name /\ keyed[j].stage = objects[j].stage
             /\ keyed[j].missing = objects[j].missing /\ keyed[j].excluded = objects[j].excluded
             /\ keyed[j].externalId = objects[j].externalId
             /\ objects[j].fields \subseteq keyed[j].fields
             /\ keyed[j].fields \subseteq objects[j].fields \cup {objects[j].externalId}
             /\ j \in LinkedParents(o) => objects[j].externalId \in keyed[j].fields
             /\ QueryOK(keyed[j], Barred(set, objects[j].name), ReadSide, OrgSides)
  <2>1. CASE j \in LinkedParents(o)
    <3>1. objects[j].stage \in Described \/ objects[j].stage \in {"source", "target"} \/ objects[j].excluded
      BY <1>4 DEF StageOK
    <3>2. keyed[j] = [objects[j] EXCEPT !.fields = @ \cup {objects[j].externalId}]
      BY <2>1
    <3> HIDE DEF keyed
    <3>3. QED
      BY <1>4, <3>1, <3>2, KeyIsQueried
  <2>2. CASE j \notin LinkedParents(o)
    BY <1>4, <2>2
  <2>3. QED
    BY <2>1, <2>2
<1>6. DOMAIN keyed = DOMAIN objects
  OBVIOUS
<1> HIDE DEF keyed
<1>7. DOMAIN objects' = DOMAIN objects
  BY <1>1, <1>6
<1>8. ASSUME NEW j \in DOMAIN objects
      PROVE  LET n == objects'[j] IN
             /\ n.name = objects[j].name /\ n.missing = objects[j].missing
             /\ n.excluded = objects[j].excluded /\ n.externalId = objects[j].externalId
             /\ n.stage = IF j = i THEN "ready" ELSE objects[j].stage
             /\ n.fields = keyed[j].fields
             /\ QueryOK(n, Barred(set, objects[j].name), ReadSide, OrgSides)
  <2>1. CASE j # i
    BY <1>1, <1>5, <1>6, <2>1
  <2>2. CASE j = i
    <3> DEFINE w == WithRelationships(keyed[i], DescribeOf(o))
    <3>1. objects'[i] = [w EXCEPT !.stage = "ready"]
      BY <1>1, <1>6
    <3>2. keyed[i].stage \in {"done", "ready"}
      BY <1>1, <1>5
    <3>3. /\ IsObject(w) /\ w.name = o.name /\ w.missing = o.missing /\ w.excluded = o.excluded
          /\ w.externalId = o.externalId /\ w.fields = keyed[i].fields /\ w.stage = "done"
          /\ QueryOK(w, Barred(set, o.name), ReadSide, OrgSides)
      <4>1. IsObject(w)
        BY <1>5 DEF WithRelationships, IsObject
      <4>2. QED
        BY <1>1, <1>5, <3>2, <4>1, KeysJoinQuery
    <3> HIDE DEF w
    <3> DEFINE n == [w EXCEPT !.stage = "ready"]
    <3>4. /\ n.name = o.name /\ n.missing = o.missing /\ n.excluded = o.excluded /\ n.externalId = o.externalId
          /\ n.fields = keyed[i].fields /\ n.stage = "ready"
          /\ n.via = w.via /\ n.excludedFields = w.excludedFields /\ n.all = w.all /\ n.fields = w.fields
      BY <3>3 DEF IsObject, ObjectFields
    <3> HIDE DEF n
    <3>5. AsDescribed(w, ReadSide, OrgSides) => AsDescribed(n, ReadSide, OrgSides)
      BY <3>3, <3>4 DEF AsDescribed
    <3>6. FromEntry(w, Barred(set, o.name)) => FromEntry(n, Barred(set, o.name))
      BY <3>3, <3>4 DEF FromEntry, Rejoined
    <3>7. QueryOK(n, Barred(set, o.name), ReadSide, OrgSides)
      BY <3>3, <3>4, <3>5, <3>6 DEF QueryOK, Described
    <3>8. QED
      BY <2>2, <3>1, <3>4, <3>7 DEF n
  <2>3. QED
    BY <2>1, <2>2
<1>9. DescribesOK'
  <2>1. LastLinked' = LastLinked
    BY <1>1 DEF LastLinked, BeforeLink
  <2>2. \A j \in DOMAIN objects' : IsKnown(objects'[j], describes, OrgSides)
    BY <1>1, <1>2, <1>7, <1>8 DEF DescribesOK, IsKnown, Described
  <2>3. QED
    BY <1>1, <1>2, <1>3, <2>1, <2>2 DEF DescribesOK
<1>10. QueriesOK'
  BY <1>1, <1>3, <1>7, <1>8 DEF QueriesOK
<1>11. StagesOK' /\ NewcomersOK'
  BY <1>1, <1>2 DEF StagesOK, NewcomersOK, LateDescribe, BeforeLink
<1>12. LookupsOK'
  BY <1>1, LookupsFollow DEF LookupOK, AfterLink, Settled, LateDescribe
<1>13. QueriesAreValid'
  BY <1>1, <1>2, ValidStays
<1>14. ParentsHaveKeys'
  <2>1. SUFFICES ASSUME NEW k \in Active(objects'), objects'[k].stage = "ready",
                        NEW f \in LookupFields(objects'[k], ReadSide), f # objects'[k].externalId,
                        NEW j \in DOMAIN objects',
                        DescribeOf(objects'[k])[f].parent.set = set,
                        DescribeOf(objects'[k])[f].parent.name = objects'[j].name
                 PROVE  objects'[j].externalId \in objects'[j].fields
    <3>1. \A m : LookupsOf(objects[m])' = LookupFields(objects'[m], ReadSide)
      BY <1>0, LookupsOfQuery
    <3>2. \A k : DescribeOf(objects[k])' = DescribeOf(objects'[k])
      BY <1>1, <1>3 DEF DescribeOf
    <3>3. QED
      BY <1>1, <3>1, <3>2 DEF ParentsHaveKeys, Active
  <2>2. k \in DOMAIN objects /\ j \in DOMAIN objects /\ k \in Active(objects)
    BY <1>7, <1>8 DEF Active
  <2>3. f \in LookupsOf(objects[k]) \ {objects[k].externalId}
    <3>1. IsDescribed(objects[k]) \/ k = i
      BY <1>8, <2>1, <2>2 DEF LookupFields, IsDescribed
    <3>2. IsDescribed(objects[k])
      BY <1>1, <1>8, <2>1, <2>2, <3>1 DEF LookupFields, IsDescribed
    <3>3. f \in objects[k].fields \cap FieldsOf(ReadSide, objects[k].name) /\ To(ReadSide, objects[k].name, f) # <<>>
      BY <1>5, <1>8, <2>1, <2>2 DEF LookupFields
    <3>4. QED
      BY <1>8, <2>1, <2>2, <3>2, <3>3, LookupsOfQuery DEF LookupFields
  <2>4. DescribeOf(objects[k])[f].parent.set = set /\ DescribeOf(objects[k])[f].parent.name = objects[j].name
    BY <1>8, <2>1, <2>2 DEF DescribeOf
  <2>5. CASE k = i
    <3>1. j \in LinkedParents(o)
      BY <2>2, <2>3, <2>4, <2>5 DEF LinkedParents
    <3>2. QED
      BY <1>5, <1>8, <2>2, <3>1
  <2>6. CASE k # i
    <3>1. objects[k].stage = "ready"
      BY <1>8, <2>1, <2>2, <2>6
    <3>2. objects[j].externalId \in objects[j].fields
      BY <1>2, <2>2, <2>3, <2>4, <3>1 DEF ParentsHaveKeys
    <3>3. QED
      BY <1>5, <1>8, <2>2, <3>2
  <2>7. QED
    BY <2>5, <2>6
<1>15. QED
  BY <1>9, <1>10, <1>11, <1>12, <1>13, <1>14 DEF SoundInv

\* The query of a task that is ready is valid.
LEMMA ReadyIsValid ==
  ASSUME SetOK, QueriesOK, phase = "preflight", NEW i \in Active(objects), objects[i].stage = "ready"
  PROVE  LET t == Outcome(objects[i])
             barred == Barred(set, t.name) IN
         /\ "Id" \in t.fields \cup barred
         /\ barred \cap t.fields \subseteq {t.externalId} \cup (IF t.name \in UserGroup THEN {"Id"} ELSE {})
         /\ \/ t.externalId \in t.fields \cup barred
            \/ \E side \in OrgSides : To(side, t.name, t.externalId) # <<>>
         /\ \A side \in OrgSides : t.fields \subseteq FieldsOf(side, t.name)
         /\ {v[1] : v \in t.via} \subseteq t.fields
<1> DEFINE o == objects[i]
           t == Outcome(o)
           barred == Barred(set, o.name)
<1>1. t.name = o.name /\ t.fields = o.fields /\ t.externalId = o.externalId /\ t.via = o.via
  BY DEF Outcome
<1>2. i \in DOMAIN objects /\ ~o.excluded /\ QueryOK(o, barred, ReadSide, OrgSides)
  BY DEF Active, QueriesOK
<1>3. FromEntry(o, barred) /\ AsDescribed(o, ReadSide, OrgSides)
  BY <1>2 DEF QueryOK, Described
<1>4. ReadSide \in OrgSides
  BY OrgsOfScript DEF SetOK
<1> HIDE DEF t, barred
<1>5. "Id" \in o.fields \cup barred /\ (o.externalId \in o.fields \cup barred \/ To(ReadSide, o.name, o.externalId) # <<>>)
  BY <1>3 DEF FromEntry, AsDescribed
<1>6. barred \cap o.fields \subseteq {o.externalId} \cup (IF o.name \in UserGroup THEN {"Id"} ELSE {})
  BY <1>3 DEF FromEntry, AsDescribed, Rejoined
<1>7. (\A side \in OrgSides : o.fields \subseteq FieldsOf(side, o.name)) /\ {v[1] : v \in o.via} \subseteq o.fields
  BY <1>3 DEF AsDescribed
<1>8. QED
  BY <1>1, <1>4, <1>5, <1>6, <1>7 DEF t, barred

\* A set is done.
LEMMA SetDoneSound ==
  ASSUME SetOK, ObjectsOK, SoundInv, SetDone
  PROVE  SoundInv'
<1> DEFINE tasks == {Outcome(objects[i]) : i \in Active(objects)}
<1>1. /\ phase = "preflight" /\ \A i \in Active(objects) : objects[i].stage = "ready"
      /\ outcomes' = Append(outcomes, tasks) /\ UNCHANGED <<script, objects, describes, resume, round>>
      /\ \/ phase' = "load" /\ set' = set + 1
         \/ phase' = "ended" /\ set' = set
  BY DEF SetDone
<1>2. DescribesOK /\ QueriesOK /\ StagesOK /\ QueriesAreValid /\ ParentsHaveKeys /\ set \in Nat /\ set >= 1
  BY SetNumber DEF SoundInv
<1>3. /\ ReadSide' = ReadSide /\ OrgSides' = OrgSides /\ \A k, n : Barred(k, n)' = Barred(k, n)
  BY <1>1, SidesStay
<1>4. LastLinked = set /\ LastLinked' = set
  BY <1>1, <1>2 DEF LastLinked, BeforeLink
<1>5. DescribesOK' /\ QueriesOK' /\ StagesOK' /\ NewcomersOK'
  <2>1. DescribesOK'
    BY <1>1, <1>2, <1>3, <1>4 DEF DescribesOK
  <2>2. QueriesOK'
    BY <1>1, <1>2, <1>3 DEF QueriesOK
  <2>3. StagesOK' /\ NewcomersOK'
    BY <1>1, <1>2 DEF StagesOK, NewcomersOK, BeforeLink, LateDescribe
  <2>4. QED
    BY <2>1, <2>2, <2>3
<1>6. LookupsOK'
  BY <1>1, LookupsFollow DEF LookupOK, AfterLink, Settled, LateDescribe
<1>7. ParentsHaveKeys'
  <2>1. /\ \A i : LookupsOf(objects[i])' = LookupsOf(objects[i])
        /\ \A i : DescribeOf(objects[i])' = DescribeOf(objects[i])
    BY <1>1, <1>3, LookupsOfQuery DEF DescribeOf
  <2>2. CASE set' = set
    BY <1>1, <1>2, <2>1, <2>2 DEF ParentsHaveKeys, Active
  <2>3. CASE set' = set + 1
    <3>1. ASSUME NEW i \in Active(objects), NEW f \in LookupsOf(objects[i])
          PROVE  DescribeOf(objects[i])[f].parent.set # set + 1
      <4> DEFINE parent == DescribeOf(objects[i])[f].parent
      <4>1. parent = NoParent \/ parent.set \in 1 .. LastLinked
        BY <1>2, LookupIsKnown
      <4> HIDE DEF parent
      <4>2. parent.set # set + 1
        BY <1>2, <1>4, <4>1 DEF NoParent
      <4>3. QED
        BY <4>2 DEF parent
    <3>2. QED
      BY <1>1, <2>1, <2>3, <3>1 DEF ParentsHaveKeys, Active
  <2>4. QED
    BY <1>1, <2>2, <2>3
<1>8. QueriesAreValid'
  <2>1. \A k, n : EntriesFor(k, n)' = EntriesFor(k, n)
    BY <1>1 DEF EntriesFor
  <2> DEFINE IsValid(p) ==
        LET t == p[2]
            barred == Barred(p[1], t.name) IN
        /\ "Id" \in t.fields \cup barred
        /\ barred \cap t.fields \subseteq {t.externalId} \cup (IF t.name \in UserGroup THEN {"Id"} ELSE {})
        /\ \/ t.externalId \in t.fields \cup barred
           \/ \E side \in OrgSides : To(side, t.name, t.externalId) # <<>>
        /\ \A side \in OrgSides : t.fields \subseteq FieldsOf(side, t.name)
        /\ {v[1] : v \in t.via} \subseteq t.fields
  <2>2. \A p \in Finished : IsValid(p)
    BY <1>2 DEF QueriesAreValid, Barred
  <2>3. \A t \in tasks : IsValid(<<set, t>>)
    <3> SUFFICES ASSUME NEW i \in Active(objects) PROVE IsValid(<<set, Outcome(objects[i])>>)
      OBVIOUS
    <3>1. objects[i].stage = "ready"
      BY <1>1
    <3>2. QED
      BY <1>1, <1>2, <3>1, ReadyIsValid
  <2>4. \A p \in Finished' : p \in Finished \/ \E t \in tasks : p = <<set, t>>
    <3> HIDE DEF tasks
    <3>1. IsSeq(outcomes) /\ Len(outcomes) = set - 1
      BY <1>1 DEF SetOK
    <3>2. /\ DOMAIN outcomes' = 1 .. set /\ outcomes'[set] = tasks
          /\ \A k \in 1 .. set - 1 : k \in DOMAIN outcomes /\ outcomes'[k] = outcomes[k]
      <4>1. outcomes \in Seq(ToSet(outcomes) \cup {tasks})
        BY <3>1 DEF IsSeq
      <4>2. QED
        BY <1>1, <1>2, <3>1, <4>1, AppendProperties
    <3>3. ASSUME NEW p \in Finished' PROVE p \in Finished \/ \E t \in tasks : p = <<set, t>>
      <4>1. PICK k \in DOMAIN outcomes' : \E t \in outcomes'[k] : p = <<k, t>>
        BY <3>3 DEF Finished
      <4>2. CASE k = set
        BY <3>2, <4>1, <4>2
      <4>3. CASE k # set
        <5>1. k \in DOMAIN outcomes /\ outcomes'[k] = outcomes[k]
          BY <1>2, <3>2, <4>1, <4>3
        <5>2. QED
          BY <4>1, <5>1 DEF Finished
      <4>4. QED
        BY <4>2, <4>3
    <3>4. QED
      BY <3>3
  <2> HIDE DEF tasks, IsValid
  <2>5. \A p \in Finished' : IsValid(p)
    BY <2>2, <2>3, <2>4
  <2>6. QED
    BY <1>3, <2>1, <2>5 DEF QueriesAreValid, IsValid, Barred
<1>9. QED
  BY <1>5, <1>6, <1>7, <1>8 DEF SoundInv

-----------------------------------------------------------------------------
\* Every step keeps the tasks sound.
LEMMA StepSound ==
  ASSUME SetOK, ObjectsOK, SoundInv, Next
  PROVE  SoundInv'
<1>1. CASE LoadSet
  BY <1>1, LoadedSound
<1>2. CASE Describing
  <2>1. DescribesOK /\ QueriesOK /\ NewcomersOK
    BY DEF SoundInv
  <2>2. PICK i \in DOMAIN objects : DescribeSource(i) \/ DescribeTarget(i) \/ FixPolymorphic(i)
    BY <1>2, Zenon DEF Describing
  <2>3. OneDescribed(i)
    BY <2>1, <2>2, SourceDescribes, TargetDescribes, PolymorphicDescribes
  <2>4. QED
    BY <2>3, DescribedSound
<1>3. CASE DescribesDone
  BY <1>3, AllDescribedSound
<1>4. CASE AddParents
  BY <1>4, ParentsSound
<1>5. CASE Link
  BY <1>5, LinkSound
<1>6. CASE NormaliseOperations
  BY <1>6, OperationsSound
<1>7. CASE Exclude
  BY <1>7, ExclusionsSound
<1>8. CASE AddUserGroup
  BY <1>8, UsersSound
<1>9. CASE RemoveLookups
  BY <1>9, RemovalsSound
<1>10. CASE CreateTasks
  BY <1>10, CreationSound
<1>11. CASE \E i \in DOMAIN objects : PrepareTask(i)
  BY <1>11, PreparationSound
<1>12. CASE SetDone
  BY <1>12, SetDoneSound
<1>13. QED
  BY <1>1, <1>2, <1>3, <1>4, <1>5, <1>6, <1>7, <1>8, <1>9, <1>10, <1>11, <1>12 DEF Next

\* Nothing happens.
LEMMA SoundStutters ==
  ASSUME SoundInv, UNCHANGED vars
  PROVE  SoundInv'
<1>1. UNCHANGED <<script, set, objects, describes, phase, resume, round, outcomes>>
  BY DEF vars
<1>2. ReadSide' = ReadSide /\ OrgSides' = OrgSides /\ \A k, n : Barred(k, n)' = Barred(k, n)
  BY <1>1, SidesStay
<1>3. /\ LastLinked' = LastLinked /\ (BeforeLink' <=> BeforeLink) /\ (LateDescribe' <=> LateDescribe)
      /\ (AfterLink' <=> AfterLink) /\ (Settled' <=> Settled)
  BY <1>1 DEF LastLinked, BeforeLink, LateDescribe, AfterLink, Settled
<1>4. DescribesOK' /\ QueriesOK' /\ QueriesAreValid'
  BY <1>1, <1>2, <1>3, ValidStays DEF SoundInv, DescribesOK, QueriesOK
<1>5. StagesOK' /\ NewcomersOK'
  BY <1>1, <1>2, <1>3 DEF SoundInv, StagesOK, NewcomersOK
<1>6. LookupsOK'
  <2>1. SUFFICES ASSUME NEW k \in Active(objects'), NEW f \in LookupFields(objects'[k], ReadSide),
                        NEW n, NEW d, n = objects'[k].name, d = describes'[ReadSide][n]
                 PROVE  LookupOK(n, d, f)'
    BY <1>1, LookupsFollow
  <2>2. LookupOK(n, d, f)
    BY <1>1, <2>1, LookupsOfQuery DEF SoundInv, LookupsOK, DescribeOf
  <2>3. /\ AllNames' = AllNames /\ ActiveNames' = ActiveNames /\ DoneNames' = DoneNames
        /\ LoneNames' = LoneNames /\ ExcludedNames' = ExcludedNames
    BY <1>1 DEF AllNames, ActiveNames, ExcludedNames, DoneNames, LoneNames
  <2>4. /\ IsCovered(n, d, f) => IsCovered(n, d, f)'
        /\ IsLinked(d, f) => IsLinked(d, f)'
        /\ HasTask(n, d, f) => HasTask(n, d, f)'
    BY <1>1, <2>3, LookupStays
  <2>5. Stays(n, d, f) => Stays(n, d, f)'
    BY <1>2, <2>3 DEF Stays, UserGroupLookup
  <2>6. QED
    BY <1>1, <1>3, <2>2, <2>4, <2>5 DEF LookupOK
<1>7. ParentsHaveKeys'
  <2>1. /\ \A i : LookupsOf(objects[i])' = LookupsOf(objects[i])
        /\ \A i : DescribeOf(objects[i])' = DescribeOf(objects[i])
    BY <1>1, <1>2, LookupsOfQuery DEF DescribeOf
  <2>2. QED
    BY <1>1, <2>1 DEF SoundInv, ParentsHaveKeys, Active
<1>8. QED
  BY <1>4, <1>5, <1>6, <1>7 DEF SoundInv

\* Sound tasks: when they are created every lookup has its task.
LEMMA SoundTasks ==
  ASSUME SetOK, SoundInv
  PROVE  TasksAreSound
<1>1. ASSUME phase = "tasks", NEW i \in Active(objects), NEW f \in LookupsOf(objects[i])
      PROVE  LET d == DescribeOf(objects[i]) IN
             \/ UserGroupLookup(d, ReadSide, objects[i].name, f)
             \/ ~d[f].poly /\ ToSet(To(ReadSide, objects[i].name, f)) \cap UserGroup # {}
             \/ Targets(objects[i], f) \subseteq ActiveNames
             \/ d[f].parent.set \in 1 .. set - 1
             \/ round = 2 /\ \E j \in DOMAIN objects \ Active(objects) :
                               objects[j].name = ParentName(d, f) /\ OnlyId(objects[j])
  <2> DEFINE d == DescribeOf(objects[i])
  <2>1. HasTask(objects[i].name, d, f)
    BY <1>1 DEF SoundInv, LookupsOK, LookupOK, Settled
  <2>2. OneTarget(objects[i].name, d, f) => Targets(objects[i], f) = {d[f].ref}
    BY DEF OneTarget, Targets
  <2>3. DoneNames \subseteq ActiveNames
    BY DEF DoneNames, ActiveNames
  <2>4. QED
    BY <2>1, <2>2, <2>3 DEF HasTask, OneTarget, LoneNames
<1>2. LookupsHaveTasks
  BY <1>1 DEF LookupsHaveTasks
<1>3. QED
  BY <1>2 DEF TasksAreSound, SoundInv

\* The tasks of a set fit the orgs and each other, for any script, orgs and answers of
\* the describes: a query names fields the orgs have and none its entry excludes, a lookup
\* has its task, and the key of its parent is queried (MigrationJob.setupAsync,
\* MigrationJobTask._prepareTaskForPreflightAsync).
THEOREM TasksSound == Spec => []TasksAreSound
<1>1. Init => SoundInv
  <2> SUFFICES ASSUME Init PROVE SoundInv
    OBVIOUS
  <2>1. /\ phase = "load" /\ set = 1 /\ objects = <<>> /\ describes = [side \in Sides |-> <<>>]
        /\ outcomes = <<>> /\ round = 1
    BY DEF Init
  <2>2. DOMAIN objects = {} /\ Finished = {} /\ \A side \in Sides : DOMAIN describes[side] = {}
    BY <2>1 DEF Finished
  <2>3. DescribesOK /\ QueriesOK /\ StagesOK /\ NewcomersOK
    BY <2>1, <2>2 DEF DescribesOK, AreDescribes, QueriesOK, StagesOK, NewcomersOK, LateDescribe
  <2>4. LookupsOK /\ QueriesAreValid /\ ParentsHaveKeys
    BY <2>2 DEF LookupsOK, QueriesAreValid, ParentsHaveKeys, Active
  <2>5. QED
    BY <2>3, <2>4 DEF SoundInv
<1>2. SetupInv /\ SoundInv /\ [Next]_vars => SoundInv'
  BY StepSound, SoundStutters DEF SetupInv
<1>3. SetupInv /\ SoundInv => TasksAreSound
  BY SoundTasks DEF SetupInv
<1>4. QED
  BY <1>1, <1>2, <1>3, SetupHolds, PTL DEF Spec

-----------------------------------------------------------------------------
(***************************************************************************)
(* A cell keeps its value on each way through the files, for any text,     *)
(* types of columns and lower case of words.                               *)
(*                                                                         *)
(* The invariant says for each stage what the file or the record holds in  *)
(* terms of what the cell was given; reading is expanded only in lemmas    *)
(* about one text and one value.                                           *)
(***************************************************************************)

Empty == String(Plain(Word("")))

\* What the file and the cache hold.
RawText == IF cell.from = "user" THEN cell.given ELSE TextOf(cell.given)
RawLine == Line(RawText, cell.delimiter, cell.quoted)
CacheHolds(v) ==
  IF IsBlank(RawText) THEN v = IF cell.insertNulls THEN Nothing ELSE Empty
  ELSE IF IsNullToken(RawText) THEN v = Nothing
  ELSE v = String(WithoutReturns(RawText))
SourceHolds(l) ==
  \/ l = RawLine
  \/ \E v \in {Nothing, Empty, String(WithoutReturns(RawText))} :
       CacheHolds(v) /\ l = Line(TextOf(v), Comma, TRUE)

CellInv ==
  /\ cell \in Cells
  /\ stage \in {"org", "raw", "cache", "source", "job"}
  /\ stage = "org" => cell.from = "org" /\ value = cell.given
  /\ stage \in {"raw", "cache"} => line = RawLine
  /\ stage = "cache" => CacheHolds(value)
  /\ stage = "source" => SourceHolds(line)
  /\ ValuesKept

-----------------------------------------------------------------------------
(* Texts.                                                                  *)

\* Reading drops carriage returns, and nothing else of a text.
LEMMA BaseText ==
  ASSUME NEW text, IsText(text)
  PROVE  /\ IsText(WithoutReturns(text)) /\ WithoutReturns(text).core = text.core /\ WithoutReturns(WithoutReturns(text)) = WithoutReturns(text)
         /\ ~text.returns => WithoutReturns(text) = text
<1> DEFINE short == WithoutReturns(text)
<1>1. text = Text(text.core, text.pad, text.returns, text.special) /\ text.returns \in BOOLEAN
  BY DEF IsText
<1>2. /\ short = Text(short.core, short.pad, short.returns, short.special)
      /\ short.core = text.core /\ short.pad = text.pad
      /\ short.special = text.special /\ short.returns = FALSE
  BY DEF WithoutReturns, Text
<1>3. WithoutReturns(short) = short
  BY <1>2 DEF WithoutReturns
<1>4. ~text.returns => short = text
  BY <1>1 DEF WithoutReturns
<1> HIDE DEF short
<1>5. IsText(short)
  BY <1>2 DEF IsText
<1> QED BY <1>2, <1>3, <1>4, <1>5 DEF short

\* Plain words are texts without carriage returns.
LEMMA PlainText ==
  ASSUME NEW w
  PROVE  /\ IsText(Plain(Word(w))) /\ WithoutReturns(Plain(Word(w))) = Plain(Word(w))
         /\ Plain(Word(w)).core = Word(w) /\ Word(w).is = "word" /\ Word(w).word = w
<1>1. Word(w).is = "word" /\ Word(w).word = w
  BY DEF Word
<1>2. \A c : /\ Plain(c) = Text(c, FALSE, FALSE, {}) /\ Plain(c).core = c /\ Plain(c).pad = FALSE
            /\ Plain(c).returns = FALSE /\ Plain(c).special = {}
  BY DEF Plain, Text
<1>3. IsText(Plain(Word(w)))
  BY <1>1, <1>2 DEF IsText
<1> QED BY <1>1, <1>2, <1>3, BaseText

\* The values of records differ in what they are.
LEMMA Kinds ==
  /\ Nothing.is = "null" /\ \A b : Boolean(b).is = "boolean" /\ Boolean(b).value = b
  /\ \A n : Number(n).is = "number" /\ Number(n).value = n
  /\ \A t : String(t).is = "string" /\ String(t).value = t
BY DEF Nothing, Boolean, Number, String

\* What is written for each kind of value.
LEMMA Written ==
  /\ TextOf(Nothing) = Plain(Word(IF cell.insertNulls THEN "#N/A" ELSE ""))
  /\ TextOf(Boolean(TRUE)) = Plain(Word("true")) /\ TextOf(Boolean(FALSE)) = Plain(Word("false"))
  /\ \A n : TextOf(Number(n)) = Plain(Word(Digits[n]))
  /\ \A t : TextOf(String(t)) = t
<1>1. TextOf(Nothing) = Plain(Word(IF cell.insertNulls THEN "#N/A" ELSE ""))
  BY Kinds DEF TextOf
<1>2. TextOf(Boolean(TRUE)) = Plain(Word("true"))
  BY Kinds DEF TextOf
<1>3. TextOf(Boolean(FALSE)) = Plain(Word("false"))
  BY Kinds DEF TextOf
<1>4. ASSUME NEW n PROVE TextOf(Number(n)) = Plain(Word(Digits[n]))
  BY Kinds DEF TextOf
<1>5. ASSUME NEW t PROVE TextOf(String(t)) = t
  BY Kinds DEF TextOf
<1> QED BY <1>1, <1>2, <1>3, <1>4, <1>5

\* Quoted where it has to be, a cell is parsed as it was written.
LEMMA ParsedAsWritten ==
  ASSUME NEW text, NEW delimiter, NEW always
  PROVE  Parsed(Line(text, delimiter, always), delimiter) = text
BY DEF Parsed, Line

\* Parsing needs nothing but the delimiter the file was written with.
LEMMA LineParts ==
  ASSUME NEW text, NEW delimiter, NEW always
  PROVE  Line(text, delimiter, always).delimiter = delimiter
BY DEF Line

\* What is in a file was written from a text.
LEMMA RawIsText == cell \in Cells => IsText(RawText)
<1> SUFFICES ASSUME cell \in Cells PROVE IsText(RawText)
  OBVIOUS
<1>1. IsCell(cell)
  BY CellAssumption
<1>2. CASE cell.from = "user"
  BY <1>1, <1>2 DEF IsCell, RawText
<1>3. CASE cell.from # "user"
  <2>1. RawText = TextOf(cell.given) /\ IsOrgValue(cell.given, cell.column)
    BY <1>1, <1>3 DEF IsCell, RawText
  <2>2. CASE cell.given = Nothing
    BY <2>1, <2>2, PlainText, Written
  <2>3. CASE cell.given \in {Boolean(TRUE), Boolean(FALSE)}
    BY <2>1, <2>3, PlainText, Written
  <2>4. CASE cell.given \in {Number(n) : n \in DOMAIN Digits}
    <3>1. PICK n \in DOMAIN Digits : cell.given = Number(n)
      BY <2>4
    <3>2. RawText = Plain(Word(Digits[n]))
      BY <2>1, <3>1, Written
    <3> QED BY <3>2, PlainText
  <2>5. CASE cell.given = String(cell.given.value) /\ IsText(cell.given.value)
    <3>1. TextOf(cell.given) = cell.given.value
      BY <2>5, Written
    <3> QED BY <2>1, <2>5, <3>1
  <2> QED BY <2>1, <2>2, <2>3, <2>4, <2>5 DEF IsOrgValue
<1> QED BY <1>2, <1>3

-----------------------------------------------------------------------------
(* Reading.                                                                *)

\* The three ways in which a text is read.
LEMMA ReadText ==
  ASSUME NEW text, NEW types
  PROVE  /\ IsBlank(text) => Read(text, types) = IF cell.insertNulls THEN Nothing ELSE Empty
         /\ ~IsBlank(text) /\ IsNullToken(text) => Read(text, types) = Nothing
         /\ ~IsBlank(text) /\ ~IsNullToken(text) =>
              Read(text, types) = IF types = {} THEN String(WithoutReturns(text))
                                  ELSE Cast(WithoutReturns(text), The(types))
BY DEF Read, Empty

\* Carriage returns make no difference to a reader.
LEMMA ReadWithoutReturns ==
  ASSUME NEW text, IsText(text), NEW types
  PROVE  Read(WithoutReturns(text), types) = Read(text, types)
<1>1. /\ IsBlank(WithoutReturns(text)) <=> IsBlank(text)
      /\ IsNullToken(WithoutReturns(text)) <=> IsNullToken(text)
  BY BaseText DEF IsBlank, IsNullToken
<1> QED BY <1>1, BaseText, ReadText

\* What is written for no value is read as no value.
LEMMA ReadNothing ==
  ASSUME NEW types
  PROVE  /\ Read(Plain(Word("#N/A")), types) = Nothing
         /\ Read(Plain(Word("")), types) = IF cell.insertNulls THEN Nothing ELSE Empty
<1>1. IsBlank(Plain(Word("")))
  BY PlainText DEF IsBlank
<1>2. ~IsBlank(Plain(Word("#N/A")))
  <2>1. Word("#N/A").word = "#N/A" /\ Word("").word = ""
    BY DEF Word
  <2>2. Plain(Word("#N/A")).core = Word("#N/A")
    BY PlainText
  <2> QED BY <2>1, <2>2 DEF IsBlank
<1>3. IsNullToken(Plain(Word("#N/A")))
  BY PlainText, WordAssumption DEF IsNullToken, NullTokens
<1> QED BY <1>1, <1>2, <1>3, ReadText

\* The cache holds what an untyped reading gives.
LEMMA ReadIntoCache == CacheHolds(Read(RawText, {}))
BY ReadText DEF CacheHolds

\* Nothing is null or the empty text.
LEMMA Nothings == IsNothing(Nothing) /\ IsNothing(Empty) /\ Nothing # Empty
BY Kinds DEF IsNothing, Empty

\* Whatever is in the source directory, the job reads what it would have read from the
\* raw file, up to the kind of nothing.
LEMMA ReadFromSource ==
  ASSUME cell \in Cells, SourceHolds(line), line.delimiter = Comma, NEW types
  PROVE  LET read == Read(Parsed(line, Comma), types)
             direct == Read(RawText, types)
         IN  read = direct \/ (~cell.insertNulls /\ IsNothing(read) /\ IsNothing(direct))
<1>1. CASE line = RawLine
  <2>1. Parsed(line, Comma) = RawText
    BY <1>1, LineParts, ParsedAsWritten DEF RawLine
  <2> QED BY <2>1
<1>2. ASSUME NEW v \in {Nothing, Empty, String(WithoutReturns(RawText))},
             CacheHolds(v), line = Line(TextOf(v), Comma, TRUE)
      PROVE  LET read == Read(Parsed(line, Comma), types)
                 direct == Read(RawText, types)
             IN  read = direct \/ (~cell.insertNulls /\ IsNothing(read) /\ IsNothing(direct))
  <2>1. Parsed(line, Comma) = TextOf(v)
    BY <1>2, ParsedAsWritten
  <2>2. CASE IsBlank(RawText)
    <3>1. v = IF cell.insertNulls THEN Nothing ELSE Empty
      BY <1>2, <2>2 DEF CacheHolds
    <3>2. TextOf(v) = IF cell.insertNulls THEN Plain(Word("#N/A")) ELSE Plain(Word(""))
      BY <3>1, Written DEF Empty
    <3> QED BY <2>1, <2>2, <3>2, ReadText, ReadNothing
  <2>3. CASE ~IsBlank(RawText) /\ IsNullToken(RawText)
    <3>1. v = Nothing
      BY <1>2, <2>3 DEF CacheHolds
    <3>2. TextOf(v) = IF cell.insertNulls THEN Plain(Word("#N/A")) ELSE Plain(Word(""))
      BY <3>1, Written
    <3> QED BY <2>1, <2>3, <3>2, ReadText, ReadNothing, Nothings
  <2>4. CASE ~IsBlank(RawText) /\ ~IsNullToken(RawText)
    <3>1. TextOf(v) = WithoutReturns(RawText)
      BY <1>2, <2>4, Written DEF CacheHolds
    <3> QED BY <2>1, <3>1, RawIsText, ReadWithoutReturns
  <2> QED BY <2>2, <2>3, <2>4
<1> QED BY <1>1, <1>2 DEF SourceHolds

-----------------------------------------------------------------------------
(* Casting.                                                                *)

\* A set of one has its member.
LEMMA Member == ASSUME NEW S, S # {} PROVE The(S) \in S
BY DEF The

\* Days that a month does not have are carried over, and so are not valid.
LEMMA ValidDays ==
  ASSUME NEW y, NEW m, NEW d, IsValidDate(y, m, d)
  PROVE  d <= DaysIn(y, m)
<1>1. CASE ~(d <= DaysIn(y, m))
  <2>1. (m % 12) + 1 = m /\ m \in 1..12
    BY <1>1 DEF IsValidDate, Utc
  <2> QED BY <2>1
<1> QED BY <1>1

\* Two digits are completed to a year that ends in them.
LEMMA YearsKept ==
  ASSUME NEW y \in Nat
  PROVE  FullYear(y) \in Nat /\ FullYear(y) % 100 = y % 100 /\ (y >= 100 => FullYear(y) = y)
BY DEF FullYear

\* A date is only ever recognised as the day it says.
LEMMA DatesMeant ==
  ASSUME NEW text, IsText(text), text.core.is = "dots", NEW types,
         LET v == Read(text, types) IN v.is = "string" /\ v.value.core.is = "iso"
  PROVE  SameDate(Read(text, types).value.core, text.core)
<1> DEFINE core == text.core
           v == Read(text, types)
           year == FullYear(core.year)
<1>1. {core.day, core.month, core.year} \subseteq Nat
  BY DEF IsText
<1>2. ~IsBlank(text) /\ ~IsNullToken(text)
  BY PlainText DEF IsBlank, IsNullToken
<1>3. WithoutReturns(text).core = core /\ String(WithoutReturns(text)).value.core.is = "dots"
  BY BaseText, Kinds
<1>4. types # {} /\ v = Cast(WithoutReturns(text), The(types))
  BY <1>2, <1>3, ReadText
<1>5. PICK type : type = The(types)
  OBVIOUS
<1>6. /\ Converted(core, type) # {}
      /\ v = String(Plain(The(Converted(core, type))))
  BY <1>3, <1>4, <1>5 DEF Cast
<1>7. Converted(core, type) \subseteq EuropeanDate(core) \cup EuropeanDateTime(core)
  BY DEF Converted
<1>8. PICK date \in EuropeanDate(core) \cup EuropeanDateTime(core) : v = String(Plain(date))
  BY <1>6, <1>7, Member
<1>9. /\ IsValidDate(year, core.month, core.day)
      /\ \E time : date = Iso(year, core.month, core.day, time)
  BY <1>8 DEF EuropeanDate, EuropeanDateTime
<1>10. v.value.core = date
  BY <1>8, Kinds DEF Plain, Text
<1>11. date.day = core.day /\ date.month = core.month /\ date.year = year
  BY <1>9 DEF Iso
<1> QED BY <1>1, <1>9, <1>10, <1>11, ValidDays, YearsKept DEF SameDate

\* A value that an org holds comes back from a file as it was, if its text does not
\* read like nothing.
LEMMA OrgValueKept ==
  ASSUME NEW v, NEW column, IsOrgValue(v, column)
  PROVE  LET read == Read(TextOf(v), TypeOf(column))
         IN  IF IsNothing(v) THEN IsNothing(read) ELSE Survives(v) => read = v
<1> DEFINE types == TypeOf(column)
           text == TextOf(v)
<1>1. CASE IsNothing(v)
  <2>1. text = Plain(Word("#N/A")) \/ text = Plain(Word(""))
    BY <1>1, Written DEF IsNothing
  <2> QED BY <1>1, <2>1, ReadNothing, Nothings
<1>2. CASE v \in {Boolean(TRUE), Boolean(FALSE)} /\ HasTypeIn(column, {"boolean"})
  <2>1. types # {} /\ The(types) = "boolean"
    BY <1>2, Member DEF HasTypeIn
  <2>2. PICK w \in {"true", "false"} : 
           /\ text = Plain(Word(w))
           /\ \/ w = "true" /\ v = Boolean(TRUE)
              \/ w = "false" /\ v = Boolean(FALSE)
    BY <1>2, Written
  <2>3. LowerWord(w) = w
    BY WordAssumption
  <2>4. text.core = Word(w) /\ Word(w).is = "word" /\ Word(w).word = w /\ WithoutReturns(text) = text
    BY <2>2, PlainText
  <2>5. ~IsBlank(text)
    BY <2>4, PlainText DEF IsBlank
  <2>6. ~IsNullToken(text)
    BY <2>3, <2>4 DEF IsNullToken, NullTokens
  <2>7. Read(text, types) = Cast(text, "boolean")
    BY <2>1, <2>4, <2>5, <2>6, ReadText
  <2>8. Cast(text, "boolean") = v
    <3>1. text.core.is = "word" /\ LowerWord(text.core.word) = w
      BY <2>3, <2>4
    <3> HIDE DEF text
    <3>2. w = "true" => Cast(text, "boolean") = Boolean(TRUE)
      BY <3>1 DEF Cast, TrueTokens, FalseTokens, NumericTypes
    <3>3. w = "false" => Cast(text, "boolean") = Boolean(FALSE)
      BY <3>1 DEF Cast, TrueTokens, FalseTokens, NumericTypes
    <3> QED BY <2>2, <3>2, <3>3
  <2>9. ~IsNothing(v)
    BY <2>2, Kinds DEF IsNothing
  <2> QED BY <2>7, <2>8, <2>9
<1>3. CASE v \in {Number(n) : n \in DOMAIN Digits} /\ HasTypeIn(column, NumericTypes)
  <2>1. types # {} /\ The(types) \in NumericTypes
    BY <1>3, Member DEF HasTypeIn
  <2>2. PICK n \in DOMAIN Digits : v = Number(n)
    BY <1>3
  <2>3. PICK word : word = LowerWord(Digits[n])
    OBVIOUS
  <2>4. word \in DOMAIN Numbers /\ Numbers[word] = n /\ word \notin NullTokens /\ Digits[n] # ""
    BY <2>3, NumberAssumption
  <2>5. text = Plain(Word(Digits[n]))
    BY <2>2, Written
  <2>6. /\ text.core = Word(Digits[n]) /\ text.core.is = "word" /\ text.core.word = Digits[n]
        /\ WithoutReturns(text) = text
    BY <2>5, PlainText
  <2>7. ~IsBlank(text)
    BY <2>4, <2>6, PlainText DEF IsBlank
  <2>8. ~IsNullToken(text)
    BY <2>3, <2>4, <2>6 DEF IsNullToken
  <2>9. PICK type \in NumericTypes : type = The(types) /\ type # "boolean"
    BY <2>1 DEF NumericTypes
  <2>10. Read(text, types) = Cast(text, type)
    BY <2>1, <2>6, <2>7, <2>8, <2>9, ReadText
  <2>11. Cast(text, type) = v
    BY <2>2, <2>3, <2>4, <2>6, <2>9 DEF Cast
  <2>12. ~IsNothing(v)
    BY <2>2, Kinds DEF IsNothing
  <2> QED BY <2>10, <2>11, <2>12
<1>4. CASE /\ v = String(v.value) /\ IsText(v.value) /\ ~IsNothing(v)
           /\ types \cap ({"boolean"} \cup NumericTypes) = {}
           /\ v.value.core.is = "dots" => types \cap {"date", "datetime"} = {}
  <2> SUFFICES ASSUME Survives(v) PROVE Read(text, types) = v
    BY <1>4
  <2>1. text = v.value
    BY <1>4, Written
  <2>2. ~IsBlank(text) /\ ~IsNullToken(text) /\ ~text.returns
    BY <1>4, <2>1, Kinds DEF Survives
  <2>3. WithoutReturns(text) = text /\ v = String(text)
    BY <1>4, <2>1, <2>2, BaseText
  <2>4. CASE types = {}
    BY <2>2, <2>3, <2>4, ReadText
  <2>5. CASE types # {}
    <3>1. PICK type \in types : type = The(types)
      BY <2>5, Member
    <3>2. type # "boolean" /\ type \notin NumericTypes
      BY <1>4
    <3>3. Converted(text.core, type) = {}
      BY <1>4, <2>1 DEF Converted
    <3>4. Cast(text, type) = String(text)
      BY <3>2, <3>3 DEF Cast
    <3> QED BY <2>2, <2>3, <2>5, <3>1, <3>4, ReadText
  <2> QED BY <2>4, <2>5
<1> QED BY <1>1, <1>2, <1>3, <1>4, Nothings DEF IsOrgValue

-----------------------------------------------------------------------------
(* The way of a cell.                                                      *)

\* What a text is read as depends on the state by the settings of the cell only.
LEMMA ReadStays ==
  ASSUME cell' = cell, NEW text, NEW types
  PROVE  Read(text, types)' = Read(text, types)
<1>1. \A core, type : Converted(core, type)' = Converted(core, type)
  BY DEF Converted
<1>2. \A t, type : Cast(t, type)' = Cast(t, type)
  BY <1>1 DEF Cast
<1> QED BY <1>2 DEF Read

\* So does what is written.
LEMMA WrittenStays ==
  ASSUME cell' = cell
  PROVE  /\ \A v : TextOf(v)' = TextOf(v)
         /\ RawText' = RawText /\ RawLine' = RawLine
         /\ \A v : CacheHolds(v)' <=> CacheHolds(v)
         /\ \A l : SourceHolds(l)' <=> SourceHolds(l)
<1>1. \A v : TextOf(v)' = TextOf(v)
  BY DEF TextOf
<1>2. RawText' = RawText
  BY <1>1 DEF RawText
<1>3. RawLine' = RawLine
  BY <1>2 DEF RawLine
<1>4. \A v : CacheHolds(v)' <=> CacheHolds(v)
  BY <1>2 DEF CacheHolds
<1>5. \A l : SourceHolds(l)' <=> SourceHolds(l)
  BY <1>1, <1>2, <1>3, <1>4 DEF SourceHolds
<1> QED BY <1>1, <1>2, <1>3, <1>4, <1>5

\* What the job gets is right.
LEMMA ReadRight ==
  ASSUME CellInv, ReadByType
  PROVE  ValuesKept'
<1> SUFFICES ASSUME line.delimiter = Comma PROVE ValuesKept'
  BY DEF ValuesKept, ReadByType
<1> DEFINE types == TypeOf(cell.column)
           direct == Read(RawText, types)
           read == Read(Parsed(line, Comma), types)
<1>1. cell \in Cells /\ IsCell(cell) /\ SourceHolds(line)
  BY CellAssumption DEF CellInv, ReadByType
<1>2. cell' = cell /\ value' = read
  BY DEF ReadByType
<1>3. read = direct \/ (~cell.insertNulls /\ IsNothing(read) /\ IsNothing(direct))
  BY <1>1, ReadFromSource
<1>4. CASE cell.from = "user"
  <2>1. RawText = cell.given /\ IsText(RawText)
    BY <1>1, <1>4, RawIsText DEF RawText
  <2>2. Read(cell.given, TypeOf(cell.column))' = direct
    BY <1>2, <2>1, ReadStays
  <2>3. ASSUME read.is = "string" /\ read.value.core.is = "iso" /\ cell.given.core.is = "dots"
        PROVE  SameDate(read.value.core, cell.given.core)
    <3>1. ~IsNothing(read)
      <4>1. Empty.value.core.is = "word"
        <5>1. Empty.value = Plain(Word(""))
          BY Kinds DEF Empty
        <5> QED BY <5>1, PlainText
      <4> QED BY <2>3, <4>1, Kinds DEF IsNothing, Empty
    <3>2. read = direct
      BY <1>3, <3>1
    <3> QED BY <2>1, <2>3, <3>2, DatesMeant
  <2> QED BY <1>2, <1>3, <1>4, <2>1, <2>2, <2>3 DEF ValuesKept, SameDate
<1>5. CASE cell.from # "user"
  <2>1. RawText = TextOf(cell.given) /\ IsOrgValue(cell.given, cell.column)
    BY <1>1, <1>5 DEF RawText, IsCell
  <2>2. IF IsNothing(cell.given) THEN IsNothing(direct) ELSE Survives(cell.given) => direct = cell.given
    BY <2>1, OrgValueKept
  <2>3. IF IsNothing(cell.given) THEN IsNothing(read) ELSE Survives(cell.given) => read = cell.given
    BY <1>3, <2>2
  <2> QED BY <1>2, <1>5, <2>3 DEF ValuesKept
<1> QED BY <1>4, <1>5

\* The invariant holds at the start.
LEMMA InitCell == CellInit => CellInv
BY CellAssumption DEF CellInit, CellInv, IsCell, RawLine, RawText, ValuesKept

\* Every step keeps it.
LEMMA StepCell == CellInv /\ [CellNext]_cellVars => CellInv'
<1> SUFFICES ASSUME CellInv, [CellNext]_cellVars PROVE CellInv'
  OBVIOUS
<1>1. cell' = cell
  BY DEF CellNext, Export, LoadIntoCache, SaveInternal, CopyRaw, ReadByType, cellVars
<1>2. CASE Export
  <2>1. line' = RawLine
    BY <1>2 DEF Export, CellInv, RawLine, RawText
  <2> QED BY <1>1, <1>2, <2>1, WrittenStays DEF Export, CellInv, ValuesKept
<1>3. CASE LoadIntoCache
  <2>1. CacheHolds(value')
    BY <1>3, ParsedAsWritten, ReadIntoCache DEF LoadIntoCache, CellInv, RawLine
  <2> QED BY <1>1, <1>3, <2>1, WrittenStays DEF LoadIntoCache, CellInv, ValuesKept
<1>4. CASE SaveInternal
  <2>1. value \in {Nothing, Empty, String(WithoutReturns(RawText))} /\ CacheHolds(value)
    BY <1>4 DEF SaveInternal, CellInv, CacheHolds
  <2>2. SourceHolds(line')
    BY <1>4, <2>1 DEF SaveInternal, SourceHolds
  <2> QED BY <1>1, <1>4, <2>2, WrittenStays DEF SaveInternal, CellInv, ValuesKept
<1>5. CASE CopyRaw
  <2>1. SourceHolds(line')
    BY <1>5 DEF CopyRaw, CellInv, SourceHolds
  <2> QED BY <1>1, <1>5, <2>1, WrittenStays DEF CopyRaw, CellInv, ValuesKept
<1>6. CASE ReadByType
  BY <1>1, <1>6, ReadRight DEF ReadByType, CellInv
<1>7. CASE UNCHANGED cellVars
  <2>1. ValuesKept'
    BY <1>7, ReadStays DEF cellVars, CellInv, ValuesKept, SameDate
  <2> QED BY <1>7, <2>1, WrittenStays DEF cellVars, CellInv
<1> QED BY <1>2, <1>3, <1>4, <1>5, <1>6, <1>7 DEF CellNext

\* A cell keeps its value: the job gets what the user wrote, whichever way the file took,
\* and what an org held when it was exported (Common.readCsvFileAsync, writeCsvFileAsync).
THEOREM CellsKeepValues == CellSpec => []ValuesKept
<1>1. CellSpec => []CellInv
  BY InitCell, StepCell, PTL DEF CellSpec
<1>2. CellInv => ValuesKept
  BY DEF CellInv
<1> QED BY <1>1, <1>2, PTL
=============================================================================
