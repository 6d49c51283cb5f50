------------------------------- MODULE JobSetup -------------------------------
(***************************************************************************)
(* From the script to the objects a migration job works on:                *)
(* ScriptLoader builds the object sets, and for one set after the other    *)
(* MigrationJob.setupAsync sets its objects up, describes them             *)
(* concurrently in both orgs, adds the parents their lookups need, adapts  *)
(* their operations to the metadata, and excludes what cannot be migrated. *)
(*                                                                         *)
(* The describes are mutable and shared: every object set of a run finds   *)
(* them in the same cache, as the sets before left them.                   *)
(***************************************************************************)
EXTENDS Integers, Sequences, FiniteSets, SequencesExt

CONSTANTS
  Scripts,      \* the scripts to load: see IsScript
  Org,          \* Org[side][object]: what an org says of an object it has
  Polymorphic,  \* <<object, field>> defined as polymorphic (EntityParticle)
  MaxFaults     \* failed calls considered in one run

None == ""                             \* no object, no field
Sides == {"source", "target"}
Special == {"Group", "User", "RecordType"}      \* SPECIAL_OBJECTS
UserGroup == {"User", "Group"}
Operations ==
  {"Insert", "Update", "Upsert", "Readonly", "Delete", "DeleteSource", "DeleteHierarchy", "HardDelete"}
FieldsOf(side, name) == DOMAIN Org[side][name].fields
To(side, name, f) == Org[side][name].fields[f].to
Pairs(f) == {<<x, f[x]>> : x \in DOMAIN f}

\* An object as export.json has it; operation None stands for one that is not
\* recognised, hasQuery = FALSE for a missing or blank query.
IsEntry(e) ==
  /\ e.operation \in Operations \cup {None}
  /\ {e.hasQuery, e.excluded, e.all, e.deleteOldData} \subseteq BOOLEAN
  /\ e.fields \subseteq STRING       \* SELECT list
  /\ DOMAIN e.declared \subseteq e.fields   \* field$Object declarations
  /\ e.excludedFields \cup e.notUpdated \subseteq STRING  \* excludedFields, excludedFromUpdateFields

\* An object set lists an object once.
IsSet(entries) ==
  /\ entries \in Seq(ToSet(entries)) /\ \A i \in DOMAIN entries : IsEntry(entries[i])
  /\ \A i, j \in DOMAIN entries :
       entries[i].name = entries[j].name /\ entries[i].hasQuery /\ entries[j].hasQuery => i = j

\* The object sets of a script: its top-level objects are the first one.
ObjectSets(s) ==
  (IF s.objects = <<>> THEN <<>> ELSE <<s.objects>>) \o s.sets

IsScript(s) ==
  /\ ObjectSets(s) \in Seq(ToSet(ObjectSets(s))) \ {<<>>}
  /\ \A i \in DOMAIN ObjectSets(s) : IsSet(ObjectSets(s)[i])
  /\ s.excludedObjects \subseteq STRING
  /\ {s.sourceIsFile, s.targetIsFile} \subseteq BOOLEAN /\ ~(s.sourceIsFile /\ s.targetIsFile)

\* What orgs say is finite.  Every object has an Id, which is no reference, nor are the
\* fields users and groups are named by.
IsOrg(side) ==
  \A name \in DOMAIN Org[side] :
    /\ IsFiniteSet(FieldsOf(side, name))
    /\ "Id" \in FieldsOf(side, name) /\ To(side, name, "Id") = <<>>
    /\ name \in UserGroup =>
         \A f \in {"Name", Org[side][name].nameField} \cap FieldsOf(side, name) : To(side, name, f) = <<>>

ASSUME ScriptAssumption == \A s \in Scripts : IsScript(s)
ASSUME OrgAssumption == \A side \in Sides : IsOrg(side)
ASSUME FaultAssumption == MaxFaults \in Nat

VARIABLES
  script,     \* the script of the run, fixed
  set,        \* the object set being set up
  objects,    \* its script objects, in the order of the set
  describes,  \* both metadata caches: the mutable part of the cached describes
  phase,      \* the step of setupAsync ...
  resume,     \* ... and the one after the describes under way
  round,      \* 1, or 2 after lookups were removed
  outcomes,   \* the objects the tasks of the finished sets were made of
  faults      \* calls that have failed

vars == <<script, set, objects, describes, phase, resume, round, outcomes, faults>>

-----------------------------------------------------------------------------
(* Loading.                                                                *)

\* A script object: its entry over the defaults of the class (Readonly, not excluded).
Built(e) ==
  [name |-> e.name, auto |-> FALSE, excluded |-> e.excluded,
   operation |-> IF e.operation = None THEN "Readonly" ELSE e.operation,
   fromSource |-> FALSE, deleteOldData |-> e.deleteOldData, byHierarchy |-> FALSE,
   externalId |-> e.externalId, defaultId |-> FALSE,
   fields |-> e.fields, asked |-> e.fields, all |-> e.all, via |-> {}, declared |-> e.declared,
   excludedFields |-> e.excludedFields, notUpdated |-> e.notUpdated,
   polymorphic |-> {}, stage |-> "none", missing |-> FALSE]

\* Entries without a query are dropped, the others keep their order.
WithQuery(entries) ==
  {s \in SetToSeqs({i \in DOMAIN entries : entries[i].hasQuery}) :
     \A j, k \in DOMAIN s : j < k => s[j] < s[k]}
BuiltObjects(entries) ==
  {[i \in DOMAIN kept |-> Built(entries[kept[i]])] : kept \in WithQuery(entries)}

\* An object added by the job: SELECT Id FROM name.
AutoObject(name) ==
  [Built([name |-> name, operation |-> None, excluded |-> FALSE, deleteOldData |-> FALSE,
          externalId |-> None, fields |-> {"Id"}, all |-> FALSE, declared |-> <<>>,
          excludedFields |-> {}, notUpdated |-> {}])
   EXCEPT !.auto = TRUE]

Among(t, names) == IF t \in names THEN <<t>> ELSE <<>>
\* User and Group join a set whose queries declare them ($User, $Group).
Expanded(objs) ==
  LET required == UNION {{t \in UserGroup : \E p \in Pairs(objs[i].declared) : p[2] = t} : i \in DOMAIN objs}
      present == {objs[i].name : i \in DOMAIN objs}
      added == Among("User", required \ present) \o Among("Group", required \ present)
  IN  objs \o [i \in DOMAIN added |-> AutoObject(added[i])]

-----------------------------------------------------------------------------
(* ScriptObject.setup.                                                     *)

NoDeletes(o) == [o EXCEPT !.fromSource = FALSE, !.deleteOldData = FALSE, !.byHierarchy = FALSE]

\* An auto-added object is read from an org, and inserted into a file.
AutoDefaults(o) ==
  IF o.auto THEN [NoDeletes(o) EXCEPT !.operation = IF script.targetIsFile THEN "Insert" ELSE "Readonly"]
            ELSE o
SpecialDefaults(o) == IF o.name \in Special THEN [NoDeletes(o) EXCEPT !.operation = "Readonly"] ELSE o
DeleteFlags(o) ==
  CASE o.operation = "DeleteSource" -> [o EXCEPT !.fromSource = TRUE, !.operation = "Delete"]
    [] o.operation = "DeleteHierarchy" -> [o EXCEPT !.byHierarchy = TRUE, !.operation = "Delete"]
    [] o.operation = "HardDelete" -> [o EXCEPT !.operation = "Delete"]
    [] OTHER -> o

\* A file is only inserted into; what deletes from the source stays.
FileTarget(o) ==
  CASE ~script.targetIsFile -> o
    [] script.targetIsFile /\ o.operation = "Delete" /\ ~o.fromSource -> [o EXCEPT !.excluded = TRUE]
    [] script.targetIsFile /\ o.fromSource -> [o EXCEPT !.deleteOldData = FALSE, !.byHierarchy = FALSE]
    [] OTHER -> [o EXCEPT !.deleteOldData = FALSE, !.byHierarchy = FALSE, !.operation = "Insert"]

\* Records that are only inserted, or deleted from the source, are told apart by Id.
ExternalIdReset(o) ==
  IF o.name \notin Special /\ (o.operation = "Insert" \/ o.fromSource)
    THEN [o EXCEPT !.externalId = "Id"] ELSE o

Normalised(o) == ExternalIdReset(FileTarget(DeleteFlags(SpecialDefaults(AutoDefaults(o)))))

\* A target delete queries the Id only, and is a delete of the old data.
DeleteMode(o) ==
  CASE o.operation = "Delete" /\ ~o.fromSource /\ ~o.byHierarchy ->
         [o EXCEPT !.deleteOldData = TRUE, !.fields = {"Id"}]
    [] o.byHierarchy /\ o.operation # "Delete" -> [o EXCEPT !.byHierarchy = FALSE]
    [] OTHER -> o

\* The external id is Name until the describe of the object tells a better default.
WithDefaultId(o) ==
  IF o.externalId = None \/ o.auto THEN [o EXCEPT !.externalId = "Name", !.defaultId = TRUE] ELSE o
WithQueryFields(o, original) == [o EXCEPT !.fields = @ \cup {"Id", o.externalId, original}]
SetUp(o) ==
  LET named == WithDefaultId(o)
      ready == WithQueryFields(DeleteMode(Normalised(named)), named.externalId)
  IN  IF o.excluded THEN o ELSE [ready EXCEPT !.stage = "source"]

-----------------------------------------------------------------------------
(* Describes.                                                              *)

NoParent == [set |-> 0, name |-> None, id |-> None]

\* A describe fresh from an org: the first object a lookup may refer to is the one it
\* refers to (OwnerId: User).
FreshField(f, to) ==
  [ref |-> CASE f = "OwnerId" -> "User" [] f # "OwnerId" /\ to = <<>> -> None [] OTHER -> Head(to),
   poly |-> FALSE, definition |-> FALSE, parent |-> NoParent]
Fresh(side, name) == [f \in FieldsOf(side, name) |-> FreshField(f, To(side, name, f))]

OriginalRef(side, name, f) == FreshField(f, To(side, name, f)).ref
IsFile(side) == IF side = "source" THEN script.sourceIsFile ELSE script.targetIsFile
OrgSides == {side \in Sides : ~IsFile(side)}
IsCached(side, name) == name \in DOMAIN describes[side]

\* An object reads the describe of its source, or of its target when the source is a file.
ReadSide == IF script.sourceIsFile THEN "target" ELSE "source"
WriteSide == IF script.targetIsFile THEN "source" ELSE "target"
IsDescribed(o) == o.stage \in {"done", "ready"} /\ ~o.missing
Lookup(o, f) == To(ReadSide, o.name, f) # <<>>
LookupsOf(o) == IF IsDescribed(o) THEN {f \in o.fields \cap FieldsOf(ReadSide, o.name) : Lookup(o, f)} ELSE {}

\* A lookup that may refer to users or to groups: kept whatever is excluded.
UserGroupLookup(d, side, name, f) ==
  d[f].ref \in UserGroup /\ (d[f].poly \/ d[f].definition \/ Len(To(side, name, f)) > 1)

\* What a query declares of its lookups is written into the shared describe.
Declared(d, o, side) ==
  [f \in DOMAIN d |->
     IF f \in DOMAIN o.declared /\ To(side, o.name, f) # <<>>
       THEN [d[f] EXCEPT !.ref = o.declared[f], !.poly = TRUE] ELSE d[f]]

\* "all": every field but the lookups of objects nobody migrates.
Multiselected(o, d, side) ==
  IF o.all THEN {f \in DOMAIN d : ~(To(side, o.name, f) # <<>> /\ d[f].ref \in Special)} ELSE {}

\* The default external id: the name field, or an autonumber or unique one, or Id.
WithDescribedId(o, side) ==
  LET id == Org[side][o.name].nameField
  IN  IF o.defaultId /\ o.operation # "Insert" /\ ~o.fromSource /\ o.externalId # id
        THEN [o EXCEPT !.externalId = id, !.fields = (@ \ {o.externalId}) \cup {id}] ELSE o

\* The query after its describe: fields that exist, without excluded ones and lookups
\* of excluded objects.  A field taken in by "all" is updated even if excluded from updates.
FieldsAdapted(o, d, side) ==
  LET selected == Multiselected(o, d, side)
      wide == WithDescribedId([o EXCEPT !.fields = (@ \cup selected) \ o.excludedFields,
                                        !.notUpdated = @ \ selected], side)
      barred == script.excludedObjects \cup {"Group"}
      dropped == {f \in DOMAIN d : /\ To(side, o.name, f) # <<>> /\ d[f].ref \in barred
                                   /\ ~UserGroupLookup(d, side, o.name, f)}
  IN  [wide EXCEPT !.fields = (@ \cap DOMAIN d) \ dropped]

\* Fields asked for, or in the query, that an org does not have.
MissingFields(o, side) == (o.asked \cup o.fields) \ FieldsOf(side, o.name)

\* Nothing but the Id: nothing to migrate, unless records are deleted.
OnlyId(o) == o.fields = {"Id"} /\ o.via = {}

\* Mutant: only what the source lacks leaves the query.
MissingRemoved_SourceOnly(o, adapted, sides) ==
  LET absent == UNION {MissingFields(adapted, side) : side \in sides \ {"target"}}
      left == [adapted EXCEPT !.fields = @ \ absent]
  IN  IF absent # {} /\ OnlyId(left) /\ o.operation # "Delete"
        THEN [left EXCEPT !.excluded = TRUE] ELSE left

MissingRemoved(o, adapted, sides) ==
  LET absent == UNION {MissingFields(adapted, side) : side \in sides}
      left == [adapted EXCEPT !.fields = @ \ absent]
  IN  IF absent # {} /\ OnlyId(left) /\ o.operation # "Delete"
        THEN [left EXCEPT !.excluded = TRUE] ELSE left

\* The lookups of a query that may refer to several objects, with the objects.
PolymorphicLookups(o, d) ==
  UNION {IF d[f].poly THEN {<<f, d[f].ref>>} ELSE {<<f, t>> : t \in ToSet(To(ReadSide, o.name, f))} :
           f \in {f \in o.fields \cap DOMAIN d : Lookup(o, f) /\ (d[f].poly \/ d[f].definition)}}

At(i, o) == objects' = [objects EXCEPT ![i] = o]
UnchangedRun == UNCHANGED <<script, set, outcomes>>
Faulty == faults < MaxFaults /\ faults' = faults + 1

\* A describe: from a cache, from the org, or not at all.  An error of the call counts
\* as a missing object.
Loaded(side, name) ==
  IF IsCached(side, name) THEN describes
  ELSE [describes EXCEPT ![side] = [n \in DOMAIN @ \cup {name} |-> IF n = name THEN Fresh(side, name) ELSE @[n]]]
Missing(side, name) ==
  /\ ~IsFile(side) /\ ~IsCached(side, name)
  /\ IF name \in DOMAIN Org[side] THEN Faulty ELSE UNCHANGED faults
Found(side, name) == name \in DOMAIN Org[side] /\ ~IsFile(side) /\ UNCHANGED faults

DescribeSource(i) ==
  LET o == objects[i]
      next == [o EXCEPT !.stage = "target"] IN
  /\ phase = "describe" /\ o.stage = "source"
  /\ \/ IsFile("source") /\ At(i, next) /\ UNCHANGED <<describes, faults>>
     \/ Found("source", o.name) /\ At(i, next) /\ describes' = Loaded("source", o.name)
     \/ Missing("source", o.name) /\ At(i, [next EXCEPT !.missing = TRUE]) /\ UNCHANGED describes
  /\ UNCHANGED <<phase, resume, round>> /\ UnchangedRun

Excluded(o) == [o EXCEPT !.missing = TRUE, !.excluded = TRUE, !.stage = "done"]

\* _validateFields: the field (of a lookup's key, the lookup) that records are matched by.
HasKey(o, side) == o.externalId \in FieldsOf(side, o.name)

\* applyDescribe with the describes ds; without its external id in an org the object,
\* and with it the job, fails.
Applied(i, o, ds) ==
  LET declared == [side \in Sides |-> IF side \notin OrgSides THEN ds[side]
                                      ELSE [ds[side] EXCEPT ![o.name] = Declared(@, o, side)]]
      adapted == FieldsAdapted(o, declared[ReadSide][o.name], ReadSide)
      left == MissingRemoved(o, adapted, OrgSides)
  IN  /\ describes' = declared
      /\ IF \A side \in OrgSides : HasKey(adapted, side)
           THEN At(i, [left EXCEPT !.stage = "polymorphic"]) /\ UNCHANGED phase
           ELSE phase' = "failed" /\ UNCHANGED objects

DescribeTarget(i) ==
  LET o == objects[i] IN
  /\ phase = "describe" /\ o.stage = "target"
  /\ \/ Missing("target", o.name) /\ At(i, Excluded(o)) /\ UNCHANGED <<describes, phase>>
     \/ /\ IF IsFile("target") THEN UNCHANGED faults ELSE Found("target", o.name)
        /\ LET ds == IF IsFile("target") THEN describes ELSE Loaded("target", o.name) IN
           IF o.missing THEN At(i, Excluded(o)) /\ describes' = ds /\ UNCHANGED phase
                        ELSE Applied(i, o, ds)
  /\ UNCHANGED <<resume, round>> /\ UnchangedRun

\* The describe after the org has told which fields are polymorphic; OwnerId is not checked.
Corrected(d, side, name, definitions) ==
  [f \in DOMAIN d |->
     LET e == [d[f] EXCEPT !.definition = f \in definitions]
     IN  CASE f = "OwnerId" -> d[f]
           [] f # "OwnerId" /\ e.poly /\ f \notin definitions ->
                [e EXCEPT !.poly = FALSE, !.ref = OriginalRef(side, name, f)]
           [] OTHER -> e]

\* The query for polymorphic fields may fail; what earlier describes told is used then.
FixPolymorphic(i) ==
  LET o == objects[i]
      told == {p[2] : p \in {q \in Polymorphic : q[1] = o.name}}
      known == UNION {{f \in FieldsOf(side, o.name) : describes[side][o.name][f].definition} : side \in OrgSides}
      After(definitions) ==
        [side \in Sides |->
           IF side \notin OrgSides \/ definitions = {} THEN describes[side]
           ELSE [describes[side] EXCEPT ![o.name] = Corrected(@, side, o.name, definitions)]]
  IN  /\ phase = "describe" /\ o.stage = "polymorphic"
      /\ \/ UNCHANGED faults /\ describes' = After(IF told = {} THEN known ELSE told)
         \/ Faulty /\ describes' = After(known)
      /\ At(i, [o EXCEPT !.stage = "done", !.polymorphic = PolymorphicLookups(o, describes'[ReadSide][o.name])])
      /\ UNCHANGED <<phase, resume, round>> /\ UnchangedRun

\* Mutant: excluded objects, which are not described, are waited for.
DescribesDone_AllDone ==
  /\ phase = "describe" /\ \A i \in DOMAIN objects : objects[i].stage = "done"
  /\ phase' = resume
  /\ UNCHANGED <<objects, describes, resume, round, faults>> /\ UnchangedRun

DescribesDone ==
  /\ phase = "describe" /\ \A i \in DOMAIN objects : objects[i].stage \in {"none", "done"}
  /\ phase' = resume
  /\ UNCHANGED <<objects, describes, resume, round, faults>> /\ UnchangedRun

-----------------------------------------------------------------------------
(* Completing the set.                                                     *)

Active(objs) == {i \in DOMAIN objs : ~objs[i].excluded}
ExcludedNames == {objects[i].name : i \in DOMAIN objects \ Active(objects)} \cup script.excludedObjects
ActiveNames == {objects[i].name : i \in Active(objects)}
DescribeOf(o) == describes[ReadSide][o.name]

\* _resolveLookupReferenceTargets: the declared object, else User and Group if they
\* are among the candidates, else the object referred to.
Targets(o, f) ==
  LET d == DescribeOf(o)[f]
      candidates == ToSet(To(ReadSide, o.name, f))
  IN  CASE d.poly -> {d.ref}
        [] ~d.poly /\ candidates \cap UserGroup # {} -> candidates \cap UserGroup
        [] OTHER -> {d.ref}

MissingParents ==
  (UNION {UNION {Targets(objects[i], f) : f \in LookupsOf(objects[i])} : i \in Active(objects)})
    \ (ExcludedNames \cup ActiveNames)

\* Objects added to the set are set up and described like the others.
Join(added, then) ==
  /\ objects' = objects \o [k \in DOMAIN added |-> SetUp(added[k])]
  /\ phase' = "describe" /\ resume' = then

\* In one order, on which nothing depends.
Listed(names) == {s \in SetToSeqs(names) : s = SetToSeq(names)}
AddParents ==
  /\ phase = "parents"
  /\ \E missing \in Listed(MissingParents) :
       IF missing = <<>> THEN phase' = "link" /\ UNCHANGED <<objects, resume>>
       ELSE Join([k \in DOMAIN missing |-> AutoObject(missing[k])], "parents")
  /\ UNCHANGED <<describes, round, faults>> /\ UnchangedRun

\* Every lookup of a describe is linked to its parent in this set; without one, it
\* keeps the parent an earlier set linked it to.
Linked(d, name) ==
  LET ParentIn(f) == {i \in Active(objects) : objects[i].name = d[f].ref}
  IN  [f \in DOMAIN d |->
         IF To(ReadSide, name, f) = <<>> \/ ParentIn(f) = {} THEN d[f]
         ELSE LET p == objects[CHOOSE i \in ParentIn(f) : \A j \in ParentIn(f) : j <= i]
              IN  [d[f] EXCEPT !.parent = [set |-> set, name |-> p.name, id |-> p.externalId]]]

\* ensureLookupFieldsInQuery: the parent's external id is queried with the lookup.
WithRelationships(o, d) ==
  [o EXCEPT !.via = @ \cup {<<f, d[f].parent.id>> : f \in {f \in LookupsOf(o) : d[f].parent # NoParent}}]

Link ==
  /\ phase = "link"
  /\ LET linked == [n \in DOMAIN describes[ReadSide] |->
                      IF \E i \in Active(objects) : objects[i].name = n /\ IsDescribed(objects[i])
                        THEN Linked(describes[ReadSide][n], n) ELSE describes[ReadSide][n]]
     IN  /\ describes' = [describes EXCEPT ![ReadSide] = linked]
         /\ objects' = [i \in DOMAIN objects |->
              IF objects[i].excluded \/ ~IsDescribed(objects[i]) THEN objects[i]
              ELSE WithRelationships(objects[i], linked[objects[i].name])]
  /\ phase' = "operations"
  /\ UNCHANGED <<resume, round, faults>> /\ UnchangedRun

-----------------------------------------------------------------------------
(* Operations.                                                             *)

Restricted == {"RecordType", "Profile", "DandBCompany", "ContentVersion", "ContentDocument",
               "ContentDocumentLink", "Attachment", "Note"}
InsertOnly == {"FeedItem", "FeedComment"}

NoTargetDeletes(o) == [o EXCEPT !.deleteOldData = FALSE, !.byHierarchy = FALSE]
ForcedReadonly(o) ==
  /\ o.operation # "Readonly"
  /\ o.name \in Restricted \/ (o.name \in InsertOnly /\ o.operation # "Insert")
DeletesFromSource(o) == o.operation = "Delete" /\ o.fromSource /\ ~script.sourceIsFile

\* Mutant: an upsert into an object that cannot be created stays an upsert.
OperationFor_AnyUpsert(operation, crud) ==
  CASE operation = "Insert" /\ "create" \notin crud -> "Readonly"
    [] operation = "Update" /\ "update" \notin crud -> "Readonly"
    [] operation = "Delete" /\ "delete" \notin crud -> "Readonly"
    [] operation = "Upsert" /\ crud \cap {"create", "update"} = {} -> "Readonly"
    [] OTHER -> operation

\* The operation the metadata of the object allows.
OperationFor(operation, crud) ==
  CASE operation = "Insert" /\ "create" \notin crud -> "Readonly"
    [] operation = "Update" /\ "update" \notin crud -> "Readonly"
    [] operation = "Delete" /\ "delete" \notin crud -> "Readonly"
    [] operation = "Upsert" /\ crud \cap {"create", "update"} = {} -> "Readonly"
    [] operation = "Upsert" /\ crud \cap {"create", "update"} = {"update"} -> "Update"
    [] operation = "Upsert" /\ crud \cap {"create", "update"} = {"create"} -> "Insert"
    [] OTHER -> operation

\* No delete flags on an object the target cannot delete.
WithDeletableFlags(o) ==
  IF ~DeletesFromSource(o) /\ "delete" \notin Org["target"][o.name].crud THEN NoTargetDeletes(o) ELSE o

Adapted(o) ==
  LET side == IF DeletesFromSource(o) THEN ReadSide ELSE "target"
      flagged == WithDeletableFlags(o)
      operation == OperationFor(flagged.operation, Org[side][o.name].crud)
  IN  CASE o.excluded -> o
        [] ~o.excluded /\ ForcedReadonly(o) -> [NoTargetDeletes(o) EXCEPT !.operation = "Readonly"]
        [] ~o.excluded /\ ~ForcedReadonly(o) /\ ~IsDescribed(o) -> o
        [] OTHER -> IF operation = "Readonly" /\ flagged.operation # "Readonly"
                      THEN [NoTargetDeletes(flagged) EXCEPT !.operation = "Readonly"]
                      ELSE [flagged EXCEPT !.operation = operation]

NormaliseOperations ==
  /\ phase = "operations"
  /\ objects' = IF script.targetIsFile THEN objects ELSE [i \in DOMAIN objects |-> Adapted(objects[i])]
  /\ phase' = "exclude"
  /\ UNCHANGED <<describes, resume, round, faults>> /\ UnchangedRun

-----------------------------------------------------------------------------
(* Exclusions.                                                             *)

Writes(o) == o.operation \in {"Insert", "Update", "Upsert"}
FieldsToUpdate(o) ==
  {f \in o.fields \cap FieldsOf(WriteSide, o.name) : Org[WriteSide][o.name].fields[f].writable} \ o.notUpdated
ReferencedNames ==
  UNION {{DescribeOf(objects[i])[f].parent.name : f \in LookupsOf(objects[i])} : i \in DOMAIN objects}

\* What becomes of an object after the describes: excluded with nothing but its Id or
\* as a parent nobody needs, Readonly with nothing to write.
Sifted(o) ==
  LET ownData == o.operation # "Delete" /\ o.name \notin UserGroup IN
  CASE o.excluded -> o
    [] ~o.excluded /\ OnlyId(o) /\ ownData -> [o EXCEPT !.excluded = TRUE]
    [] ~o.excluded /\ ~(OnlyId(o) /\ ownData) /\ o.auto /\ o.name \notin ReferencedNames \cup UserGroup ->
         [o EXCEPT !.excluded = TRUE]
    [] OTHER -> IF ~script.targetIsFile /\ Writes(o) /\ ~OnlyId(o) /\ FieldsToUpdate(o) = {}
                  THEN [o EXCEPT !.operation = "Readonly"] ELSE o

Exclude ==
  /\ phase = "exclude"
  /\ objects' = [i \in DOMAIN objects |-> Sifted(objects[i])]
  /\ phase' = "pair"
  /\ UNCHANGED <<describes, resume, round, faults>> /\ UnchangedRun

\* Users and groups some lookup may refer to are read, unless both are excluded.
RequiredUserGroup ==
  UNION {{p[2] : p \in Pairs(objects[i].declared) \cup objects[i].polymorphic} : i \in Active(objects)} \cap UserGroup
PairOptedOut == ActiveNames \cap UserGroup = {} /\ UserGroup \subseteq {objects[i].name : i \in DOMAIN objects}

AddUserGroup ==
  LET needed == RequiredUserGroup \ ActiveNames
      added == Among("Group", needed) \o Among("User", needed)
      then == IF round = 1 THEN "remove" ELSE "tasks" IN
  /\ phase = "pair"
  /\ IF PairOptedOut \/ added = <<>> THEN phase' = then /\ UNCHANGED <<objects, resume>>
     ELSE Join([k \in DOMAIN added |-> AutoObject(added[k])], then)
  /\ UNCHANGED <<describes, round, faults>> /\ UnchangedRun

ParentName(d, f) == IF d[f].parent # NoParent THEN d[f].parent.name ELSE d[f].ref
LookupsToExcluded(o) ==
  IF o.excluded \/ ~IsDescribed(o) THEN {}
  ELSE LET d == DescribeOf(o)
       IN  {f \in LookupsOf(o) \cup {v[1] : v \in o.via} :
              /\ ~UserGroupLookup(d, ReadSide, o.name, f)
              /\ ParentName(d, f) \in ExcludedNames}

WithoutLookups(o) ==
  LET gone == LookupsToExcluded(o)
      left == [o EXCEPT !.fields = @ \ gone, !.via = {v \in @ : v[1] \notin gone}]
  IN  IF gone = {} THEN o ELSE [left EXCEPT !.polymorphic = PolymorphicLookups(left, DescribeOf(o))]

\* Lookups of excluded objects leave the queries; once, as the exclusions they cause
\* are not followed up.
RemoveLookups ==
  /\ phase = "remove"
  /\ objects' = [i \in DOMAIN objects |-> WithoutLookups(objects[i])]
  /\ IF objects' = objects THEN phase' = "tasks" /\ UNCHANGED round
     ELSE phase' = "exclude" /\ round' = 2
  /\ UNCHANGED <<describes, resume, faults>> /\ UnchangedRun

-----------------------------------------------------------------------------
\* What a task is made of.
Outcome(o) ==
  [name |-> o.name, operation |-> o.operation, fromSource |-> o.fromSource,
   deleteOldData |-> o.deleteOldData, byHierarchy |-> o.byHierarchy, externalId |-> o.externalId,
   fields |-> o.fields, updated |-> FieldsToUpdate(o), via |-> o.via]

\* The rest is done for tasks: excluded objects are out.
CreateTasks ==
  /\ phase = "tasks" /\ phase' = "preflight"
  /\ UNCHANGED <<objects, describes, resume, round, faults>> /\ UnchangedRun

\* The parents in this set a task's lookups are linked to.
LinkedParents(o) ==
  {j \in DOMAIN objects :
     \E f \in LookupsOf(o) : /\ DescribeOf(o)[f].parent.set = set
                            /\ DescribeOf(o)[f].parent.name = objects[j].name}

\* _prepareTaskForPreflightAsync: the key of each parent gets into the parent's query,
\* even if it was excluded or removed from it, and with the lookups into this one.
PrepareTask(i) ==
  /\ phase = "preflight" /\ i \in Active(objects) /\ objects[i].stage = "done"
  /\ LET o == objects[i]
         keyed == [j \in DOMAIN objects |->
                     IF j \in LinkedParents(o) THEN [objects[j] EXCEPT !.fields = @ \cup {objects[j].externalId}]
                                              ELSE objects[j]]
     IN  objects' = [keyed EXCEPT ![i] = [WithRelationships(@, DescribeOf(o)) EXCEPT !.stage = "ready"]]
  /\ UNCHANGED <<describes, phase, resume, round, faults>> /\ UnchangedRun

\* runPipelineAsync goes on with the next object set.
SetDone ==
  /\ phase = "preflight" /\ \A i \in Active(objects) : objects[i].stage = "ready"
  /\ outcomes' = Append(outcomes, {Outcome(objects[i]) : i \in Active(objects)})
  /\ IF set < Len(ObjectSets(script)) THEN phase' = "load" /\ set' = set + 1
                                      ELSE phase' = "ended" /\ UNCHANGED set
  /\ UNCHANGED <<script, objects, describes, resume, round, faults>>

\* Mutant: the round is not reset for the next set.
LoadSet_RoundStays ==
  /\ phase = "load"
  /\ \E loaded \in {Expanded(objs) : objs \in BuiltObjects(ObjectSets(script)[set])} :
       objects' = [i \in DOMAIN loaded |-> SetUp(loaded[i])]
  /\ phase' = "describe" /\ resume' = "parents" /\ round' = round
  /\ UNCHANGED <<script, set, describes, outcomes, faults>>

\* createScriptForObjectSet: the set is built from the script again, the describes stay.
LoadSet ==
  /\ phase = "load"
  /\ \E loaded \in {Expanded(objs) : objs \in BuiltObjects(ObjectSets(script)[set])} :
       objects' = [i \in DOMAIN loaded |-> SetUp(loaded[i])]
  /\ phase' = "describe" /\ resume' = "parents" /\ round' = 1
  /\ UNCHANGED <<script, set, describes, outcomes, faults>>

Init ==
  /\ script \in Scripts /\ set = 1 /\ objects = <<>>
  /\ describes = [side \in Sides |-> <<>>]
  /\ phase = "load" /\ resume = "parents" /\ round = 1
  /\ outcomes = <<>> /\ faults = 0

Describing == \E i \in DOMAIN objects : DescribeSource(i) \/ DescribeTarget(i) \/ FixPolymorphic(i)
Next ==
  \/ LoadSet \/ Describing \/ DescribesDone
  \/ AddParents \/ Link \/ NormaliseOperations
  \/ Exclude \/ AddUserGroup \/ RemoveLookups \/ CreateTasks
  \/ (\E i \in DOMAIN objects : PrepareTask(i)) \/ SetDone

Spec == Init /\ [][Next]_vars
FairSpec == Spec /\ WF_vars(Next)

-----------------------------------------------------------------------------
\* The tasks of all finished sets, with the entries of the script they come from.
Finished == UNION {{<<k, t>> : t \in outcomes[k]} : k \in DOMAIN outcomes}
EntriesFor(k, name) == {e \in ToSet(ObjectSets(script)[k]) : e.name = name /\ e.hasQuery /\ ~e.excluded}
DeleteOperations == {"Delete", "HardDelete", "DeleteSource", "DeleteHierarchy"}
RightsFor(operation) ==
  CASE operation = "Insert" -> {"create"}
    [] operation = "Update" -> {"update"}
    [] operation = "Upsert" -> {"create", "update"}
    [] operation = "Delete" -> {"delete"}
    [] OTHER -> {}

\* However the operation of an object is defaulted, forced and adapted on the way, an
\* org is only written or emptied where the script asks for it (an upsert may shrink
\* to what is possible) and the metadata of that org allow it; a file target is never
\* deleted from; and a field excluded from updates is not updated unless the query takes
\* in all fields, or the object is User or Group, which may join a set again after its own
\* entry was excluded (setup, _normalizeOperationsByMetadata, _excludeObjectsAfterDescribe).
OnlyAskedWrites ==
  \A p \in Finished :
    LET t == p[2]
        asked == EntriesFor(p[1], t.name)
        side == IF t.fromSource /\ ~script.sourceIsFile THEN "source" ELSE "target" IN
    /\ ~script.targetIsFile /\ t.operation # "Readonly" =>
         /\ \E e \in asked : \/ e.operation \in {t.operation, "Upsert"}
                             \/ t.operation = "Delete" /\ e.operation \in DeleteOperations
         /\ t.name \notin Special
         /\ RightsFor(t.operation) \subseteq Org[side][t.name].crud
    /\ t.deleteOldData \/ t.byHierarchy =>
         /\ ~script.targetIsFile
         /\ \E e \in asked : e.deleteOldData \/ e.operation \in DeleteOperations
         /\ t.fromSource \/ "delete" \in Org["target"][t.name].crud
    /\ \A e \in asked : e.all \/ t.name \in UserGroup \/ e.notUpdated \cap t.updated = {}

\* The query of a task names fields both orgs have; of those the script excludes only the
\* key records are matched by, and the Id of a User or Group that has joined the set again;
\* and the Id and that key, unless they are excluded themselves or the key is a lookup,
\* lost with its parent (applyDescribe, _logAndExcludeMissingFields,
\* removeLookupFieldsToExcludedObjects).
QueriesAreValid ==
  \A p \in Finished :
    LET t == p[2]
        barred == UNION {e.excludedFields : e \in EntriesFor(p[1], t.name)} IN
    /\ "Id" \in t.fields \cup barred
    /\ barred \cap t.fields \subseteq {t.externalId} \cup (IF t.name \in UserGroup THEN {"Id"} ELSE {})
    /\ \/ t.externalId \in t.fields \cup barred
       \/ \E side \in OrgSides : To(side, t.name, t.externalId) # <<>>
    /\ \A side \in OrgSides : t.fields \subseteq FieldsOf(side, t.name)
    /\ {v[1] : v \in t.via} \subseteq t.fields

\* A lookup that is queried has a task for the object it refers to, unless it may refer
\* to users or groups, its parent was left with nothing but its Id when lookups were
\* removed (that exclusion comes last and is not followed up), or the shared describe
\* still links it to an object of an earlier set.
LookupsHaveTasks ==
  phase = "tasks" =>
    \A i \in Active(objects) : \A f \in LookupsOf(objects[i]) :
      LET d == DescribeOf(objects[i]) IN
      \/ UserGroupLookup(d, ReadSide, objects[i].name, f)
      \/ ~d[f].poly /\ ToSet(To(ReadSide, objects[i].name, f)) \cap UserGroup # {}
      \/ Targets(objects[i], f) \subseteq ActiveNames
      \/ d[f].parent.set \in 1 .. set - 1
      \/ round = 2 /\ \E j \in DOMAIN objects \ Active(objects) :
                         objects[j].name = ParentName(d, f) /\ OnlyId(objects[j])

\* When a task is ready the key of every parent its lookups are linked to is queried, or
\* the lookups of the task could never be resolved (_ensureParentExternalIdField).  Its own
\* key aside: a key that is a lookup may join the query of a parent when that is ready.
ParentsHaveKeys ==
  \A i \in Active(objects) : objects[i].stage = "ready" =>
    \A f \in LookupsOf(objects[i]) \ {objects[i].externalId} : \A j \in DOMAIN objects :
      LET parent == DescribeOf(objects[i])[f].parent IN
      parent.set = set /\ parent.name = objects[j].name => objects[j].externalId \in objects[j].fields

\* The tasks of a set fit the orgs and each other.
TasksAreSound == QueriesAreValid /\ LookupsHaveTasks /\ ParentsHaveKeys

\* The same object set gives the same tasks whatever sets came before it and in
\* whatever order its describes were answered, as long as no set declares the target
\* of a polymorphic lookup (metadataCaches).
SameSetSameTasks ==
  \A j, k \in DOMAIN outcomes :
    LET sets == ObjectSets(script) IN
    /\ sets[j] = sets[k] /\ faults = 0
    /\ \A l \in DOMAIN sets : \A i \in DOMAIN sets[l] : sets[l][i].declared = <<>>
    => outcomes[j] = outcomes[k]

\* Adding parents, which are described and may need parents themselves, comes to an end
\* (_ensureParentLookupObjectsAsync): setup ends or fails.
SetupEnds == <>(phase \in {"ended", "failed"})
=============================================================================
