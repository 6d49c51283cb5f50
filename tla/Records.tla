------------------------------- MODULE Records -------------------------------
(***************************************************************************)
(* What the tasks of a migration job make of the records they have read:   *)
(* linking source records to target rows by external id, preparing clones  *)
(* (MigrationJobTask._createProcessedDataAsync), the separate passes for   *)
(* business and person accounts, the rows and reports written to an org,   *)
(* the contacts of inserted person accounts, and the CSV files written     *)
(* instead when the target is a set of files.                              *)
(*                                                                         *)
(* Retrieval, the DML engines and repeated backward passes have modules of *)
(* their own (Retrieval, DmlCall, MigrationUpdate).  The job runs twice:   *)
(* the second run must find what the first one wrote.                      *)
(***************************************************************************)
EXTENDS FieldMapping, RecordValues, FiniteSets

CONSTANTS
  Scripts,   \* the jobs to run, with their source records
  TargetIds, \* the Ids the target org gives, in this order
  Joined,    \* <<first name, last name>> -> full name
  Parts,     \* full name -> <<first name, last name>>
  Random     \* what Common.makeId gives

ASSUME ValuesAssumption == Null # "" /\ Null # Yes /\ Null # No

VARIABLES
  script,    \* the job
  run, at,   \* which run, and which of its steps
  stage,     \* what is next in the step
  prepared,  \* processedData.clonedToSourceMap: [source, row], in order
  inserted,  \* sources of processedData.insertedRecordsSourceToTargetMap
  link,      \* sourceToTargetRecordMap: per object and source record, a record or None
  rows,      \* the rows of the target org: [object, data], the n-th with the n-th Id
  reports,   \* the target CSV files of inserts: <<target object, suffix>> -> Ids
  files,     \* the plain target CSV files: object -> [source, row]
  wrote      \* history: [run, object, source, id] of each inserted row

\* A complex key is no field to filter by; keys of parents written to files are their own
\* fields; lookups of person contacts are read.
ASSUME ScriptAssumption ==
  \A s \in Scripts : \A o \in ToSet(s.order) :
    /\ Len(s.key[o]) > 1 => o \in s.fullTarget
    /\ s.target = "file" => \A i \in DOMAIN s.key[o] : Len(s.key[o][i]) = 1
    /\ \A i \in DOMAIN s.source[o] : Plain("___Id") \in DOMAIN s.source[o][i]

vars == <<script, run, at, stage, prepared, inserted, link, rows, reports, files, wrote>>

None == <<>>
Id == Plain("Id")
Own == Plain("___Id")
Name == Plain("Name")
FirstName == Plain("FirstName")
LastName == Plain("LastName")
PersonFlag == Plain("IsPersonAccount")
Contacts == "Contact"
Accounts == "Account"

Objects == ToSet(script.order)
Source(o) == script.source[o]
Maps == Mappings(script.mapped, script.mappingRows, script.mappingEntries)
Target(o) == TargetObject(Maps, o)
ToFile == script.target = "file"

IsPath(f) == Len(f) = 1 /\ Len(f[1]) = 1
IsLookup(o, f) == <<o, RelationName(f[1][1])>> \in DOMAIN ParentOf /\ f[1][1] \in DOMAIN RelationOf
Parent(o, f) == ParentOf[<<o, RelationName(f[1][1])>>]
IsBefore(p, o) ==
  \E i, j \in DOMAIN script.order : i < j /\ script.order[i] = p /\ script.order[j] = o

\* The fields to update: the simple ones of the query.
UpdateFields(o) == {f \in ToSet(script.query[o]) : IsPath(f) /\ f # Id}

-----------------------------------------------------------------------------
\* External ids

\* The parts that are there.  Parts of a complex key that are empty are dropped.
KeyValue(name, r) ==
  SelectSeq([i \in DOMAIN name |-> Text(Value(r, <<name[i]>>))], LAMBDA v : v # "")

SourceKey(o, i) == KeyValue(script.key[o], Source(o)[i])
\* A mapped name put together behind a relationship is not recognised as a complex one.
TargetKeyIsRead(o) == o \notin DOMAIN Maps \/ ~IsOfOneParent(MapName(Maps, o, script.key[o]))
TargetKey(o, r) == IF TargetKeyIsRead(o) THEN KeyValue(MapName(Maps, o, script.key[o]), r) ELSE <<>>

\* extIdToRecordIdMap keeps the last record of a key.
SourceWithKey(o, key) ==
  LET same == {i \in DOMAIN Source(o) : key # <<>> /\ SourceKey(o, i) = key}
  IN {i \in same : \A j \in same : j <= i}

SourceById(o, id) == {i \in DOMAIN Source(o) : id # Null /\ Source(o)[i][Id] = id}

\* A field of a row of the target org, or of the row its lookup points to (the platform)
RowIds == {TargetIds[n] : n \in DOMAIN rows}
RowOf(id) == rows[CHOOSE n \in DOMAIN rows : TargetIds[n] = id].data
Read(r, path) ==
  IF Len(path) = 1 THEN Value(r, <<path>>)
  ELSE LET parent == Value(r, Plain(IdName(path[1])))
       IN IF parent \in RowIds THEN Value(RowOf(parent), Plain(path[2])) ELSE Null
Fetched(o, n) ==
  [f \in ToSet(TargetNames(Maps, o, script.query[o])) |-> Read(rows[n].data, f[1])]

\* A target that is not read in full is filtered by the target name of the external id.
IsFetched(o, n) ==
  /\ rows[n].object = Target(o)
  /\ \/ o \in script.fullTarget
     \/ /\ IsPath(script.key[o])
        /\ LET name == TargetName(Maps, o, script.query[o], script.key[o])
               v == Text(Read(rows[n].data, name[1]))
           IN v # "" /\ SourceWithKey(o, <<v>>) # {}

\* registerRecords: the last row of a key is linked to the last source of that key.
LinkedBy(o, i, rs) ==
  LET mine == {n \in DOMAIN rs : i \in SourceWithKey(o, TargetKey(o, rs[n]))}
  IN IF mine = {} THEN None ELSE rs[CHOOSE n \in mine : \A m \in mine : m <= n]

-----------------------------------------------------------------------------
\* Steps

Passes(o) == IF script.persons /\ o \in {Accounts, Contacts} THEN <<"business", "person">> ELSE <<"business">>
Written == SelectSeq(script.order, LAMBDA o : script.operation[o] \notin {"Readonly", "Delete"})
StepsOf(mode) ==
  FlattenSeq([k \in DOMAIN Written |->
    LET o == Written[k]
    IN [p \in DOMAIN Passes(o) |-> [mode |-> mode, object |-> o, pass |-> Passes(o)[p]]]])
FileSteps == [k \in DOMAIN Written |-> [mode |-> "forwards", object |-> Written[k], pass |-> "all"]]
Steps == IF ToFile THEN FileSteps ELSE StepsOf("forwards") \o StepsOf("backwards")

Step == Steps[at]
Finished == at > Len(Steps)

Init ==
  /\ script \in Scripts
  /\ run = 1 /\ at = 1 /\ stage = "retrieve"
  /\ prepared = <<>> /\ inserted = {}
  /\ link = [o \in Objects |-> [i \in DOMAIN Source(o) |-> None]]
  /\ rows = script.existing
  /\ reports = <<>> /\ files = <<>> /\ wrote = {}

Given == <<script, run>>

\* _retrieveTargetRecordsAsync of all tasks: not for Insert, and not from files.
Retrieve ==
  /\ stage = "retrieve"
  /\ link' = [o \in Objects |->
       IF ToFile \/ script.operation[o] = "Insert" THEN link[o]
       ELSE LET found == SelectSeq([n \in DOMAIN rows |-> n], LAMBDA n : IsFetched(o, n))
                rs == [k \in DOMAIN found |-> Fetched(o, found[k])]
            IN [i \in DOMAIN Source(o) |-> LinkedBy(o, i, rs)]]
  /\ stage' = "prepare"
  /\ UNCHANGED <<Given, at, prepared, inserted, rows, reports, files, wrote>>

-----------------------------------------------------------------------------
\* Preparing the clones of a pass

ProcessingFields(o, mode) ==
  {f \in UpdateFields(o) :
     IF mode = "forwards" THEN IsLookup(o, f) => IsBefore(Parent(o, f), o) ELSE IsLookup(o, f)}
  \cup {Own} \cup (IF script.operation[o] = "Insert" THEN {} ELSE {Id})

PersonOnly == {FirstName, LastName}
PassFields(o, mode, pass) ==
  ProcessingFields(o, mode) \
    (CASE ~script.persons \/ o \notin {Accounts, Contacts} -> {}
       [] script.persons /\ o = Accounts /\ pass = "business" -> PersonOnly \cup {PersonFlag}
       [] OTHER -> {PersonFlag, Name})

\* Orgs give booleans, files may give words or digits.
IsPerson(r) == Value(r, PersonFlag) \notin Falsy \cup {"false", "0"}

InPass(o, pass, r) ==
  (script.persons /\ o \in {Accounts, Contacts}) =>
    IF pass = "business" THEN ~IsPerson(r) ELSE o = Accounts /\ IsPerson(r)

LinkedId(o, f, r) ==
  LET parent == Parent(o, f)
      found == IF parent \in Objects THEN {i \in SourceById(parent, Value(r, f)) : link[parent][i] # None} ELSE {}
  IN IF found = {} THEN Null ELSE link[parent][CHOOSE i \in found : TRUE][Id]

Clone(o, fields, r) ==
  [f \in DOMAIN r \cap fields |-> IF IsLookup(o, f) THEN LinkedId(o, f, r) ELSE r[f]]

\* _updatePersonAccountPersonFields: names from the full name, or a random one
WithPersonNames(fields, r, clone) ==
  IF FirstName \in fields /\ {Value(clone, FirstName), Value(clone, LastName)} \subseteq Falsy
  THEN LET parts == Parts[Text(Value(r, Name))]
       IN (FirstName :> (IF parts = <<"", "">> THEN Random ELSE parts[1]) @@ LastName :> parts[2]) @@ clone
  ELSE clone
\* _updatePersonAccountBusinessFields: the full name from its parts, or a random one
WithName(fields, r, clone) ==
  IF Name \in fields /\ Text(Value(clone, Name)) = ""
  THEN LET full == Joined[<<Text(Value(r, FirstName)), Text(Value(r, LastName))>>]
       IN Name :> (IF full = "" THEN Random ELSE full) @@ clone
  ELSE clone
WithNames(o, pass, fields, r, clone) ==
  IF ~script.persons \/ o # Accounts THEN clone
  ELSE IF pass = "person" THEN WithPersonNames(fields, r, clone) ELSE WithName(fields, r, clone)

Clones(o, mode, pass) ==
  LET fields == PassFields(o, mode, pass)
      mine == SelectSeq(Source(o), LAMBDA r : InPass(o, pass, r))
  IN [k \in DOMAIN mine |-> WithNames(o, pass, fields, mine[k], Clone(o, fields, mine[k]))]

\* filterRecordsAddons and the target records filter: any records, in any order
Filterings(records) ==
  IF script.filter THEN {[k \in DOMAIN s |-> records[s[k]]] : s \in UNION {SetToSeqs(S) : S \in SUBSET DOMAIN records}}
  ELSE {records}

IdsOf(records) ==
  [k \in DOMAIN records |-> LET r == records[k] IN IF Text(Value(r, Id)) # "" THEN r[Id] ELSE r[Own]]
\* For each queried field of a parent, the lookup field with the parents' external ids
ParentFields(o) ==
  {f \in ToSet(script.query[o]) : Len(f[1]) = 2 /\ Lookup(ParentOf, <<o, f[1][1]>>, "") \in Objects}
ParentKeys(o) ==
  [f \in ParentFields(o) |->
     LET p == ParentOf[<<o, f[1][1]>>]
         single == {i \in DOMAIN Source(p) : Len(SourceKey(p, i)) = 1}
     IN <<Plain(IdName(f[1][1])),
          [v \in {SourceKey(p, i)[1] : i \in single} |->
             Source(p)[CHOOSE i \in SourceWithKey(p, <<v>>) : TRUE][Id]]>>]

\* Mutant: fields get their target names first.
Changed_MappedFirst(o, fields, records) ==
  LET named  == [k \in DOMAIN records |-> MapRecord(Maps, o, {Own}, records[k])]
      mocked == ApplyMocking(script.mocks[o], fields, {Own, Id}, IdsOf(named), named)
      short  == TruncateRecords(script.truncate, script.textual[o] \cap fields, mocked)
  IN MapValues(script.valueRows, o, {Own}, ParentKeys(o), short)
\* Mocking, truncation, value mapping and field mapping, in this order
Changed(o, fields, records) ==
  LET mocked == ApplyMocking(script.mocks[o], fields, {Own, Id}, IdsOf(records), records)
      short  == TruncateRecords(script.truncate, script.textual[o] \cap fields, mocked)
      valued == MapValues(script.valueRows, o, {Own}, ParentKeys(o), short)
  IN [k \in DOMAIN valued |-> MapRecord(Maps, o, {Own}, valued[k])]

\* Mutant: the clones meet their sources by their places.
Paired_ByPlace(o, records) == [k \in DOMAIN records |-> [source |-> k, row |-> records[k]]]
\* The clones meet their sources again by the task's own id.
Paired(o, records) ==
  [k \in DOMAIN records |->
     [source |-> CHOOSE i \in DOMAIN Source(o) : Source(o)[i][Own] = records[k][Own], row |-> records[k]]]

Prepare ==
  /\ stage = "prepare" /\ ~Finished /\ ~ToFile
  /\ \E kept \in Filterings(Clones(Step.object, Step.mode, Step.pass)) :
       prepared' = Paired(Step.object,
                     Changed(Step.object, PassFields(Step.object, Step.mode, Step.pass), kept))
  /\ stage' = "write"
  /\ UNCHANGED <<Given, at, inserted, link, rows, reports, files, wrote>>

-----------------------------------------------------------------------------
\* Writing to an org

WithoutOwn(r) == [f \in DOMAIN r \ {Own} |-> r[f]]
Payload(r) == [f \in DOMAIN r \ {Own, Id} |-> r[f]]
Differs(row, r) == \E f \in DOMAIN Payload(r) : Value(row, f) # r[f]

ToInsert(o, mode) ==
  SelectSeq(prepared, LAMBDA p : /\ mode = "forwards" /\ link[o][p.source] = None
                                 /\ script.operation[o] \in {"Insert", "Upsert"})
ToUpdate(o, mode) ==
  SelectSeq(prepared, LAMBDA p : /\ link[o][p.source] # None /\ Differs(link[o][p.source], p.row)
                                 /\ mode = "backwards" \/ script.operation[o] \in {"Upsert", "Update"})

\* Mutant: both passes write one file.
Suffix_None(pass) == ""
Suffix(pass) == IF pass = "person" THEN "_person" ELSE ""

\* The platform gives each new person account a contact.
PersonContact(accountId, data) ==
  [object |-> Contacts,
   data |-> (Plain("AccountId") :> accountId
             @@ LastName :> Value(data, LastName))]
WithIds(new) == [n \in DOMAIN new |-> [new[n] EXCEPT !.data = (Id :> TargetIds[n]) @@ @]]
NewRows(o, pass, accepted) ==
  LET add(all, p) ==
        LET row == Append(all, [object |-> Target(o), data |-> Payload(p.row)])
        IN IF pass = "person"
           THEN Append(row, PersonContact(TargetIds[Len(row)], p.row)) ELSE row
  IN WithIds(FoldLeft(add, rows, accepted))
\* The Id of the k-th accepted row
NewId(pass, k) == TargetIds[Len(rows) + IF pass = "person" THEN 2 * k - 1 ELSE k]

UpdatedRows(new, updates) ==
  [n \in DOMAIN new |->
     LET mine == {k \in DOMAIN updates : link[Step.object][updates[k].source][Id] = TargetIds[n]}
     IN IF mine = {} THEN new[n]
        ELSE [new[n] EXCEPT !.data = Payload(updates[CHOOSE k \in mine : \A j \in mine : j <= k].row) @@ @]]

\* _registerInsertedTargetRecords: by key, and then each to its own source
Registered(o, accepted, ids) ==
  LET rs == [k \in DOMAIN accepted |-> (Id :> ids[k]) @@ WithoutOwn(accepted[k].row)]
  IN [i \in DOMAIN Source(o) |->
        LET own == {k \in DOMAIN accepted : accepted[k].source = i}
        IN IF own # {} THEN rs[CHOOSE k \in own : TRUE]
           ELSE IF LinkedBy(o, i, rs) # None THEN LinkedBy(o, i, rs) ELSE link[o][i]]

WriteRows ==
  /\ stage = "write"
  /\ \E o \in {Step.object}, pass \in {Step.pass}, inserts \in {ToInsert(Step.object, Step.mode)} :
       \E refused \in IF script.mayRefuse THEN SUBSET DOMAIN inserts ELSE {{}} :
         LET accepted == SelectSeq(inserts, LAMBDA p : \A k \in refused : inserts[k] # p)
             ids == [k \in DOMAIN accepted |-> NewId(pass, k)]
         IN /\ rows' = UpdatedRows(NewRows(o, pass, accepted), ToUpdate(o, Step.mode))
            /\ link' = [link EXCEPT ![o] = Registered(o, accepted, ids)]
            /\ inserted' = {accepted[k].source : k \in DOMAIN accepted}
            /\ reports' = IF inserts = <<>> THEN reports
                          ELSE (<<Target(o), Suffix(pass)>> :> ToSet(ids)) @@ reports
            /\ wrote' = wrote \cup {[run |-> run, object |-> o, source |-> accepted[k].source, id |-> ids[k]] :
                                      k \in DOMAIN accepted}
  /\ prepared' = <<>>
  /\ stage' = IF Step.object = Accounts /\ Step.pass = "person" THEN "contacts" ELSE "prepare"
  /\ at' = IF stage' = "prepare" THEN at + 1 ELSE at
  /\ UNCHANGED <<Given, files>>

\* The source contact of each account that was just inserted: the last of them
ContactOf(account) ==
  {c \in DOMAIN Source(Contacts) :
     /\ link[Contacts][c] = None
     /\ Source(Contacts)[c][Plain("AccountId")] = Source(Accounts)[account][Id]}
\* The contacts in the target whose account is one of these
ContactRows(ids) ==
  SelectSeq([n \in DOMAIN rows |-> n],
            LAMBDA n : rows[n].object = Target(Contacts)
                       /\ Read(rows[n].data, MapName(Maps, Contacts, Plain("AccountId"))[1]) \in ids)

\* Mutant: whichever account the contact belongs to.
ContactsFor_AnyAccount(r) == UNION {ContactOf(a) : a \in inserted}
ContactsFor(r) ==
  UNION {ContactOf(a) : a \in {b \in inserted :
    link[Accounts][b][Id] = Value(r, MapName(Maps, Contacts, Plain("AccountId")))}}

PersonContacts ==
  /\ stage = "contacts"
  /\ IF /\ Contacts \in Objects /\ script.operation[Accounts] \in {"Insert", "Upsert"}
     THEN LET ids == {link[Accounts][a][Id] : a \in {b \in inserted : ContactOf(b) # {}}}
              found == ContactRows(ids)
              rs == [k \in DOMAIN found |-> Fetched(Contacts, found[k])]
              own(c) == {k \in DOMAIN found : LET cs == ContactsFor(rs[k])
                                              IN c \in cs /\ \A d \in cs : d <= c}
          IN link' = [link EXCEPT ![Contacts] = [c \in DOMAIN Source(Contacts) |->
               LET k == LinkedBy(Contacts, c, rs)
               IN IF k # None THEN k
                  ELSE IF own(c) # {} THEN rs[CHOOSE m \in own(c) : \A q \in own(c) : m <= q] ELSE link[Contacts][c]]]
     ELSE UNCHANGED link
  /\ stage' = "prepare" /\ at' = at + 1
  /\ UNCHANGED <<Given, prepared, inserted, rows, reports, files, wrote>>

-----------------------------------------------------------------------------
\* Writing files

\* Records of an org are nested: what a relationship leads to is no column of their own.
Columns(r) == [f \in {g \in DOMAIN r : script.flat \/ IsPath(g)} |-> r[f]]

References(o, names) ==
  UNION {{<< <<RelationName(f[1][1])>> \o part>> : part \in ToSet(script.key[Parent(o, f)]) \ {Path("Id")}} :
           f \in {g \in names : IsPath(g) /\ IsLookup(o, g) /\ Parent(o, g) \in Objects}}
ListedColumns(o) ==
  LET names == ToSet(Expanded(script.query[o])) \cup ToSet(Expanded(<<script.key[o]>>)) \cup {Id}
  IN References(o, names)
     \cup (IF script.excludeIds
           THEN {f \in names : f # Id /\ (IsPath(f) => ~IsLookup(o, f)) /\ f[1][Len(f[1])] # "Id"} ELSE names)

\* Mutant: always the parent's source record.
Projected_Original(parent, i) == Columns(Source(parent)[i])
\* What the parent's own row shows, or the parent's source record before that is written
Projected(parent, i) == IF link[parent][i] = None THEN Columns(Source(parent)[i]) ELSE link[parent][i]

WithReferences(o, r) ==
  LET lookups == {f \in UpdateFields(o) : IsLookup(o, f) /\ Parent(o, f) \in Objects}
      parents(f) == SourceById(Parent(o, f), Value(r, f))
      valueOf(i, f, ref) == Value(Projected(Parent(o, f), i), <<Tail(ref[1])>>)
      new == {ref \in ListedColumns(o) \ DOMAIN r : \E f \in lookups :
                /\ RelationName(f[1][1]) = ref[1][1]
                /\ \E i \in parents(f) : Text(valueOf(i, f, ref)) # ""}
      fieldOf(ref) == CHOOSE f \in lookups : RelationName(f[1][1]) = ref[1][1]
  IN [ref \in new |-> LET f == fieldOf(ref) IN valueOf(CHOOSE i \in parents(f) : TRUE, f, ref)] @@ r

Sanitized(o, r) == LET full == WithReferences(o, r)
                   IN [f \in DOMAIN full \cap ListedColumns(o) |-> full[f]]

WriteFile ==
  /\ stage = "prepare" /\ ~Finished /\ ToFile
  /\ \E o \in {Step.object} :
     \E kept \in Filterings([i \in DOMAIN Source(o) |-> Columns(Source(o)[i])]) :
     \E p \in {Paired(o, Changed(o, UpdateFields(o), kept))} :
       /\ link' = [link EXCEPT ![o] = [i \in DOMAIN Source(o) |->
                     LET own == {k \in DOMAIN p : p[k].source = i}
                     IN IF own = {} THEN None ELSE p[CHOOSE k \in own : TRUE].row]]
       /\ files' = IF p = <<>> THEN files
                   ELSE (o :> [k \in DOMAIN p |-> [p[k] EXCEPT !.row = Sanitized(o, @)]]) @@ files
  /\ at' = at + 1
  /\ UNCHANGED <<Given, stage, prepared, inserted, rows, reports, wrote>>

-----------------------------------------------------------------------------

RunAgain ==
  /\ Finished /\ run = 1 /\ ~ToFile
  /\ run' = 2 /\ at' = 1 /\ stage' = "retrieve"
  /\ link' = [o \in Objects |-> [i \in DOMAIN Source(o) |-> None]]
  /\ reports' = <<>> /\ inserted' = {}
  /\ UNCHANGED <<script, prepared, rows, files, wrote>>

AllDone == Finished /\ (run = 2 \/ ToFile) /\ UNCHANGED vars

Next ==
  Retrieve \/ Prepare \/ WriteRows \/ PersonContacts \/ WriteFile \/ RunAgain \/ AllDone
Spec == Init /\ [][Next]_vars

-----------------------------------------------------------------------------
\* Properties

\* What the script leaves as it is
IsKept(o, f) ==
  /\ PatternOf(script.mocks[o], f) = <<>> /\ ~IsTable(script.valueRows, o, f)
  /\ ~(script.truncate /\ f \in script.textual[o])
KeyIsKept(o) ==
  \A i \in DOMAIN script.key[o] : LET path == script.key[o][i]
    IN IF Len(path) = 1 THEN IsKept(o, <<path>>)
       ELSE IsKept(Lookup(ParentOf, <<o, path[1]>>, o), <<Tail(path)>>)
PassOf(w) == IF script.persons /\ w.object = Accounts /\ w.source \in script.people THEN "person" ELSE "business"
Shown(w, f) == Read(RowOf(w.id), MapName(Maps, w.object, f)[1])

OwnValues ==
  \A w \in {x \in wrote : KeyIsKept(x.object)} :
    \A f \in PassFields(w.object, "forwards", PassOf(w)) \ {Id, Own} :
      LET v == Source(w.object)[w.source][f]
      IN (IsKept(w.object, f) /\ ~IsLookup(w.object, f) /\ v \notin Falsy) => Shown(w, f) = v

KindsApart ==
  \A w \in {x \in wrote : script.persons /\ x.object = Accounts} :
    LET row == RowOf(w.id)
    IN /\ IF w.source \in script.people
          THEN Name \notin DOMAIN row /\ \E f \in PersonOnly : Text(Value(row, f)) # ""
          ELSE Text(Value(row, Name)) # "" /\ PersonOnly \cap DOMAIN row = {}
       /\ \A x \in wrote : (x.object = w.object /\ x.source = w.source /\ x.run = w.run) => x = w

\* Whatever filters leave out or reorder, the row a record was inserted as holds that
\* record's own values, under their names in the target, in all fields that the script
\* neither masks nor maps nor cuts, as long as it leaves the object's key alone.  However the medium spells the flag, a person account
\* is inserted with a first or last name and no full name, a business account with a full
\* name only, and either is inserted once in a run.
OwnData == OwnValues /\ KindsApart

\* The contact of a person account inserted in this run is linked with the row the platform
\* made for that account, so that records that look it up can be written.
PersonContactsOfOwnAccount ==
  stage # "contacts" /\ Contacts \in Objects =>
    \A w \in {x \in wrote : x.run = run /\ x.object = Accounts /\ PassOf(x) = "person"} :
      \A c \in DOMAIN Source(Contacts) :
        Source(Contacts)[c][Plain("AccountId")] = Source(Accounts)[w.source][Id] =>
          /\ link[Contacts][c] # None
          /\ Value(link[Contacts][c], MapName(Maps, Contacts, Plain("AccountId"))) = w.id

\* Masked without exceptions
IsMasked(o, f) ==
  LET patterns == PatternOf(script.mocks[o], f)
  IN /\ patterns # <<>> /\ f \in UpdateFields(o)
     /\ \A g \in UpdateFields(o) : LET q == PatternOf(script.mocks[o], g)
          IN q # <<>> => q[1].excluded = {} /\ q[1].included = script.anything
Original(o, i, f, v) == v \notin Falsy /\ v = Value(Source(o)[i], f)

\* The column of a file that shows a part of the parent's key for a lookup; flat source
\* records may have it as one of their own.
ReferenceColumn(f, part) == << <<RelationName(f[1][1])>> \o part>>
IsOwnColumn(o, i, f) == f \in DOMAIN Columns(Source(o)[i])

\* A value masked without exceptions is shown neither in the row of its record, nor in a
\* file, nor in the reference columns that are filled in for the children written after it.
\* A reference column that the child's source record has itself is not filled in: it keeps
\* the parent's unmasked key.
MaskedThroughout ==
  /\ \A w \in wrote : \A f \in PassFields(w.object, "forwards", PassOf(w)) \ {Id, Own} :
       IsMasked(w.object, f) => ~Original(w.object, w.source, f, Shown(w, f))
  /\ \A o \in DOMAIN files : \A k \in DOMAIN files[o] :
       LET row == files[o][k].row IN
       /\ \A f \in DOMAIN row : IsMasked(o, f) => ~Original(o, files[o][k].source, f, row[f])
       /\ \A f \in {g \in UpdateFields(o) : IsLookup(o, g)} :
            LET p == Parent(o, f)
                child == files[o][k].source IN
            \A i \in IF p \in DOMAIN files THEN SourceById(p, Value(Source(o)[child], f)) ELSE {} :
              (IsBefore(p, o) /\ \E q \in DOMAIN files[p] : files[p][q].source = i) =>
                \A part \in ToSet(script.key[p]) :
                  (IsMasked(p, <<part>>) /\ ~IsOwnColumn(o, child, ReferenceColumn(f, part))) =>
                    ~Original(p, i, <<part>>, Value(row, ReferenceColumn(f, part)))

\* The reference columns of a file's row show what the row of its parent, written before,
\* shows as its key, so that the files can be loaded again
\* (migration-job-task.test.ts: uses projected parent external ids).  Where the source had
\* them as columns of its own, they agree with the lookup Id, value mapping included.
ReferencesMeetRows ==
  \A o \in DOMAIN files : \A k \in DOMAIN files[o] : \A f \in {g \in UpdateFields(o) : IsLookup(o, g)} :
    LET p == Parent(o, f)
        row == files[o][k].row
        id == Value(Source(o)[files[o][k].source], f)
        ref(part) == Text(Value(row, ReferenceColumn(f, part)))
    IN IF script.flat
       THEN f \in DOMAIN row =>
              \A i \in SourceWithKey(p, [n \in DOMAIN script.key[p] |-> ref(script.key[p][n])]) :
                row[f] = Source(p)[i][Id]
       ELSE \A q \in IF p \in DOMAIN files /\ IsBefore(p, o) THEN DOMAIN files[p] ELSE {} :
              Source(p)[files[p][q].source][Id] = id =>
                \A part \in ToSet(script.key[p]) : ref(part) = Text(Value(files[p][q].row, <<part>>))

\* A second run finds every row of the first one again and inserts no duplicate, when the
\* script keeps the key, the key is one the target's records are read by, and the row's
\* parents were linked.
FoundAgain ==
  (run = 2 /\ stage # "retrieve") =>
    \A w \in wrote :
      (/\ w.run = 1 /\ KeyIsKept(w.object) /\ TargetKeyIsRead(w.object) /\ script.operation[w.object] # "Insert"
       /\ \A i \in DOMAIN script.key[w.object] : LET path == MapName(Maps, w.object, script.key[w.object])[i]
            IN Len(path) = 1 \/ Value(RowOf(w.id), Plain(IdName(path[1]))) # Null)
      => link[w.object][w.source] # None /\ link[w.object][w.source][Id] = w.id

\* Each row inserted in a run is in a report file of that run with its Id: the report of one
\* pass does not replace that of another.  Files are named after the target object: of the
\* objects mapped to one target object only the report of the last one is sure to stay.
IsReplaced(o) == \E p \in Objects : IsBefore(o, p) /\ Target(p) = Target(o)
InsertsReported ==
  \A w \in wrote :
    (w.run = run /\ ~IsReplaced(w.object)) =>
      \E file \in DOMAIN reports : file[1] = Target(w.object) /\ w.id \in reports[file]

=============================================================================
