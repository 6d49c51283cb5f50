--------------------------- MODULE MigrationUpdate ---------------------------
(***************************************************************************)
(* The data part of one object set of an SFDMU migration job whose target  *)
(* is a Salesforce org: MigrationJob.executeAsync and the MigrationJobTask *)
(* methods it calls.                                                       *)
(*                                                                         *)
(*   delete old target rows -> retrieve and match target rows              *)
(*     -> forward pass (inserts, updates, acyclic lookups)                 *)
(*     -> two backward passes (every lookup, updates only)                 *)
(*     -> delete by hierarchy                                              *)
(*                                                                         *)
(* The client runs one task at a time (Common.serialExecAsync).  What is   *)
(* nondeterministic is the org (which rows of a DML call are accepted,     *)
(* which Ids new rows get, whether the whole call throws after having      *)
(* committed some rows), the user (who may refuse to go on when parents    *)
(* are missing) and whoever starts the same job again afterwards.          *)
(*                                                                         *)
(* Sets that delete something from the source are left out: their forward  *)
(* pass is for the tasks that delete alone (RunService).                   *)
(***************************************************************************)
EXTENDS Integers, Sequences, FiniteSets

CONSTANTS
  Objects,        \* the sObjects of the set: one MigrationJobTask each
  TaskOrder,      \* job.tasks
  DeleteOrder,    \* job.deleteTasks
  Op,             \* operation of each object after normalisation
  DeleteOldData,  \* objects with scriptObject.deleteOldData
  SkipExisting,   \* objects with scriptObject.skipExistingRecords
  AlwaysUpdate,   \* objects with scriptObject.skipRecordsComparison
  Fields,         \* the lookup fields in the queries
  FieldObject,    \* the object a lookup field belongs to
  ParentObject,   \* field.parentLookupObject
  Creatable,      \* lookup fields an Insert may write
  Updateable,     \* lookup fields an Update may write
  Sources,        \* the source records retrieved
  Keys,           \* <<object, external id value>> pairs
  KeyOf,          \* the external id value of a source record
  KeyObject,      \* the object of a key
  Rank,           \* order in which source records were registered
  Ref,            \* Ref[s][f]: the source record lookup f of s points to
  Dangling,       \* a lookup value whose record was not retrieved
  Values, Val,    \* the non-lookup payload of a record
  Keeps,          \* records the target filter keeps, for each update mode
  TargetIds,      \* Ids of target rows
  InitialOrg,     \* what the target org may hold at first: [live, org] records
  None,           \* null
  PromptOnMissing,\* script.promptOnMissingParentObjects
  MaxRuns         \* bound: how often the job is started

ASSUME ShapeAssumption ==
  /\ TaskOrder \in Seq(Objects) /\ DeleteOrder \in Seq(Objects)
  /\ Op \in [Objects -> {"Insert", "Update", "Upsert", "Readonly", "Delete", "DeleteHierarchy"}]
  /\ FieldObject \in [Fields -> Objects] /\ ParentObject \in [Fields -> Objects]
  /\ KeyOf \in [Sources -> Keys] /\ KeyObject \in [Keys -> Objects]
  /\ Rank \in [Sources -> Nat]
  /\ Val \in [Sources -> Values]
  /\ Keeps \in [{"forwards", "backwards"} -> SUBSET Sources]
  /\ PromptOnMissing \in BOOLEAN /\ MaxRuns \in Nat

ASSUME NullAssumption ==
  None \notin TargetIds /\ None \notin Sources /\ Dangling \notin Sources

\* Source records are registered one after the other: of any, one is the last.
ASSUME LastAssumption ==
  /\ \A s, d \in Sources : Rank[s] = Rank[d] => s = d
  /\ \A S \in (SUBSET Sources) \ {{}} : \E d \in S : \A e \in S : Rank[e] <= Rank[d]

\* A lookup value is resolved among the records of the field's parent object.
ASSUME RefAssumption ==
  /\ Ref \in [Sources -> [Fields -> Sources \cup {None, Dangling}]]
  /\ \A s \in Sources, f \in Fields :
       Ref[s][f] \in Sources => KeyObject[KeyOf[Ref[s][f]]] = ParentObject[f]

\* One task per object of the set.
ASSUME TasksAssumption ==
  /\ \A o \in Objects : \E i \in DOMAIN TaskOrder : TaskOrder[i] = o
  /\ \A i, j \in DOMAIN TaskOrder : TaskOrder[i] = TaskOrder[j] => i = j

VARIABLES
  run,            \* how often the job has been started
  phase,          \* the stage of executeAsync
  k,              \* index of the current task in that stage's task list
  step,           \* where the current task's updateRecordsAsync stands
  toInsert,       \* processedData.recordsToInsert, by source record
  toUpdate,       \* processedData.recordsToUpdate: target Id per source, or None
  link,           \* sourceToTargetRecordMap: target Id per source, or None
  snap,           \* the fields of the linked target record held in memory
  missing,        \* allMissingParentLookups
  noAbortPrompt,  \* the user was already asked
  live,           \* Ids of the rows the target org holds
  org,            \* the rows of the target org
  failed,         \* (history) rows the org rejected, by source record and pass
  born,           \* (history) the source record a row was inserted for
  created,        \* (history) the rows created by this run
  settled         \* (history) an earlier run ended without a rejected row

client == <<toInsert, toUpdate, link, snap, missing, noAbortPrompt>>
target == <<live, org, born, created>>
history == <<failed, settled>>
vars == <<run, phase, k, step, client, target, history>>

PassNames == {"forwards", "backwards1", "backwards2"}
PhaseNames == PassNames \cup {"deleteOld", "retrieve", "deleteHierarchy", "done", "aborted"}

OrNull(S) == S \cup {None}
Snapshots == [val : OrNull(Values), look : [Fields -> OrNull(TargetIds)]]
Rows == [key : Keys, val : Values, look : [Fields -> OrNull(TargetIds)]]
NoLookups == [f \in Fields |-> None]
NoSnapshot == [val |-> None, look |-> NoLookups]

ASSUME InitialOrgAssumption ==
  InitialOrg \subseteq [live : SUBSET TargetIds, org : [TargetIds -> Rows]]

-----------------------------------------------------------------------------
(***************************************************************************)
(* The job's plan, fixed before execution.                                 *)
(***************************************************************************)
ObjectOf(s) == KeyObject[KeyOf[s]]
FieldsOf(o) == {f \in Fields : FieldObject[f] = o}

\* TaskData.prevTasks: the tasks before o's in job.tasks.
PrevObjects(o) ==
  {p \in Objects : \E i, j \in DOMAIN TaskOrder :
                     i < j /\ TaskOrder[i] = p /\ TaskOrder[j] = o}

\* Mutant: the backward passes carry no circular or self reference either.
PassFields_Earlier(o) == {f \in FieldsOf(o) : ParentObject[f] \in PrevObjects(o)}

\* The first pass carries only lookups to tasks that already ran; the later
\* ones carry every lookup (and no other field).
Mode == IF phase = "forwards" THEN "forwards" ELSE "backwards"
PassFields(o) ==
  IF Mode = "forwards"
  THEN {f \in FieldsOf(o) : ParentObject[f] \in PrevObjects(o)}
  ELSE FieldsOf(o)

\* The object whose task has the turn in a list of tasks.
Current(list) == list[k]

\* Mutant: the target is not queried for upserts.
Queried_NotUpsert(o) == Op[o] \in {"Update", "Readonly", "DeleteHierarchy"}

\* retrieveRecordsAsync: Insert never queries the target, and a plain Delete
\* task queries nothing.
Queried(o) == Op[o] \in {"Update", "Upsert", "Readonly", "DeleteHierarchy"}

\* sourceData.extIdToRecordIdMap keeps the last record registered under an
\* external id: the only one a retrieved target row can be linked to.
IsRegistered(s) == \A d \in Sources : KeyOf[d] = KeyOf[s] => Rank[d] <= Rank[s]

\* Rows of the org that a target query of s's object returns for s's key.
RowsMatching(s) == {t \in live : org[t].key = KeyOf[s]}
RowsOf(o) == {t \in live : KeyObject[org[t].key] = o}

-----------------------------------------------------------------------------
(***************************************************************************)
(* What a pass computes for one source record.                             *)
(***************************************************************************)
\* Mutant: the record is taken for its parent.
LookupValue_Self(s, f) == IF Ref[s][f] \in Sources THEN link[s] ELSE None

\* _updateLookupIdFields: null, or the target Id of the linked parent.
LookupValue(s, f) ==
  IF Ref[s][f] \in Sources THEN link[Ref[s][f]] ELSE None

Prepared(o) == {s \in Sources : ObjectOf(s) = o}
\* Mutant: values that are not the Id of a retrieved record are forgotten.
MissingParents_Known(o) ==
  {e \in Prepared(o) \X PassFields(o) :
     Ref[e[1]][e[2]] \in Sources /\ LookupValue(e[1], e[2]) = None}
MissingParents(o) ==
  {e \in Prepared(o) \X PassFields(o) :
     Ref[e[1]][e[2]] # None /\ LookupValue(e[1], e[2]) = None}
Working(o) == {s \in Prepared(o) : s \in Keeps[Mode]}

\* _compareRecords against the record kept in memory, not against the org.
Differs(s) ==
  \/ Mode = "forwards" /\ snap[s].val # Val[s]
  \/ \E f \in PassFields(ObjectOf(s)) : snap[s].look[f] # LookupValue(s, f)

\* _classifyForwardsRecord, _classifyBackwardsRecord.
RecordsToInsert(o) ==
  {s \in Working(o) : /\ Mode = "forwards"
                      /\ link[s] = None
                      /\ Op[o] \in {"Insert", "Upsert"}}
MayUpdate(o) == Mode = "backwards" \/ Op[o] \in {"Update", "Upsert"}
RecordsToUpdate(o) ==
  {s \in Working(o) : /\ link[s] # None
                      /\ o \notin SkipExisting
                      /\ MayUpdate(o)
                      /\ o \in AlwaysUpdate \/ Differs(s)}

\* Mutant: an Update sends null for the lookups another pass carries.
UpdatedRow_AllFields(s, row) ==
  [key |-> row.key,
   val |-> IF Mode = "forwards" THEN Val[s] ELSE row.val,
   look |-> [f \in Fields |-> IF f \in PassFields(ObjectOf(s)) THEN LookupValue(s, f) ELSE None]]

\* What an Insert or an Update writes into a row.
InsertedLookups(s) ==
  [f \in Fields |-> IF f \in PassFields(ObjectOf(s)) \cap Creatable
                    THEN LookupValue(s, f) ELSE None]
InsertedRow(s) == [key |-> KeyOf[s], val |-> Val[s], look |-> InsertedLookups(s)]
UpdatedRow(s, row) ==
  [key |-> row.key,
   val |-> IF Mode = "forwards" THEN Val[s] ELSE row.val,
   look |-> [f \in Fields |-> IF f \in PassFields(ObjectOf(s)) \cap Updateable
                              THEN LookupValue(s, f) ELSE row.look[f]]]

-----------------------------------------------------------------------------
(***************************************************************************)
(* The stages.                                                             *)
(***************************************************************************)
Init ==
  /\ run = 1 /\ phase = "deleteOld" /\ k = 1 /\ step = "prepare"
  /\ toInsert = {} /\ toUpdate = [s \in Sources |-> None]
  /\ link = [s \in Sources |-> None] /\ snap = [s \in Sources |-> NoSnapshot]
  /\ missing = {} /\ noAbortPrompt = FALSE
  /\ \E initial \in InitialOrg : live = initial.live /\ org = initial.org
  /\ born = [t \in TargetIds |-> None]
  /\ failed = {} /\ created = {} /\ settled = FALSE

GoTo(stage) == phase' = stage /\ k' = 1 /\ step' = "prepare"
NextTask == /\ k' = k + 1 /\ step' = "prepare" /\ UNCHANGED phase
Abort == /\ phase' = "aborted" /\ UNCHANGED <<k, step>>

\* The org drops the rows of gone; lookups to them become null.
WithoutLookups(row, gone) ==
  [row EXCEPT !.look = [f \in Fields |-> IF row.look[f] \in gone THEN None ELSE row.look[f]]]
RowsGone(gone) ==
  /\ live' = live \ gone
  /\ org' = [t \in TargetIds |-> WithoutLookups(org[t], gone)]
  /\ UNCHANGED <<born, created>>

\* Mutant: deleteOldData is not looked at.
DeleteOld_Always ==
  /\ phase = "deleteOld" /\ k <= Len(DeleteOrder)
  /\ \E gone \in SUBSET RowsOf(Current(DeleteOrder)) : RowsGone(gone) /\ (NextTask \/ Abort)
  /\ UNCHANGED <<run, client, history>>

\* deleteOldRecordsAsync: the org may refuse some rows, and the call may throw
\* after some were deleted.
DeleteOld ==
  /\ phase = "deleteOld" /\ k <= Len(DeleteOrder)
  /\ LET o == Current(DeleteOrder) IN
     IF o \in DeleteOldData /\ Op[o] # "Readonly"
     THEN \E gone \in SUBSET RowsOf(o) : RowsGone(gone) /\ (NextTask \/ Abort)
     ELSE NextTask /\ UNCHANGED target
  /\ UNCHANGED <<run, client, history>>

DeleteOldDone ==
  /\ phase = "deleteOld" /\ k > Len(DeleteOrder)
  /\ GoTo("retrieve")
  /\ UNCHANGED <<run, client, target, history>>

\* The target pass of _retrieveRecordsAsync: registerRecords links every
\* retrieved target row to the source record registered under its key; of
\* several rows with one key the last one stays.  Rows of objects deleted by hierarchy
\* are found here by a plain external id; for another key nothing is asked (Retrieval).
Retrieve ==
  /\ phase = "retrieve"
  /\ \E m \in [Sources -> OrNull(TargetIds)] :
       /\ \A s \in Sources :
            IF Queried(ObjectOf(s)) /\ IsRegistered(s) /\ RowsMatching(s) # {}
            THEN m[s] \in RowsMatching(s)
            ELSE m[s] = None
       /\ link' = m
       /\ snap' = [s \in Sources |->
                     IF m[s] = None THEN NoSnapshot
                     ELSE [val |-> org[m[s]].val, look |-> org[m[s]].look]]
  /\ GoTo("forwards")
  /\ UNCHANGED <<run, toInsert, toUpdate, missing, noAbortPrompt, target, history>>

\* Mutant: an object without updates does not hand on the turn.
SkipTask_Stays ==
  /\ phase \in PassNames /\ step = "prepare" /\ k <= Len(TaskOrder)
  /\ Op[Current(TaskOrder)] \in {"Readonly", "Delete", "DeleteHierarchy"}
  /\ UNCHANGED vars

\* updateRecordsAsync returns at once for these objects.
SkipTask ==
  /\ phase \in PassNames /\ step = "prepare" /\ k <= Len(TaskOrder)
  /\ Op[Current(TaskOrder)] \in {"Readonly", "Delete", "DeleteHierarchy"}
  /\ NextTask
  /\ UNCHANGED <<run, client, target, history>>

\* _createProcessedDataAsync, the missing-parent report and prompt, and
\* _populateProcessedRecords.
Prepare ==
  LET o == Current(TaskOrder) IN
  /\ phase \in PassNames /\ step = "prepare" /\ k <= Len(TaskOrder)
  /\ Op[o] \in {"Insert", "Update", "Upsert"}
  /\ missing' = missing \cup MissingParents(o)
  /\ \/ /\ noAbortPrompt' = (noAbortPrompt \/ MissingParents(o) # {})
        /\ toInsert' = RecordsToInsert(o)
        /\ toUpdate' = [s \in Sources |-> IF s \in RecordsToUpdate(o) THEN link[s] ELSE None]
        /\ step' = "insert"
        /\ UNCHANGED <<phase, k>>
     \/ \* the user refuses to continue the job
        /\ MissingParents(o) # {} /\ PromptOnMissing /\ ~noAbortPrompt
        /\ Abort
        /\ UNCHANGED <<toInsert, toUpdate, noAbortPrompt>>
  /\ UNCHANGED <<run, link, snap, target, history>>

\* The rows of ok exist in the org, under fresh Ids.
RowsCreated(ok, id) ==
  /\ \A s \in ok : id[s] \notin live /\ born[id[s]] = None
  /\ \A s, d \in ok : s # d => id[s] # id[d]
  /\ live' = live \cup {id[s] : s \in ok}
  /\ created' = created \cup {id[s] : s \in ok}
  /\ org' = [t \in TargetIds |->
               IF \E s \in ok : id[s] = t
               THEN InsertedRow(CHOOSE s \in ok : id[s] = t) ELSE org[t]]
  /\ born' = [t \in TargetIds |->
               IF \E s \in ok : id[s] = t THEN CHOOSE s \in ok : id[s] = t ELSE born[t]]

\* _registerInsertedTargetRecords: registerRecords links the source record
\* registered under the key of each new row (the last new row stays), then every
\* row is linked to the source record it was made from.  Insert tasks have the
\* external id 'Id', which no source record shares with a new row.
LastInserted(s, ok) ==
  CHOOSE d \in ok : /\ KeyOf[d] = KeyOf[s]
                    /\ \A e \in ok : KeyOf[e] = KeyOf[s] => Rank[e] <= Rank[d]
LinkedRow(s, ok) ==
  IF s \in ok THEN s
  ELSE IF /\ Op[ObjectOf(s)] = "Upsert" /\ IsRegistered(s)
          /\ \E d \in ok : KeyOf[d] = KeyOf[s]
       THEN LastInserted(s, ok)
       ELSE None
RegisterInserted(ok, id) ==
  /\ link' = [s \in Sources |-> IF LinkedRow(s, ok) = None THEN link[s]
                                ELSE id[LinkedRow(s, ok)]]
  /\ snap' = [s \in Sources |->
                IF LinkedRow(s, ok) = None THEN snap[s]
                ELSE [val |-> Val[LinkedRow(s, ok)],
                      look |-> InsertedLookups(LinkedRow(s, ok))]]

\* The Insert call of _updateRecordsForPassAsync: the org accepts some rows.
InsertRows ==
  /\ phase \in PassNames /\ step = "insert"
  /\ \E ok \in SUBSET toInsert : \E id \in [ok -> TargetIds \ live] :
       /\ RowsCreated(ok, id)
       /\ RegisterInserted(ok, id)
       /\ failed' = failed \cup ((toInsert \ ok) \X {phase})
  /\ toInsert' = {} /\ step' = "update"
  /\ UNCHANGED <<run, phase, k, toUpdate, missing, noAbortPrompt, settled>>

\* The call throws (a batch or a parallel chunk failed): what other batches
\* created stays in the org, nothing is registered and the job ends.
InsertThrows ==
  /\ phase \in PassNames /\ step = "insert" /\ toInsert # {}
  /\ \E ok \in SUBSET toInsert : \E id \in [ok -> TargetIds \ live] : RowsCreated(ok, id)
  /\ Abort
  /\ UNCHANGED <<run, client, history>>

\* The rows an Update call changes: when several records update one row, the
\* last one the org accepted decides.
RowsUpdated(ok) ==
  /\ \A s \in ok : toUpdate[s] \in live
  /\ \A s, d \in ok : s # d => toUpdate[s] # toUpdate[d]
  /\ org' = [t \in TargetIds |->
               IF \E s \in ok : toUpdate[s] = t
               THEN UpdatedRow(CHOOSE s \in ok : toUpdate[s] = t, org[t]) ELSE org[t]]
  /\ UNCHANGED <<live, born, created>>
UpdateSet == {s \in Sources : toUpdate[s] # None}

\* The Update call.  _registerUpdatedTargetRecords keeps the record linked before
\* the call, so the fields held in memory do not change.
UpdateRows ==
  /\ phase \in PassNames /\ step = "update"
  /\ \E ok \in SUBSET UpdateSet :
       /\ RowsUpdated(ok)
       /\ failed' = failed \cup ((UpdateSet \ ok) \X {phase})
  /\ toUpdate' = [s \in Sources |-> None]
  /\ NextTask
  /\ UNCHANGED <<run, toInsert, link, snap, missing, noAbortPrompt, settled>>

UpdateThrows ==
  /\ phase \in PassNames /\ step = "update" /\ UpdateSet # {}
  /\ \E ok \in SUBSET UpdateSet : RowsUpdated(ok)
  /\ Abort
  /\ UNCHANGED <<run, client, history>>

PassDone ==
  /\ phase \in PassNames /\ step = "prepare" /\ k > Len(TaskOrder)
  /\ GoTo(CASE phase = "forwards" -> "backwards1"
             [] phase = "backwards1" -> "backwards2"
             [] phase = "backwards2" -> "deleteHierarchy")
  /\ UNCHANGED <<run, client, target, history>>

\* deleteRecordsAsync: the target rows linked to the retrieved source records.
DeleteHierarchy ==
  /\ phase = "deleteHierarchy" /\ k <= Len(DeleteOrder)
  /\ LET o == Current(DeleteOrder) IN
     IF Op[o] = "DeleteHierarchy"
     THEN \E gone \in SUBSET ({link[s] : s \in Prepared(o)} \cap live) :
            RowsGone(gone) /\ (NextTask \/ Abort)
     ELSE NextTask /\ UNCHANGED target
  /\ UNCHANGED <<run, client, history>>

Finish ==
  /\ phase = "deleteHierarchy" /\ k > Len(DeleteOrder)
  /\ GoTo("done")
  /\ UNCHANGED <<run, client, target, history>>

\* The same job is started again: only the orgs remember the earlier run.
Rerun ==
  /\ phase \in {"done", "aborted"} /\ run < MaxRuns
  /\ run' = run + 1
  /\ GoTo("deleteOld")
  /\ toInsert' = {} /\ toUpdate' = [s \in Sources |-> None]
  /\ link' = [s \in Sources |-> None] /\ snap' = [s \in Sources |-> NoSnapshot]
  /\ missing' = {} /\ noAbortPrompt' = FALSE
  /\ failed' = {} /\ settled' = (settled \/ (phase = "done" /\ failed = {}))
  /\ created' = {}
  /\ UNCHANGED <<live, org, born>>

Terminated == phase \in {"done", "aborted"} /\ run = MaxRuns /\ UNCHANGED vars

Step ==
  \/ DeleteOld \/ DeleteOldDone \/ Retrieve
  \/ SkipTask \/ Prepare \/ InsertRows \/ InsertThrows \/ UpdateRows \/ UpdateThrows
  \/ PassDone \/ DeleteHierarchy \/ Finish
Next == Step \/ Rerun \/ Terminated

Spec == Init /\ [][Next]_vars

\* Every await of the job settles: a started job takes its next step.  Nothing
\* obliges anybody to start it again.
FairSpec == Spec /\ WF_vars(Step)

-----------------------------------------------------------------------------
(***************************************************************************)
(* Properties.                                                             *)
(***************************************************************************)
TypeOK ==
  /\ run \in Nat /\ k \in Nat \ {0} /\ phase \in PhaseNames /\ step \in {"prepare", "insert", "update"}
  /\ toInsert \subseteq Sources
  /\ toUpdate \in [Sources -> OrNull(TargetIds)]
  /\ link \in [Sources -> OrNull(TargetIds)]
  /\ snap \in [Sources -> Snapshots]
  /\ missing \subseteq Sources \X Fields
  /\ noAbortPrompt \in BOOLEAN
  /\ live \subseteq TargetIds
  /\ org \in [TargetIds -> Rows]
  /\ failed \subseteq Sources \X PassNames
  /\ born \in [TargetIds -> OrNull(Sources)]
  /\ created \subseteq TargetIds
  /\ settled \in BOOLEAN

\* A source record is only ever linked to a target row with its own external id,
\* and that row is there for as long as the update passes use the link: however
\* rows were matched, inserted, rejected or re-registered on the way.
LinkedToOwnKey ==
  \A s \in Sources : link[s] # None =>
    /\ org[link[s]].key = KeyOf[s]
    /\ phase \in PassNames => link[s] \in live

\* External ids of upserted records are unique, in the source and in the target at first.
UniqueSourceKeys ==
  \A s, d \in Sources : KeyOf[s] = KeyOf[d] /\ Op[ObjectOf(s)] = "Upsert" => s = d
UniqueKeys ==
  /\ UniqueSourceKeys
  /\ \A initial \in InitialOrg : \A t, u \in initial.live :
       initial.org[t].key = initial.org[u].key /\ Op[KeyObject[initial.org[t].key]] = "Upsert"
         => t = u

\* Upserting never leaves two rows with one external id, even when a run is cut
\* short after the org took some rows and the job is started again.
NoDuplicateRows ==
  \A t, u \in live :
    org[t].key = org[u].key /\ Op[KeyObject[org[t].key]] = "Upsert" => t = u

\* Some source record with external id key refers by f to one with external id parent.
HasParent(key, f, parent) ==
  \E s \in Sources : KeyOf[s] = key /\ Ref[s][f] \in Sources /\ KeyOf[Ref[s][f]] = parent

\* A lookup the job wrote into a row it created points to the row of the parent
\* some source record with that external id has: never to a stranger, never to a
\* row that is gone.
ParentsAreRight ==
  \A t \in live : born[t] # None =>
    \A f \in Fields : org[t].look[f] # None =>
      org[t].look[f] \in live /\ HasParent(org[t].key, f, org[org[t].look[f]].key)

UpdatesOver == phase \in {"deleteHierarchy", "done"}
Processed(s) == Op[ObjectOf(s)] \in {"Insert", "Update", "Upsert"}

Resolved(s) ==
  \A f \in FieldsOf(ObjectOf(s)) \cap Updateable :
    Ref[s][f] \in Sources /\ link[Ref[s][f]] \in live
      => org[link[s]].look[f] = link[Ref[s][f]]
LookupsComplete ==
  UpdatesOver =>
    \A s \in Sources :
      /\ Processed(s) /\ ObjectOf(s) \notin SkipExisting
      /\ link[s] \in live /\ s \in Keeps["backwards"]
      /\ <<s, "backwards2">> \notin failed
      => Resolved(s)
CreateOnlyLookupsSet ==
  phase \in PassNames =>
    \A s \in Sources : link[s] \in live \cap created /\ born[link[s]] = s =>
      \A f \in (FieldsOf(ObjectOf(s)) \cap Creatable) \ Updateable :
        /\ ParentObject[f] \in PrevObjects(ObjectOf(s)) /\ Ref[s][f] \in Sources
        => org[link[s]].look[f] = link[Ref[s][f]]

\* The point of the order of tasks and of the two backward passes: when the updates
\* are over, every lookup that may be updated, circular and self references included,
\* holds the row its parent is linked to, unless the org refused the record's last
\* update; and a lookup that cannot be changed later (master-detail) to an object of
\* an earlier task is right from the moment the row is created.
GraphComplete == LookupsComplete /\ CreateOnlyLookupsSet

\* No reference is lost silently: a lookup of a processed record whose parent has
\* no target row is in the missing-parents report.
LossesReported ==
  UpdatesOver =>
    \A s \in Sources : \A f \in FieldsOf(ObjectOf(s)) :
      Processed(s) /\ Ref[s][f] # None /\ LookupValue(s, f) = None => <<s, f>> \in missing

\* Starting a job again after a run without rejected rows changes nothing: the
\* comparison with the retrieved rows makes an update job idempotent.
SettledRerun == [][settled => UNCHANGED <<live, org>>]_vars

\* Target rows disappear only where the script says so: old data of objects with
\* deleteOldData before anything is read, and under deleteByHierarchy the rows
\* carrying the external id of a retrieved source record.
OnlyAskedDeletions ==
  [][\A t \in live \ live' :
       \/ phase = "deleteOld" /\ KeyObject[org[t].key] \in DeleteOldData
       \/ phase = "deleteHierarchy" /\ \E s \in Sources :
            Op[ObjectOf(s)] = "DeleteHierarchy" /\ KeyOf[s] = org[t].key]_vars

\* Every started job ends.
JobEnds == []<>(phase \in {"done", "aborted"})
=============================================================================
