----------------------- MODULE MigrationUpdateProofs -----------------------
(***************************************************************************)
(* Proofs about MigrationUpdate for every plan, every set of records and   *)
(* every initial org: that rows and lookups are right, then that a job     *)
(* completes the graph of records: nothing is lost silently, every lookup  *)
(* that can be carried over is, the job implements GraphCopy, and starting *)
(* it again changes nothing.                                               *)
(***************************************************************************)
EXTENDS MigrationRefinement, TLAPS

\* What _updateLookupIdFields computes is null or the Id of a target row.
LEMMA LookupValueType ==
  ASSUME TypeOK, NEW s \in Sources, NEW f \in Fields
  PROVE  LookupValue(s, f) \in OrNull(TargetIds)
BY RefAssumption DEF LookupValue, TypeOK, OrNull

\* Rows and snapshots built from a source record are well formed.
LEMMA InsertedRowType ==
  ASSUME TypeOK, NEW s \in Sources
  PROVE  /\ InsertedLookups(s) \in [Fields -> OrNull(TargetIds)]
         /\ InsertedRow(s) \in Rows
         /\ [val |-> Val[s], look |-> InsertedLookups(s)] \in Snapshots
<1>1. InsertedLookups(s) \in [Fields -> OrNull(TargetIds)]
  BY LookupValueType DEF InsertedLookups, OrNull
<1>2. Val[s] \in Values /\ KeyOf[s] \in Keys
  BY ShapeAssumption
<1>3. QED
  BY <1>1, <1>2 DEF InsertedRow, Rows, Snapshots, OrNull

\* An update leaves a row with its key.
LEMMA UpdatedRowType ==
  ASSUME TypeOK, NEW s \in Sources, NEW row \in Rows
  PROVE  UpdatedRow(s, row) \in Rows /\ UpdatedRow(s, row).key = row.key
<1>1. Val[s] \in Values
  BY ShapeAssumption
<1>2. [f \in Fields |-> IF f \in PassFields(ObjectOf(s)) \cap Updateable
                        THEN LookupValue(s, f) ELSE row.look[f]]
        \in [Fields -> OrNull(TargetIds)]
  BY LookupValueType DEF Rows
<1>3. QED
  BY <1>1, <1>2 DEF Rows, UpdatedRow

\* Deleting rows keeps the org well formed and every key where it was.
LEMMA RowsGoneType ==
  ASSUME TypeOK, NEW gone \in SUBSET TargetIds, RowsGone(gone)
  PROVE  /\ live' \subseteq TargetIds /\ org' \in [TargetIds -> Rows]
         /\ \A t \in TargetIds : org'[t].key = org[t].key
<1>1. ASSUME NEW row \in Rows
      PROVE  WithoutLookups(row, gone) \in Rows /\ WithoutLookups(row, gone).key = row.key
  <2> DEFINE kept == [f \in Fields |-> IF row.look[f] \in gone THEN None ELSE row.look[f]]
  <2>1. kept \in [Fields -> OrNull(TargetIds)]
    BY DEF Rows, OrNull
  <2>2. WithoutLookups(row, gone) = [row EXCEPT !.look = kept]
    BY DEF WithoutLookups
  <2> HIDE DEF kept
  <2>3. QED
    BY <2>1, <2>2 DEF Rows
<1>2. QED
  BY <1>1 DEF RowsGone, TypeOK

\* New rows are well formed, live and carry the key of the record they were made
\* from; rows that were live stay as they are.
LEMMA RowsCreatedType ==
  ASSUME TypeOK, NEW ok \in SUBSET toInsert, NEW id \in [ok -> TargetIds \ live],
         RowsCreated(ok, id)
  PROVE  /\ live' \subseteq TargetIds /\ org' \in [TargetIds -> Rows]
         /\ born' \in [TargetIds -> OrNull(Sources)] /\ created' \subseteq TargetIds
         /\ live \subseteq live' /\ \A s \in ok : id[s] \in live'
         /\ \A t \in live : org'[t] = org[t] /\ born'[t] = born[t]
         /\ \A s \in ok : org'[id[s]] = InsertedRow(s) /\ born'[id[s]] = s
<1>1. \A t \in TargetIds : (\E s \in ok : id[s] = t) =>
        (CHOOSE s \in ok : id[s] = t) \in ok /\ id[CHOOSE s \in ok : id[s] = t] = t
  OBVIOUS
<1>2. ok \subseteq Sources
  BY DEF TypeOK
<1>3. \A s \in ok : (CHOOSE d \in ok : id[d] = id[s]) = s
  BY DEF RowsCreated
<1>4. org' \in [TargetIds -> Rows]
  BY <1>1, <1>2, InsertedRowType DEF RowsCreated, TypeOK
<1>5. born' \in [TargetIds -> OrNull(Sources)]
  BY <1>1, <1>2 DEF RowsCreated, TypeOK, OrNull
<1>6. live' \subseteq TargetIds /\ created' \subseteq TargetIds
  BY DEF RowsCreated, TypeOK
<1>7. live \subseteq live' /\ \A s \in ok : id[s] \in live'
  BY DEF RowsCreated
<1>8. \A t \in live : org'[t] = org[t] /\ born'[t] = born[t]
  BY DEF RowsCreated, TypeOK
<1>9. \A s \in ok : org'[id[s]] = InsertedRow(s) /\ born'[id[s]] = s
  BY <1>3 DEF RowsCreated
<1>10. QED
  BY <1>4, <1>5, <1>6, <1>7, <1>8, <1>9

\* The record whose new row a source record is linked to was inserted by this
\* call and has the same external id.
LEMMA LinkedRowKey ==
  ASSUME NEW ok \in SUBSET Sources, NEW s \in Sources, LinkedRow(s, ok) # None
  PROVE  LinkedRow(s, ok) \in ok /\ KeyOf[LinkedRow(s, ok)] = KeyOf[s]
<1>1. CASE s \in ok
  BY <1>1 DEF LinkedRow
<1>2. CASE s \notin ok
  <2> DEFINE same == {d \in ok : KeyOf[d] = KeyOf[s]}
  <2>1. same # {} /\ LinkedRow(s, ok) = LastInserted(s, ok)
    BY <1>2 DEF LinkedRow
  <2>2. \E d \in ok : /\ KeyOf[d] = KeyOf[s]
                      /\ \A e \in ok : KeyOf[e] = KeyOf[s] => Rank[e] <= Rank[d]
    BY <2>1, LastAssumption
  <2>3. LastInserted(s, ok) \in ok /\ KeyOf[LastInserted(s, ok)] = KeyOf[s]
    BY <2>2 DEF LastInserted
  <2>4. QED
    BY <2>1, <2>3
<1>3. QED
  BY <1>1, <1>2

\* Registering the new rows keeps links and snapshots well formed.
LEMMA RegisterType ==
  ASSUME TypeOK, NEW ok \in SUBSET toInsert, NEW id \in [ok -> TargetIds \ live],
         RegisterInserted(ok, id)
  PROVE  /\ link' \in [Sources -> OrNull(TargetIds)]
         /\ snap' \in [Sources -> Snapshots]
<1>1. ok \in SUBSET Sources
  BY DEF TypeOK
<1>2. \A s \in Sources : LinkedRow(s, ok) # None =>
        LinkedRow(s, ok) \in ok /\ LinkedRow(s, ok) \in Sources
  BY <1>1, LinkedRowKey
<1>3. \A s \in Sources : LinkedRow(s, ok) # None =>
        [val |-> Val[LinkedRow(s, ok)], look |-> InsertedLookups(LinkedRow(s, ok))]
          \in Snapshots
  BY <1>2, InsertedRowType
<1>4. QED
  BY <1>2, <1>3 DEF RegisterInserted, TypeOK, OrNull

\* An Update call changes no key and leaves the org well formed.
LEMMA RowsUpdatedType ==
  ASSUME TypeOK, NEW ok \in SUBSET UpdateSet, RowsUpdated(ok)
  PROVE  /\ org' \in [TargetIds -> Rows]
         /\ \A t \in TargetIds : org'[t].key = org[t].key
<1>1. \A t \in TargetIds : (\E s \in ok : toUpdate[s] = t) =>
        (CHOOSE s \in ok : toUpdate[s] = t) \in Sources
  BY DEF UpdateSet
<1>2. QED
  BY <1>1, UpdatedRowType DEF RowsUpdated, TypeOK

-----------------------------------------------------------------------------
\* What is planned for the current task is well formed.
LEMMA PreparedType ==
  ASSUME TypeOK, Prepare
  PROVE  /\ toInsert' \subseteq Sources
         /\ toUpdate' \in [Sources -> OrNull(TargetIds)]
         /\ missing' \subseteq Sources \X Fields
         /\ noAbortPrompt' \in BOOLEAN
         /\ phase' \in PhaseNames /\ k' \in Nat \ {0}
         /\ step' \in {"prepare", "insert", "update"}
<1> DEFINE o == Current(TaskOrder)
<1>1. RecordsToInsert(o) \subseteq Sources
  BY DEF RecordsToInsert, Working, Prepared
<1>2. MissingParents(o) \subseteq Sources \X Fields
  BY DEF MissingParents, Prepared, PassFields, FieldsOf
<1>3. [s \in Sources |-> IF s \in RecordsToUpdate(o) THEN link[s] ELSE None]
        \in [Sources -> OrNull(TargetIds)]
  BY DEF TypeOK, OrNull
<1>4. missing' \subseteq Sources \X Fields
  BY <1>2 DEF Prepare, TypeOK
<1>5. CASE /\ noAbortPrompt' = (noAbortPrompt \/ MissingParents(o) # {})
           /\ toInsert' = RecordsToInsert(o)
           /\ toUpdate' = [s \in Sources |-> IF s \in RecordsToUpdate(o) THEN link[s] ELSE None]
           /\ step' = "insert" /\ UNCHANGED <<phase, k>>
  BY <1>1, <1>3, <1>4, <1>5 DEF TypeOK
<1>6. CASE Abort /\ UNCHANGED <<toInsert, toUpdate, noAbortPrompt>>
  BY <1>4, <1>6 DEF Abort, TypeOK, PhaseNames
<1>7. QED
  BY <1>5, <1>6 DEF Prepare

\* Moving on keeps the control state well formed.
LEMMA ControlType ==
  ASSUME TypeOK
  PROVE  /\ \A stage \in PhaseNames : GoTo(stage) =>
              phase' \in PhaseNames /\ k' \in Nat \ {0} /\ step' \in {"prepare", "insert", "update"}
         /\ NextTask \/ Abort =>
              phase' \in PhaseNames /\ k' \in Nat \ {0} /\ step' \in {"prepare", "insert", "update"}
BY DEF TypeOK, GoTo, NextTask, Abort, PhaseNames

\* A job starts without links, snapshots and updates.
LEMMA BlankType ==
  /\ [s \in Sources |-> None] \in [Sources -> OrNull(TargetIds)]
  /\ [s \in Sources |-> NoSnapshot] \in [Sources -> Snapshots]
  /\ [t \in TargetIds |-> None] \in [TargetIds -> OrNull(Sources)]
<1>1. NoLookups \in [Fields -> OrNull(TargetIds)]
  BY DEF NoLookups, OrNull
<1>2. NoSnapshot \in Snapshots
  BY <1>1 DEF NoSnapshot, Snapshots, OrNull
<1>3. QED
  BY <1>2 DEF OrNull

\* The initial state is well formed.
LEMMA InitType == Init => TypeOK
<1> SUFFICES ASSUME Init PROVE TypeOK
  OBVIOUS
<1>1. PICK initial \in InitialOrg : live = initial.live /\ org = initial.org
  BY DEF Init
<1>2. live \subseteq TargetIds /\ org \in [TargetIds -> Rows]
  BY <1>1, InitialOrgAssumption
<1>3. /\ toUpdate \in [Sources -> OrNull(TargetIds)] /\ link \in [Sources -> OrNull(TargetIds)]
      /\ snap \in [Sources -> Snapshots] /\ born \in [TargetIds -> OrNull(Sources)]
  BY BlankType, Zenon DEF Init
<1>4. /\ run \in Nat /\ k \in Nat \ {0} /\ phase \in PhaseNames
      /\ step \in {"prepare", "insert", "update"}
  BY DEF Init, PhaseNames
<1>5. /\ toInsert \subseteq Sources /\ missing \subseteq Sources \X Fields
      /\ failed \subseteq Sources \X PassNames /\ created \subseteq TargetIds
      /\ noAbortPrompt \in BOOLEAN /\ settled \in BOOLEAN
  BY DEF Init
<1>6. QED
  BY <1>2, <1>3, <1>4, <1>5 DEF TypeOK

\* Every step of the job keeps the state well formed.
LEMMA StepType == TypeOK /\ [Next]_vars => TypeOK'
<1> SUFFICES ASSUME TypeOK, [Next]_vars PROVE TypeOK'
  OBVIOUS
<1> USE DEF client, target, history
<1>1. CASE DeleteOld
  <2>1. \A o \in Objects : RowsOf(o) \subseteq TargetIds
    BY DEF RowsOf, TypeOK
  <2>2. \A o : RowsOf(o) \subseteq TargetIds
    BY DEF RowsOf, TypeOK
  <2>3. live' \subseteq TargetIds /\ org' \in [TargetIds -> Rows] /\ UNCHANGED <<born, created>>
    BY <1>1, <2>2, RowsGoneType DEF DeleteOld, RowsGone, TypeOK
  <2>4. NextTask \/ Abort
    BY <1>1 DEF DeleteOld
  <2>5. QED
    BY <1>1, <2>3, <2>4, ControlType DEF DeleteOld, TypeOK
<1>2. CASE DeleteOldDone
  BY <1>2, ControlType DEF DeleteOldDone, TypeOK, PhaseNames
<1>3. CASE Retrieve
  <2>1. PICK m \in [Sources -> OrNull(TargetIds)] :
          /\ link' = m
          /\ snap' = [s \in Sources |->
                        IF m[s] = None THEN NoSnapshot
                        ELSE [val |-> org[m[s]].val, look |-> org[m[s]].look]]
    BY <1>3 DEF Retrieve
  <2>2. NoSnapshot \in Snapshots
    BY DEF NoSnapshot, NoLookups, Snapshots, OrNull
  <2>3. \A t \in TargetIds : [val |-> org[t].val, look |-> org[t].look] \in Snapshots
    BY DEF TypeOK, Rows, Snapshots, OrNull
  <2>4. snap' \in [Sources -> Snapshots]
    BY <2>1, <2>2, <2>3 DEF OrNull
  <2>5. QED
    <3>1. phase' \in PhaseNames /\ k' \in Nat \ {0} /\ step' \in {"prepare", "insert", "update"}
      BY <1>3, ControlType DEF Retrieve, PhaseNames, PassNames
    <3>2. link' \in [Sources -> OrNull(TargetIds)]
      BY <2>1
    <3>3. QED
      BY <1>3, <2>4, <3>1, <3>2 DEF Retrieve, TypeOK
<1>4. CASE SkipTask
  BY <1>4, ControlType DEF SkipTask, TypeOK
<1>5. CASE Prepare
  BY <1>5, PreparedType DEF Prepare, TypeOK
<1>6. CASE InsertRows
  <2>a. PICK ok \in SUBSET toInsert : \E id \in [ok -> TargetIds \ live] :
          /\ RowsCreated(ok, id) /\ RegisterInserted(ok, id)
          /\ failed' = failed \cup ((toInsert \ ok) \X {phase})
    BY <1>6 DEF InsertRows
  <2>1. PICK id \in [ok -> TargetIds \ live] :
          /\ RowsCreated(ok, id) /\ RegisterInserted(ok, id)
          /\ failed' = failed \cup ((toInsert \ ok) \X {phase})
    BY <2>a
  <2>2. failed' \subseteq Sources \X PassNames
    BY <1>6, <2>1 DEF InsertRows, TypeOK
  <2>3. QED
    BY <1>6, <2>1, <2>2, RowsCreatedType, RegisterType DEF InsertRows, TypeOK
<1>7. CASE InsertThrows
  <2>a. PICK ok \in SUBSET toInsert : \E id \in [ok -> TargetIds \ live] : RowsCreated(ok, id)
    BY <1>7 DEF InsertThrows
  <2>1. PICK id \in [ok -> TargetIds \ live] : RowsCreated(ok, id)
    BY <2>a
  <2>2. QED
    BY <1>7, <2>1, RowsCreatedType, ControlType DEF InsertThrows, TypeOK
<1>8. CASE UpdateRows
  <2>1. PICK ok \in SUBSET UpdateSet :
          RowsUpdated(ok) /\ failed' = failed \cup ((UpdateSet \ ok) \X {phase})
    BY <1>8 DEF UpdateRows
  <2>2. failed' \subseteq Sources \X PassNames
    BY <1>8, <2>1 DEF UpdateRows, UpdateSet, TypeOK
  <2>3. toUpdate' \in [Sources -> OrNull(TargetIds)]
    BY <1>8 DEF UpdateRows, OrNull
  <2>4. QED
    BY <1>8, <2>1, <2>2, <2>3, RowsUpdatedType, ControlType DEF UpdateRows, RowsUpdated, TypeOK
<1>9. CASE UpdateThrows
  <2>1. PICK ok \in SUBSET UpdateSet : RowsUpdated(ok)
    BY <1>9 DEF UpdateThrows
  <2>2. QED
    BY <1>9, <2>1, RowsUpdatedType, ControlType DEF UpdateThrows, RowsUpdated, TypeOK
<1>10. CASE PassDone
  <2>1. \E stage \in PhaseNames : GoTo(stage)
    BY <1>10 DEF PassDone, PassNames, PhaseNames
  <2>2. QED
    BY <1>10, <2>1, ControlType DEF PassDone, TypeOK
<1>11. CASE DeleteHierarchy
  <2>1. \A o : {link[s] : s \in Prepared(o)} \cap live \subseteq TargetIds
    BY DEF TypeOK
  <2>2. live' \subseteq TargetIds /\ org' \in [TargetIds -> Rows] /\ UNCHANGED <<born, created>>
    BY <1>11, <2>1, RowsGoneType DEF DeleteHierarchy, RowsGone, TypeOK
  <2>3. NextTask \/ Abort
    BY <1>11 DEF DeleteHierarchy
  <2>4. QED
    BY <1>11, <2>2, <2>3, ControlType DEF DeleteHierarchy, TypeOK
<1>12. CASE Finish
  BY <1>12, ControlType DEF Finish, TypeOK, PhaseNames
<1>13. CASE Rerun
  <2>1. /\ toUpdate' \in [Sources -> OrNull(TargetIds)]
        /\ link' \in [Sources -> OrNull(TargetIds)] /\ snap' \in [Sources -> Snapshots]
    BY <1>13, BlankType, Zenon DEF Rerun
  <2>2. /\ run' \in Nat /\ phase' \in PhaseNames /\ k' \in Nat \ {0}
        /\ step' \in {"prepare", "insert", "update"}
    BY <1>13, ControlType DEF Rerun, TypeOK, PhaseNames
  <2>3. settled' \in BOOLEAN
    BY <1>13 DEF Rerun, TypeOK
  <2>4. /\ live' \subseteq TargetIds /\ org' \in [TargetIds -> Rows]
        /\ born' \in [TargetIds -> OrNull(Sources)]
    BY <1>13 DEF Rerun, TypeOK
  <2>5. /\ toInsert' \subseteq Sources /\ missing' \subseteq Sources \X Fields
        /\ failed' \subseteq Sources \X PassNames /\ created' \subseteq TargetIds
        /\ noAbortPrompt' \in BOOLEAN
    BY <1>13 DEF Rerun
  <2>6. QED
    BY <2>1, <2>2, <2>3, <2>4, <2>5 DEF TypeOK
<1>14. CASE UNCHANGED vars
  BY <1>14 DEF vars, TypeOK, OrNull, PhaseNames, PassNames
<1>15. QED
  BY <1>1, <1>2, <1>3, <1>4, <1>5, <1>6, <1>7, <1>8, <1>9, <1>10, <1>11, <1>12, <1>13, <1>14
     DEF Next, Step, Terminated

\* Type correctness, for every plan, source data, target org and number of starts:
\* the state kept by MigrationJob and its tasks is always well formed.
THEOREM TypeCorrect == Spec => []TypeOK
BY InitType, StepType, PTL DEF Spec

-----------------------------------------------------------------------------
(***************************************************************************)
(* Links.  While the update passes run, nothing is deleted and new rows    *)
(* get fresh Ids, so a link made by Retrieve or by an insert stays right;  *)
(* what has to be added is that no link is left from an earlier start when *)
(* old data is being deleted.                                              *)
(***************************************************************************)
Unlinked == phase \in {"deleteOld", "retrieve"} => \A s \in Sources : link[s] = None
LinkInv == TypeOK /\ LinkedToOwnKey /\ Unlinked

\* A link made by registering the rows of an Insert call leads to a live row with
\* the key of the linked record.
LEMMA RegisterLinks ==
  ASSUME LinkInv, phase \in PassNames,
         NEW ok \in SUBSET toInsert, NEW id \in [ok -> TargetIds \ live],
         RowsCreated(ok, id), RegisterInserted(ok, id), NEW s \in Sources, link'[s] # None
  PROVE  link'[s] \in live' /\ org'[link'[s]].key = KeyOf[s]
<1>1. ok \in SUBSET Sources
  BY DEF LinkInv, TypeOK
<1>2. CASE LinkedRow(s, ok) = None
  <2>1. link'[s] = link[s]
    BY <1>2 DEF RegisterInserted
  <2>2. link[s] \in live /\ org[link[s]].key = KeyOf[s]
    BY <2>1 DEF LinkInv, LinkedToOwnKey
  <2>3. QED
    BY <2>1, <2>2, RowsCreatedType DEF LinkInv
<1>3. CASE LinkedRow(s, ok) # None
  <2>1. LinkedRow(s, ok) \in ok /\ KeyOf[LinkedRow(s, ok)] = KeyOf[s]
    BY <1>1, <1>3, LinkedRowKey
  <2>2. link'[s] = id[LinkedRow(s, ok)]
    BY <1>3 DEF RegisterInserted
  <2>3. org'[link'[s]] = InsertedRow(LinkedRow(s, ok)) /\ link'[s] \in live'
    BY <2>1, <2>2, RowsCreatedType DEF LinkInv
  <2>4. QED
    BY <2>1, <2>3 DEF InsertedRow
<1>4. QED
  BY <1>2, <1>3

\* Every step keeps the links right.
LEMMA StepLinks == LinkInv /\ [Next]_vars => LinkInv'
<1> SUFFICES ASSUME LinkInv, [Next]_vars PROVE LinkedToOwnKey' /\ Unlinked'
  BY StepType DEF LinkInv
<1> USE DEF client, target, history
<1>t. TypeOK /\ link \in [Sources -> OrNull(TargetIds)]
  BY DEF LinkInv, TypeOK
<1>k. \A s \in Sources : link[s] # None => link[s] \in TargetIds /\ org[link[s]].key = KeyOf[s]
  BY <1>t DEF LinkInv, LinkedToOwnKey, OrNull
<1>1. CASE DeleteOld
  <2>1. \A s \in Sources : link'[s] = None
    BY <1>1 DEF DeleteOld, LinkInv, Unlinked
  <2>2. QED
    BY <2>1 DEF LinkedToOwnKey, Unlinked
<1>2. CASE DeleteOldDone
  <2>1. \A s \in Sources : link'[s] = None
    BY <1>2 DEF DeleteOldDone, LinkInv, Unlinked
  <2>2. QED
    BY <2>1 DEF LinkedToOwnKey, Unlinked
<1>3. CASE Retrieve
  <2>1. \A s \in Sources : link'[s] # None => link'[s] \in RowsMatching(s)
    BY <1>3 DEF Retrieve
  <2>2. phase' = "forwards" /\ live' = live /\ org' = org
    BY <1>3 DEF Retrieve, GoTo
  <2>3. QED
    BY <2>1, <2>2 DEF LinkedToOwnKey, Unlinked, RowsMatching
<1>4. CASE SkipTask \/ Prepare \/ PassDone \/ Finish
  <2>1. UNCHANGED <<link, org, live>> /\ phase' \notin {"deleteOld", "retrieve"}
    BY <1>4 DEF SkipTask, Prepare, PassDone, Finish, GoTo, NextTask, Abort, PassNames
  <2>2. phase' \in PassNames => phase \in PassNames
    BY <1>4 DEF SkipTask, Prepare, PassDone, Finish, GoTo, NextTask, Abort, PassNames
  <2>3. QED
    BY <2>1, <2>2 DEF LinkedToOwnKey, Unlinked, LinkInv
<1>6. CASE InsertRows
  <2>1. PICK ok \in SUBSET toInsert : \E id \in [ok -> TargetIds \ live] :
          RowsCreated(ok, id) /\ RegisterInserted(ok, id)
    BY <1>6 DEF InsertRows
  <2>2. PICK id \in [ok -> TargetIds \ live] : RowsCreated(ok, id) /\ RegisterInserted(ok, id)
    BY <2>1
  <2>3. phase \in PassNames /\ phase' = phase
    BY <1>6 DEF InsertRows
  <2>4. \A s \in Sources : link'[s] # None => link'[s] \in live' /\ org'[link'[s]].key = KeyOf[s]
    BY <2>2, <2>3, RegisterLinks
  <2>5. QED
    BY <2>3, <2>4 DEF LinkedToOwnKey, Unlinked, PassNames
<1>7. CASE InsertThrows
  <2>1. PICK ok \in SUBSET toInsert : \E id \in [ok -> TargetIds \ live] : RowsCreated(ok, id)
    BY <1>7 DEF InsertThrows
  <2>2. PICK id \in [ok -> TargetIds \ live] : RowsCreated(ok, id)
    BY <2>1
  <2>3. \A t \in live : org'[t] = org[t]
    BY <1>t, <2>2, RowsCreatedType
  <2>4. \A s \in Sources : link[s] # None => link[s] \in live
    BY <1>7 DEF InsertThrows, LinkInv, LinkedToOwnKey
  <2>5. link' = link /\ phase' = "aborted"
    BY <1>7 DEF InsertThrows, Abort
  <2>6. QED
    BY <1>k, <2>3, <2>4, <2>5 DEF LinkedToOwnKey, Unlinked, PassNames
<1>8. CASE UpdateRows \/ UpdateThrows
  <2>1. PICK ok \in SUBSET UpdateSet : RowsUpdated(ok)
    BY <1>8 DEF UpdateRows, UpdateThrows
  <2>2. \A t \in TargetIds : org'[t].key = org[t].key
    BY <1>t, <2>1, RowsUpdatedType
  <2>3. link' = link /\ live' = live /\ phase \in PassNames /\ phase' \in {phase, "aborted"}
    BY <1>8, <2>1 DEF UpdateRows, UpdateThrows, RowsUpdated, NextTask, Abort
  <2>4. QED
    BY <1>k, <2>2, <2>3 DEF LinkedToOwnKey, Unlinked, PassNames, LinkInv
<1>11. CASE DeleteHierarchy
  <2>1. \A o : {link[s] : s \in Prepared(o)} \cap live \subseteq TargetIds
    BY <1>t DEF TypeOK
  <2>2. \A t \in TargetIds : org'[t].key = org[t].key
    BY <1>11, <1>t, <2>1, RowsGoneType DEF DeleteHierarchy
  <2>3. link' = link /\ phase' \in {"deleteHierarchy", "aborted"}
    BY <1>11 DEF DeleteHierarchy, NextTask, Abort
  <2>4. QED
    BY <1>k, <2>2, <2>3 DEF LinkedToOwnKey, Unlinked, PassNames
<1>13. CASE Rerun
  <2>1. \A s \in Sources : link'[s] = None
    BY <1>13 DEF Rerun
  <2>2. QED
    BY <2>1 DEF LinkedToOwnKey, Unlinked
<1>14. CASE UNCHANGED vars
  BY <1>14 DEF vars, LinkedToOwnKey, Unlinked, LinkInv
<1>15. QED
  BY <1>1, <1>2, <1>3, <1>4, <1>6, <1>7, <1>8, <1>11, <1>13, <1>14
     DEF Next, Step, Terminated

\* The invariant of the links.
LEMMA LinkInvariant == Spec => []LinkInv
<1>1. Init => LinkInv
  <2>1. Init => \A s \in Sources : link[s] = None
    BY DEF Init
  <2>2. QED
    BY <2>1, InitType DEF LinkInv, LinkedToOwnKey, Unlinked
<1>2. QED
  BY <1>1, StepLinks, PTL DEF Spec

\* sourceToTargetRecordMap never leads a record to somebody else's row: whatever
\* the plan, the keys (shared ones too), the rows the org refuses, the calls that
\* throw and the restarts.
THEOREM LinksAreRight == Spec => []LinkedToOwnKey
BY LinkInvariant, PTL DEF LinkInv

\* Only the two deleting stages remove rows, and the hierarchical one only rows
\* that a retrieved record is linked to, hence shares its key with.
LEMMA StepDeletions ==
  LinkInv /\ [Next]_vars =>
    [\A t \in live \ live' :
       \/ phase = "deleteOld" /\ KeyObject[org[t].key] \in DeleteOldData
       \/ phase = "deleteHierarchy" /\ \E s \in Sources :
            Op[ObjectOf(s)] = "DeleteHierarchy" /\ KeyOf[s] = org[t].key]_vars
<1> SUFFICES ASSUME LinkInv, [Next]_vars, NEW t \in live \ live'
             PROVE  \/ phase = "deleteOld" /\ KeyObject[org[t].key] \in DeleteOldData
                    \/ phase = "deleteHierarchy" /\ \E s \in Sources :
                         Op[ObjectOf(s)] = "DeleteHierarchy" /\ KeyOf[s] = org[t].key
  OBVIOUS
<1> USE DEF client, target, history
<1>1. CASE DeleteOld
  BY <1>1 DEF DeleteOld, RowsGone, RowsOf
<1>2. CASE DeleteHierarchy
  <2> DEFINE o == Current(DeleteOrder)
  <2>1. Op[o] = "DeleteHierarchy" /\ t \in {link[s] : s \in Prepared(o)} \cap live
    BY <1>2 DEF DeleteHierarchy, RowsGone
  <2>2. PICK s \in Prepared(o) : t = link[s]
    BY <2>1
  <2>3. link[s] # None
    BY <2>2, NullAssumption DEF LinkInv, TypeOK
  <2>4. KeyOf[s] = org[t].key
    BY <2>2, <2>3 DEF LinkInv, LinkedToOwnKey, Prepared
  <2>5. QED
    BY <1>2, <2>1, <2>2, <2>4 DEF DeleteHierarchy, Prepared
<1>3. CASE InsertRows \/ InsertThrows
  <2>1. live \subseteq live'
    BY <1>3 DEF InsertRows, InsertThrows, RowsCreated
  <2>2. QED
    BY <2>1
<1>4. CASE UpdateRows \/ UpdateThrows
  BY <1>4 DEF UpdateRows, UpdateThrows, RowsUpdated
<1>5. CASE \/ DeleteOldDone \/ Retrieve \/ SkipTask \/ Prepare \/ PassDone \/ Finish \/ Rerun
           \/ Terminated
  BY <1>5 DEF DeleteOldDone, Retrieve, SkipTask, Prepare, PassDone, Finish, Rerun, Terminated, vars
<1>6. CASE UNCHANGED vars
  BY <1>6 DEF vars
<1>7. QED
  BY <1>1, <1>2, <1>3, <1>4, <1>5, <1>6 DEF Next, Step

\* Rows leave the target only where deleteOldData or deleteByHierarchy asks for it,
\* whatever the plan and however often the job is interrupted and restarted.
THEOREM DeletionsAreAsked == Spec => OnlyAskedDeletions
BY LinkInvariant, StepDeletions, PTL DEF Spec, OnlyAskedDeletions

-----------------------------------------------------------------------------
(***************************************************************************)
(* Duplicates.  With unique external ids among the Upsert records and in   *)
(* the target at first, a record still unlinked in an update pass has no   *)
(* row: that is what makes its insert safe.                                *)
(***************************************************************************)
KnownRows ==
  phase \in PassNames =>
    \A s \in Sources : Op[ObjectOf(s)] = "Upsert" /\ link[s] = None => RowsMatching(s) = {}
PlannedUnlinked == phase \in PassNames => \A s \in toInsert : link[s] = None
NothingPlanned == phase \in {"deleteOld", "retrieve"} => toInsert = {}
DuplicateInv == LinkInv /\ NoDuplicateRows /\ KnownRows /\ PlannedUnlinked /\ NothingPlanned

\* Inserting unlinked records adds no second row for a key.
LEMMA CreatedUnique ==
  ASSUME UniqueKeys, DuplicateInv, phase \in PassNames,
         NEW ok \in SUBSET toInsert, NEW id \in [ok -> TargetIds \ live], RowsCreated(ok, id)
  PROVE  NoDuplicateRows'
<1> SUFFICES ASSUME NEW t \in live', NEW u \in live', org'[t].key = org'[u].key,
                    Op[KeyObject[org'[t].key]] = "Upsert"
             PROVE  t = u
  BY DEF NoDuplicateRows
<1>1. ok \in SUBSET Sources /\ \A s \in ok : link[s] = None
  BY DEF DuplicateInv, LinkInv, TypeOK, PlannedUnlinked
<1>2. \A s \in ok : org'[id[s]].key = KeyOf[s]
  <2>1. \A s \in ok : org'[id[s]] = InsertedRow(s)
    BY RowsCreatedType DEF DuplicateInv, LinkInv
  <2>2. \A s : InsertedRow(s).key = KeyOf[s]
    BY DEF InsertedRow
  <2>3. QED
    BY <2>1, <2>2
<1>3. \A v \in live : org'[v] = org[v]
  BY RowsCreatedType DEF DuplicateInv, LinkInv
<1>4. \A v \in live' : v \in live \/ \E s \in ok : v = id[s]
  BY DEF RowsCreated
<1>5. \A s \in ok : \A v \in live : Op[ObjectOf(s)] = "Upsert" => org[v].key # KeyOf[s]
  BY <1>1 DEF DuplicateInv, KnownRows, RowsMatching
<1>6. CASE t \in live /\ u \in live
  BY <1>3, <1>6 DEF DuplicateInv, NoDuplicateRows
<1>7. ASSUME NEW s \in ok, t = id[s], u \in live PROVE FALSE
  BY <1>2, <1>3, <1>5, <1>7 DEF ObjectOf
<1>8. ASSUME NEW s \in ok, u = id[s], t \in live PROVE FALSE
  BY <1>2, <1>3, <1>5, <1>8 DEF ObjectOf
<1>9. ASSUME NEW s \in ok, NEW d \in ok, t = id[s], u = id[d] PROVE t = u
  BY <1>1, <1>2, <1>9 DEF UniqueKeys, UniqueSourceKeys, ObjectOf
<1>10. QED
  BY <1>4, <1>6, <1>7, <1>8, <1>9

\* After its insert was registered, a record has a link as soon as it has a row.
LEMMA RegisteredKnown ==
  ASSUME UniqueKeys, DuplicateInv, phase \in PassNames,
         NEW ok \in SUBSET toInsert, NEW id \in [ok -> TargetIds \ live],
         RowsCreated(ok, id), RegisterInserted(ok, id),
         NEW s \in Sources, Op[ObjectOf(s)] = "Upsert", link'[s] = None
  PROVE  RowsMatching(s)' = {}
<1>1. ok \in SUBSET Sources
  BY DEF DuplicateInv, LinkInv, TypeOK
<1>2. LinkedRow(s, ok) = None
  <2>1. LinkedRow(s, ok) # None => LinkedRow(s, ok) \in ok
    BY <1>1, LinkedRowKey
  <2>2. LinkedRow(s, ok) # None => link'[s] \in TargetIds
    BY <2>1 DEF RegisterInserted
  <2>3. QED
    BY <2>2, NullAssumption
<1>3. link[s] = None /\ s \notin ok
  BY <1>1, <1>2, NullAssumption DEF RegisterInserted, LinkedRow
<1>4. \A t \in live : org[t].key # KeyOf[s]
  BY <1>3 DEF DuplicateInv, KnownRows, RowsMatching
<1>5. \A t \in live : org'[t].key # KeyOf[s]
  BY <1>4, RowsCreatedType DEF DuplicateInv, LinkInv
<1>6. \A d \in ok : KeyOf[d] # KeyOf[s]
  BY <1>1, <1>3 DEF UniqueKeys, UniqueSourceKeys
<1>7. \A d \in ok : org'[id[d]].key # KeyOf[s]
  <2>1. \A d \in ok : org'[id[d]] = InsertedRow(d)
    BY RowsCreatedType DEF DuplicateInv, LinkInv
  <2>2. \A d : InsertedRow(d).key = KeyOf[d]
    BY DEF InsertedRow
  <2>3. QED
    BY <1>6, <2>1, <2>2
<1>8. \A t \in live' : t \in live \/ \E d \in ok : t = id[d]
  BY DEF RowsCreated
<1>9. QED
  BY <1>5, <1>7, <1>8 DEF RowsMatching

\* A step that creates no row and changes no key makes no duplicate.
LEMMA KeysKept ==
  ASSUME DuplicateInv, live' \subseteq live, \A t \in live : org'[t].key = org[t].key
  PROVE  /\ NoDuplicateRows'
         /\ \A s \in Sources : RowsMatching(s)' \subseteq RowsMatching(s)
<1>1. \A t \in live' : t \in live
  OBVIOUS
<1>2. NoDuplicateRows'
  BY <1>1 DEF DuplicateInv, NoDuplicateRows
<1>3. \A s \in Sources : RowsMatching(s)' \subseteq RowsMatching(s)
  BY <1>1 DEF RowsMatching
<1>4. QED
  BY <1>2, <1>3

\* Every step keeps upserted rows unique.
LEMMA StepDuplicates == UniqueKeys /\ DuplicateInv /\ [Next]_vars => DuplicateInv'
<1> SUFFICES ASSUME UniqueKeys, DuplicateInv, [Next]_vars
             PROVE  NoDuplicateRows' /\ KnownRows' /\ PlannedUnlinked' /\ NothingPlanned'
  BY StepLinks DEF DuplicateInv
<1> USE DEF client, target, history
<1>t. LinkInv /\ TypeOK
  BY DEF DuplicateInv, LinkInv
<1>1. CASE DeleteOld
  <2>1. \A o : RowsOf(o) \subseteq TargetIds
    BY <1>t DEF RowsOf, TypeOK
  <2>2. live' \subseteq live /\ \A t \in TargetIds : org'[t].key = org[t].key
    BY <1>1, <1>t, <2>1, RowsGoneType DEF DeleteOld, RowsGone
  <2>3. NoDuplicateRows'
    BY <1>t, <2>2, KeysKept DEF TypeOK
  <2>4. phase' \in {"deleteOld", "aborted"} /\ toInsert' = {}
    BY <1>1 DEF DeleteOld, NextTask, Abort, DuplicateInv, NothingPlanned
  <2>5. QED
    BY <2>3, <2>4 DEF KnownRows, PlannedUnlinked, NothingPlanned, PassNames
<1>2. CASE DeleteOldDone
  BY <1>2, KeysKept
     DEF DeleteOldDone, GoTo, DuplicateInv, KnownRows, PlannedUnlinked, NothingPlanned, PassNames
<1>3. CASE Retrieve
  <2>1. live' = live /\ org' = org /\ phase' = "forwards" /\ toInsert' = {}
    BY <1>3 DEF Retrieve, GoTo, DuplicateInv, NothingPlanned
  <2>2. \A s \in Sources : Op[ObjectOf(s)] = "Upsert" => IsRegistered(s) /\ Queried(ObjectOf(s))
    BY ShapeAssumption DEF UniqueKeys, UniqueSourceKeys, IsRegistered, Queried
  <2>3. \A s \in Sources : Op[ObjectOf(s)] = "Upsert" /\ RowsMatching(s) # {}
          => link'[s] \in RowsMatching(s)
    BY <1>3, <2>2 DEF Retrieve
  <2>4. None \notin live
    BY <1>t, NullAssumption DEF TypeOK
  <2>5. KnownRows'
    BY <2>1, <2>3, <2>4 DEF KnownRows, RowsMatching
  <2>6. QED
    BY <2>1, <2>5, KeysKept DEF PlannedUnlinked, NothingPlanned
<1>4. CASE Prepare
  <2>1. UNCHANGED <<live, org, link>> /\ phase \in PassNames /\ phase' \in {phase, "aborted"}
    BY <1>4 DEF Prepare, Abort
  <2>2. NoDuplicateRows' /\ KnownRows'
    BY <2>1, KeysKept DEF DuplicateInv, KnownRows, PassNames, RowsMatching
  <2>3. phase' # "aborted" => toInsert' = RecordsToInsert(Current(TaskOrder))
    BY <1>4 DEF Prepare, Abort
  <2>4. \A o : \A s \in RecordsToInsert(o) : link[s] = None
    BY DEF RecordsToInsert
  <2>5. QED
    BY <2>1, <2>2, <2>3, <2>4 DEF PlannedUnlinked, NothingPlanned, PassNames
<1>5. CASE SkipTask \/ PassDone \/ Finish
  <2>1. UNCHANGED <<live, org, link, toInsert>> /\ phase' \notin {"deleteOld", "retrieve"}
    BY <1>5 DEF SkipTask, PassDone, Finish, GoTo, NextTask, PassNames
  <2>2. phase' \in PassNames => phase \in PassNames
    BY <1>5 DEF SkipTask, PassDone, Finish, GoTo, NextTask, PassNames
  <2>3. QED
    BY <2>1, <2>2, KeysKept DEF DuplicateInv, KnownRows, PlannedUnlinked, NothingPlanned, RowsMatching
<1>6. CASE InsertRows
  <2>1. PICK ok \in SUBSET toInsert : \E id \in [ok -> TargetIds \ live] :
          RowsCreated(ok, id) /\ RegisterInserted(ok, id)
    BY <1>6 DEF InsertRows
  <2>2. PICK id \in [ok -> TargetIds \ live] : RowsCreated(ok, id) /\ RegisterInserted(ok, id)
    BY <2>1
  <2>3. phase \in PassNames /\ phase' = phase /\ toInsert' = {}
    BY <1>6 DEF InsertRows
  <2>4. NoDuplicateRows'
    BY <2>2, <2>3, CreatedUnique
  <2>5. KnownRows'
    BY <2>2, <2>3, RegisteredKnown DEF KnownRows
  <2>6. QED
    BY <2>3, <2>4, <2>5 DEF PlannedUnlinked, NothingPlanned
<1>7. CASE InsertThrows
  <2>1. PICK ok \in SUBSET toInsert : \E id \in [ok -> TargetIds \ live] : RowsCreated(ok, id)
    BY <1>7 DEF InsertThrows
  <2>2. PICK id \in [ok -> TargetIds \ live] : RowsCreated(ok, id)
    BY <2>1
  <2>3. phase \in PassNames /\ phase' = "aborted"
    BY <1>7 DEF InsertThrows, Abort
  <2>4. NoDuplicateRows'
    BY <2>2, <2>3, CreatedUnique
  <2>5. QED
    BY <2>3, <2>4 DEF KnownRows, PlannedUnlinked, NothingPlanned, PassNames
<1>8. CASE UpdateRows \/ UpdateThrows
  <2>1. PICK ok \in SUBSET UpdateSet : RowsUpdated(ok)
    BY <1>8 DEF UpdateRows, UpdateThrows
  <2>2. live' = live /\ \A t \in TargetIds : org'[t].key = org[t].key
    BY <1>t, <2>1, RowsUpdatedType DEF RowsUpdated
  <2>3. /\ UNCHANGED <<link, toInsert>>
        /\ phase \in PassNames /\ phase' \in {phase, "aborted"}
    BY <1>8 DEF UpdateRows, UpdateThrows, NextTask, Abort
  <2>4. NoDuplicateRows' /\ \A s \in Sources : RowsMatching(s)' \subseteq RowsMatching(s)
    BY <1>t, <2>2, KeysKept DEF TypeOK
  <2>5. QED
    BY <2>3, <2>4 DEF DuplicateInv, KnownRows, PlannedUnlinked, NothingPlanned, PassNames
<1>11. CASE DeleteHierarchy
  <2>1. \A o : {link[s] : s \in Prepared(o)} \cap live \subseteq TargetIds
    BY <1>t DEF TypeOK
  <2>2. live' \subseteq live /\ \A t \in TargetIds : org'[t].key = org[t].key
    BY <1>11, <1>t, <2>1, RowsGoneType DEF DeleteHierarchy, RowsGone
  <2>3. NoDuplicateRows'
    BY <1>t, <2>2, KeysKept DEF TypeOK
  <2>4. phase' \in {"deleteHierarchy", "aborted"}
    BY <1>11 DEF DeleteHierarchy, NextTask, Abort
  <2>5. QED
    BY <2>3, <2>4 DEF KnownRows, PlannedUnlinked, NothingPlanned, PassNames
<1>13. CASE Rerun
  BY <1>13, KeysKept DEF Rerun, GoTo, KnownRows, PlannedUnlinked, NothingPlanned, PassNames
<1>14. CASE UNCHANGED vars
  BY <1>14, KeysKept
     DEF vars, DuplicateInv, KnownRows, PlannedUnlinked, NothingPlanned, RowsMatching
<1>15. QED
  BY <1>1, <1>2, <1>3, <1>4, <1>5, <1>6, <1>7, <1>8, <1>11, <1>13, <1>14
     DEF Next, Step, Terminated

\* A job starts without links and plans, and with unique rows.
LEMMA InitDuplicates == UniqueKeys /\ Init => DuplicateInv
<1> SUFFICES ASSUME UniqueKeys, Init PROVE DuplicateInv
  OBVIOUS
<1>1. LinkInv
  <2>1. \A s \in Sources : link[s] = None
    BY DEF Init
  <2>2. QED
    BY <2>1, InitType DEF LinkInv, LinkedToOwnKey, Unlinked
<1>2. NoDuplicateRows
  BY DEF Init, UniqueKeys, NoDuplicateRows
<1>3. KnownRows /\ PlannedUnlinked /\ NothingPlanned
  BY DEF Init, KnownRows, PlannedUnlinked, NothingPlanned, PassNames
<1>4. QED
  BY <1>1, <1>2, <1>3 DEF DuplicateInv

\* With unique external ids an upsert job never makes a duplicate, even when calls
\* throw after the org took some rows and the job is started again and again.
THEOREM UpsertsAreUnique == ASSUME UniqueKeys PROVE Spec => []NoDuplicateRows
BY UniqueKeys, InitDuplicates, StepDuplicates, PTL DEF Spec, DuplicateInv

-----------------------------------------------------------------------------
(***************************************************************************)
(* Lookups.  What a pass writes is the link of the parent at that moment;  *)
(* the parent's row has the parent's key and outlives the passes, and a    *)
(* row that is deleted takes the lookups to it along.                      *)
(***************************************************************************)
\* A planned update is for a row of the target with the record's own key.
PlannedUpdates ==
  \A s \in Sources : toUpdate[s] # None =>
    /\ phase \notin {"deleteOld", "retrieve"}
    /\ phase \in PassNames => toUpdate[s] \in live /\ org[toUpdate[s]].key = KeyOf[s]
\* The rows of the org were not made by the job, or hold right lookups.
RightLookups(row, rows, present) ==
  \A f \in Fields : row.look[f] # None =>
    row.look[f] \in present /\ HasParent(row.key, f, rows[row.look[f]].key)
ParentInv == LinkInv /\ ParentsAreRight /\ PlannedUpdates

\* ParentsAreRight, row by row.
LEMMA ParentsByRow ==
  ParentsAreRight <=> \A t \in live : born[t] # None => RightLookups(org[t], org, live)
BY DEF ParentsAreRight, RightLookups

\* The lookups computed in a pass are right.
LEMMA LookupValueRight ==
  ASSUME ParentInv, phase \in PassNames, NEW s \in Sources, NEW f \in Fields,
         LookupValue(s, f) # None
  PROVE  /\ LookupValue(s, f) \in live
         /\ HasParent(KeyOf[s], f, org[LookupValue(s, f)].key)
<1>1. Ref[s][f] \in Sources /\ LookupValue(s, f) = link[Ref[s][f]]
  BY DEF LookupValue
<1>2. LookupValue(s, f) \in live /\ org[LookupValue(s, f)].key = KeyOf[Ref[s][f]]
  BY <1>1 DEF ParentInv, LinkInv, LinkedToOwnKey
<1>3. QED
  BY <1>1, <1>2 DEF HasParent

\* Right lookups stay right while no live row goes or changes its key.
LEMMA RightStays ==
  ASSUME NEW row, NEW rows, NEW rows2, NEW present, NEW present2,
         RightLookups(row, rows, present), present \subseteq present2,
         \A t \in present : rows2[t].key = rows[t].key
  PROVE  RightLookups(row, rows2, present2)
BY DEF RightLookups

\* The row an insert creates and the row an update leaves hold right lookups.
LEMMA InsertedRight ==
  ASSUME ParentInv, phase \in PassNames, NEW s \in Sources
  PROVE  RightLookups(InsertedRow(s), org, live)
<1>1. \A f \in Fields : InsertedLookups(s)[f] # None => InsertedLookups(s)[f] = LookupValue(s, f)
  BY DEF InsertedLookups
<1>2. InsertedRow(s).key = KeyOf[s] /\ InsertedRow(s).look = InsertedLookups(s)
  BY DEF InsertedRow
<1>3. QED
  BY <1>1, <1>2, LookupValueRight DEF RightLookups

\* An update of a row with right lookups leaves them right.
LEMMA UpdatedRight ==
  ASSUME ParentInv, phase \in PassNames, NEW s \in Sources, NEW row \in Rows,
         row.key = KeyOf[s], RightLookups(row, org, live)
  PROVE  RightLookups(UpdatedRow(s, row), org, live)
<1> DEFINE new == UpdatedRow(s, row)
<1>1. new.key = KeyOf[s]
  BY DEF UpdatedRow
<1>2. \A f \in Fields : new.look[f] = LookupValue(s, f) \/ new.look[f] = row.look[f]
  BY DEF UpdatedRow
<1> HIDE DEF new
<1>3. SUFFICES ASSUME NEW f \in Fields, new.look[f] # None
               PROVE  new.look[f] \in live /\ HasParent(KeyOf[s], f, org[new.look[f]].key)
  BY <1>1 DEF RightLookups, new
<1>4. CASE new.look[f] = LookupValue(s, f)
  BY <1>3, <1>4, LookupValueRight
<1>5. CASE new.look[f] = row.look[f]
  BY <1>3, <1>5 DEF RightLookups
<1>6. QED
  BY <1>2, <1>4, <1>5

\* Deleting rows clears the lookups to them and leaves the others.
LEMMA GoneRight ==
  ASSUME ParentInv, NEW gone \in SUBSET TargetIds, RowsGone(gone)
  PROVE  ParentsAreRight'
<1>0. TypeOK
  BY DEF ParentInv, LinkInv
<1>1. \A t \in live' : t \in live /\ t \in TargetIds
  BY <1>0 DEF RowsGone, TypeOK
<1>2. \A t \in TargetIds : org'[t].key = org[t].key
  BY <1>0, RowsGoneType
<1>3. ASSUME NEW t \in TargetIds, NEW f \in Fields, org'[t].look[f] # None
      PROVE  org'[t].look[f] = org[t].look[f] /\ org[t].look[f] \notin gone
  <2> DEFINE kept == [g \in Fields |-> IF org[t].look[g] \in gone THEN None ELSE org[t].look[g]]
  <2>1. org'[t] = [org[t] EXCEPT !.look = kept] /\ org[t] \in Rows
    BY <1>0 DEF RowsGone, WithoutLookups, TypeOK
  <2>2. kept[f] = IF org[t].look[f] \in gone THEN None ELSE org[t].look[f]
    OBVIOUS
  <2> HIDE DEF kept
  <2>3. org'[t].look = kept
    BY <2>1 DEF Rows
  <2>4. QED
    BY <1>3, <2>2, <2>3
<1>4. SUFFICES ASSUME NEW t \in live', born'[t] # None, NEW f \in Fields, org'[t].look[f] # None
               PROVE  /\ org'[t].look[f] \in live'
                      /\ HasParent(org'[t].key, f, org'[org'[t].look[f]].key)
  BY DEF ParentsAreRight, HasParent
<1>5. org[t].look[f] \in live /\ HasParent(org[t].key, f, org[org[t].look[f]].key)
  BY <1>1, <1>3, <1>4 DEF ParentInv, ParentsAreRight, RowsGone
<1>6. org'[t].look[f] \in live' /\ org'[t].look[f] \in TargetIds
  BY <1>0, <1>1, <1>3, <1>4, <1>5 DEF RowsGone, TypeOK
<1>7. QED
  BY <1>1, <1>2, <1>3, <1>4, <1>5, <1>6

\* Rows created by an Insert call hold right lookups, and the others keep theirs.
LEMMA CreatedRight ==
  ASSUME ParentInv, phase \in PassNames,
         NEW ok \in SUBSET toInsert, NEW id \in [ok -> TargetIds \ live], RowsCreated(ok, id)
  PROVE  ParentsAreRight'
<1>0. TypeOK /\ ok \in SUBSET Sources
  BY DEF ParentInv, LinkInv, TypeOK
<1>1. \A t \in live : org'[t] = org[t] /\ born'[t] = born[t] /\ t \in live'
  BY <1>0, RowsCreatedType
<1>2. \A s \in ok : org'[id[s]] = InsertedRow(s)
  BY <1>0, RowsCreatedType
<1>3. \A t \in live' : t \in live \/ \E s \in ok : t = id[s]
  BY DEF RowsCreated
<1>4. ASSUME NEW t \in live', born'[t] # None PROVE RightLookups(org'[t], org, live)
  <2>1. CASE t \in live
    BY <1>1, <1>4, <2>1, ParentsByRow DEF ParentInv
  <2>2. ASSUME NEW s \in ok, t = id[s] PROVE RightLookups(org'[t], org, live)
    <3>1. RightLookups(InsertedRow(s), org, live)
      BY <1>0, InsertedRight
    <3>2. QED
      BY <1>2, <2>2, <3>1
  <2>3. QED
    BY <1>3, <2>1, <2>2
<1>5. live \subseteq live' /\ \A t \in live : org'[t].key = org[t].key
  BY <1>1
<1>6. \A t \in live' : born'[t] # None => RightLookups(org'[t], org', live')
  BY <1>4, <1>5, RightStays
<1>7. QED
  BY <1>6 DEF ParentsAreRight, RightLookups, HasParent

\* Rows changed by an Update call hold right lookups afterwards.
LEMMA UpdatedParents ==
  ASSUME ParentInv, phase \in PassNames, NEW ok \in SUBSET UpdateSet, RowsUpdated(ok)
  PROVE  ParentsAreRight'
<1>0. TypeOK
  BY DEF ParentInv, LinkInv
<1>1. live' = live /\ born' = born /\ live \subseteq TargetIds
  BY <1>0 DEF RowsUpdated, TypeOK
<1>2. \A t \in TargetIds : org'[t].key = org[t].key
  BY <1>0, RowsUpdatedType
<1>3. ASSUME NEW t \in live, born[t] # None PROVE RightLookups(org'[t], org, live)
  <2>1. RightLookups(org[t], org, live) /\ org[t] \in Rows /\ t \in TargetIds
    BY <1>0, <1>3, ParentsByRow DEF ParentInv, TypeOK
  <2>2. CASE \E s \in ok : toUpdate[s] = t
    <3> DEFINE s == CHOOSE d \in ok : toUpdate[d] = t
    <3>1. s \in ok /\ toUpdate[s] = t
      BY <2>2
    <3>2. s \in Sources /\ toUpdate[s] # None
      BY <3>1 DEF UpdateSet
    <3>3. org[t].key = KeyOf[s]
      BY <3>1, <3>2 DEF ParentInv, PlannedUpdates
    <3>4. org'[t] = UpdatedRow(s, org[t])
      BY <2>1, <2>2 DEF RowsUpdated
    <3> HIDE DEF s
    <3>5. QED
      BY <2>1, <3>2, <3>3, <3>4, UpdatedRight
  <2>3. CASE ~ \E s \in ok : toUpdate[s] = t
    BY <2>1, <2>3 DEF RowsUpdated
  <2>4. QED
    BY <2>2, <2>3
<1>4. \A t \in live : born[t] # None => RightLookups(org'[t], org', live)
  BY <1>1, <1>2, <1>3, RightStays
<1>5. QED
  BY <1>1, <1>4 DEF ParentsAreRight, RightLookups, HasParent

\* Every step keeps the lookups of created rows right.
LEMMA StepParents == ParentInv /\ [Next]_vars => ParentInv'
<1> SUFFICES ASSUME ParentInv, [Next]_vars PROVE ParentsAreRight' /\ PlannedUpdates'
  BY StepLinks DEF ParentInv
<1> USE DEF client, target, history
<1>t. LinkInv /\ TypeOK
  BY DEF ParentInv, LinkInv
<1>s. ASSUME UNCHANGED <<live, org, born>> PROVE ParentsAreRight'
  BY <1>s DEF ParentInv, ParentsAreRight, HasParent
<1>1. CASE DeleteOld
  <2>1. \A o : RowsOf(o) \subseteq TargetIds
    BY <1>t DEF RowsOf, TypeOK
  <2>2. ParentsAreRight'
    BY <1>1, <1>s, <2>1, GoneRight DEF DeleteOld
  <2>3. \A s \in Sources : toUpdate'[s] = None
    BY <1>1 DEF DeleteOld, ParentInv, PlannedUpdates
  <2>4. QED
    BY <2>2, <2>3 DEF PlannedUpdates
<1>2. CASE DeleteOldDone \/ Retrieve
  <2>1. UNCHANGED <<live, org, born>> /\ \A s \in Sources : toUpdate'[s] = None
    BY <1>2 DEF DeleteOldDone, Retrieve, ParentInv, PlannedUpdates
  <2>2. QED
    BY <1>s, <2>1 DEF PlannedUpdates
<1>4. CASE Prepare
  <2>1. UNCHANGED <<live, org, born>> /\ phase \in PassNames /\ phase' \in {phase, "aborted"}
    BY <1>4 DEF Prepare, Abort
  <2>2. \A s \in Sources : toUpdate'[s] # None => toUpdate'[s] \in {toUpdate[s], link[s]}
    BY <1>4 DEF Prepare
  <2>3. \A s \in Sources : toUpdate'[s] # None =>
          toUpdate'[s] \in live /\ org[toUpdate'[s]].key = KeyOf[s]
    BY <1>t, <2>1, <2>2 DEF ParentInv, LinkInv, LinkedToOwnKey, PlannedUpdates
  <2>4. QED
    BY <1>s, <2>1, <2>3 DEF PlannedUpdates, PassNames
<1>5. CASE SkipTask \/ PassDone \/ Finish
  <2>1. UNCHANGED <<live, org, born, toUpdate>> /\ phase' \notin {"deleteOld", "retrieve"}
    BY <1>5 DEF SkipTask, PassDone, Finish, GoTo, NextTask, PassNames
  <2>2. phase' \in PassNames => phase \in PassNames
    BY <1>5 DEF SkipTask, PassDone, Finish, GoTo, NextTask, PassNames
  <2>3. QED
    BY <1>s, <2>1, <2>2 DEF ParentInv, PlannedUpdates
<1>6. CASE InsertRows \/ InsertThrows
  <2>1. PICK ok \in SUBSET toInsert : \E id \in [ok -> TargetIds \ live] : RowsCreated(ok, id)
    BY <1>6 DEF InsertRows, InsertThrows
  <2>2. PICK id \in [ok -> TargetIds \ live] : RowsCreated(ok, id)
    BY <2>1
  <2>3. phase \in PassNames /\ phase' \in {phase, "aborted"} /\ toUpdate' = toUpdate
    BY <1>6 DEF InsertRows, InsertThrows, Abort
  <2>4. \A t \in live : org'[t] = org[t] /\ t \in live'
    BY <1>t, <2>2, RowsCreatedType
  <2>5. PlannedUpdates'
    BY <2>3, <2>4 DEF ParentInv, PlannedUpdates, PassNames
  <2>6. QED
    BY <2>2, <2>3, <2>5, CreatedRight
<1>8. CASE UpdateRows \/ UpdateThrows
  <2>1. PICK ok \in SUBSET UpdateSet : RowsUpdated(ok)
    BY <1>8 DEF UpdateRows, UpdateThrows
  <2>2. phase \in PassNames /\ ParentsAreRight'
    BY <1>8, <2>1, UpdatedParents DEF UpdateRows, UpdateThrows
  <2>3. CASE UpdateRows
    BY <2>2, <2>3 DEF UpdateRows, PlannedUpdates
  <2>4. CASE UpdateThrows
    BY <2>2, <2>4 DEF UpdateThrows, Abort, PlannedUpdates, PassNames
  <2>5. QED
    BY <1>8, <2>3, <2>4
<1>11. CASE DeleteHierarchy
  <2>1. \A o : {link[s] : s \in Prepared(o)} \cap live \subseteq TargetIds
    BY <1>t DEF TypeOK
  <2>2. ParentsAreRight'
    BY <1>11, <1>s, <2>1, GoneRight DEF DeleteHierarchy
  <2>3. phase' \in {"deleteHierarchy", "aborted"}
    BY <1>11 DEF DeleteHierarchy, NextTask, Abort
  <2>4. QED
    BY <2>2, <2>3 DEF PlannedUpdates, PassNames
<1>13. CASE Rerun
  BY <1>13, <1>s DEF Rerun, PlannedUpdates
<1>14. CASE UNCHANGED vars
  BY <1>14, <1>s DEF vars, ParentInv, PlannedUpdates
<1>15. QED
  BY <1>1, <1>2, <1>4, <1>5, <1>6, <1>8, <1>11, <1>13, <1>14
     DEF Next, Step, Terminated

\* The lookups of the rows a job made always lead to live rows of the right
\* parents: for every graph of records, circular and self references included, and
\* for every way the org, the user and restarts may cut the passes short.
THEOREM LookupsAreRight == Spec => []ParentsAreRight
<1>1. Init => ParentInv
  <2>1. Init => \A s \in Sources : link[s] = None /\ toUpdate[s] = None
    BY DEF Init
  <2>2. ASSUME Init PROVE ParentsAreRight
    <3>1. TypeOK /\ \A t \in TargetIds : born[t] = None
      BY <2>2, InitType DEF Init
    <3>2. QED
      BY <3>1 DEF ParentsAreRight, TypeOK
  <2>3. QED
    BY <2>1, <2>2, InitType DEF ParentInv, LinkInv, LinkedToOwnKey, Unlinked, PlannedUpdates
<1>2. QED
  BY <1>1, StepParents, PTL DEF Spec, ParentInv

-----------------------------------------------------------------------------
\* The graph of records

(***************************************************************************)
(* Plans.  What is planned belongs to the task that has the turn, and only *)
(* the forward pass plans inserts, of records without a row.               *)
(***************************************************************************)
PlansAreCurrent ==
  /\ phase \in {"deleteOld", "retrieve"} =>
       toInsert = {} /\ UpdateSet = {} /\ created = {} /\ step = "prepare"
  /\ phase \in PassNames =>
       /\ \A s \in toInsert : phase = "forwards" /\ step = "insert" /\ link[s] = None
       /\ \A s \in UpdateSet : step # "prepare"
       /\ \A s \in toInsert \cup UpdateSet :
            k \in DOMAIN TaskOrder /\ ObjectOf(s) = TaskOrder[k]

\* Every step plans for the task that has the turn only.
LEMMA StepPlans == TypeOK /\ PlansAreCurrent /\ [Next]_vars => PlansAreCurrent'
<1> SUFFICES ASSUME TypeOK, PlansAreCurrent, [Next]_vars PROVE PlansAreCurrent'
  OBVIOUS
<1> USE DEF client, target, history
<1>1. CASE DeleteOld \/ DeleteOldDone \/ Retrieve
  <2>1. phase \in {"deleteOld", "retrieve"} /\ UNCHANGED <<toInsert, toUpdate, created>>
    BY <1>1 DEF DeleteOld, DeleteOldDone, Retrieve, RowsGone
  <2>2. toInsert' = {} /\ UpdateSet' = {} /\ created' = {}
    BY <2>1 DEF PlansAreCurrent, UpdateSet
  <2>3. phase' \in {"deleteOld", "retrieve"} => step' = "prepare"
    BY <1>1 DEF DeleteOld, DeleteOldDone, Retrieve, NextTask, Abort, GoTo
  <2>4. QED
    BY <2>2, <2>3 DEF PlansAreCurrent, PassNames
<1>2. CASE SkipTask \/ PassDone
  <2>1. phase \in PassNames /\ step = "prepare" /\ UNCHANGED <<toInsert, toUpdate, created>>
    BY <1>2 DEF SkipTask, PassDone
  <2>2. toInsert' = {} /\ UpdateSet' = {}
    BY <2>1 DEF PlansAreCurrent, UpdateSet
  <2>3. phase' \notin {"deleteOld", "retrieve"}
    BY <1>2 DEF SkipTask, PassDone, NextTask, GoTo, PassNames
  <2>4. QED
    BY <2>2, <2>3 DEF PlansAreCurrent
<1>3. CASE Prepare
  <2> DEFINE o == Current(TaskOrder)
  <2>1. CASE /\ toInsert' = RecordsToInsert(o)
             /\ toUpdate' = [s \in Sources |-> IF s \in RecordsToUpdate(o) THEN link[s] ELSE None]
             /\ step' = "insert" /\ UNCHANGED <<phase, k>>
    <3>1. \A s \in toInsert' : phase = "forwards" /\ link[s] = None /\ ObjectOf(s) = o
      BY <2>1 DEF RecordsToInsert, Mode, Working, Prepared
    <3>2. \A s \in UpdateSet' : ObjectOf(s) = o
      BY <2>1 DEF UpdateSet, RecordsToUpdate, Working, Prepared
    <3>3. k \in DOMAIN TaskOrder /\ phase \in PassNames /\ link' = link
      BY <1>3, ShapeAssumption DEF Prepare, TypeOK
    <3>4. QED
      BY <2>1, <3>1, <3>2, <3>3 DEF PlansAreCurrent, PassNames, Current
  <2>2. CASE Abort
    BY <2>2 DEF Abort, PlansAreCurrent, PassNames
  <2>3. QED
    BY <1>3, <2>1, <2>2 DEF Prepare
<1>4. CASE InsertRows
  <2>1. /\ phase \in PassNames /\ step = "insert" /\ UNCHANGED <<phase, k, toUpdate>>
        /\ toInsert' = {} /\ step' = "update"
    BY <1>4 DEF InsertRows
  <2>2. UpdateSet' = UpdateSet
    BY <2>1 DEF UpdateSet
  <2>3. QED
    BY <2>1, <2>2 DEF PlansAreCurrent, PassNames
<1>5. CASE UpdateRows
  <2>1. /\ phase \in PassNames /\ step = "update" /\ UNCHANGED <<phase, toInsert>>
        /\ UpdateSet' = {}
    BY <1>5 DEF UpdateRows, NextTask, UpdateSet
  <2>2. QED
    BY <2>1 DEF PlansAreCurrent, PassNames
<1>6. CASE InsertThrows \/ UpdateThrows \/ DeleteHierarchy \/ Finish
  <2>1. phase' \notin PassNames \cup {"deleteOld", "retrieve"}
    BY <1>6 DEF InsertThrows, UpdateThrows, DeleteHierarchy, Finish, GoTo, Abort, NextTask, PassNames
  <2>2. QED
    BY <2>1 DEF PlansAreCurrent
<1>7. CASE Rerun
  BY <1>7 DEF Rerun, GoTo, PlansAreCurrent, PassNames, UpdateSet
<1>8. CASE UNCHANGED vars
  BY <1>8 DEF vars, PlansAreCurrent, UpdateSet
<1>9. QED
  BY <1>1, <1>2, <1>3, <1>4, <1>5, <1>6, <1>7, <1>8 DEF Next, Step, Terminated

\* A backward pass inserts nothing, so it changes no link.
LEMMA BackwardsKeepLinks ==
  ASSUME TypeOK, PlansAreCurrent, phase \in PassNames \ {"forwards"}, [Next]_vars
  PROVE  link' = link
<1> USE DEF client, target, history
<1>1. CASE InsertRows
  <2>1. toInsert = {}
    BY DEF PlansAreCurrent
  <2>2. PICK ok \in SUBSET toInsert : \E id \in [ok -> TargetIds \ live] : RegisterInserted(ok, id)
    BY <1>1 DEF InsertRows
  <2>3. \A s \in Sources : LinkedRow(s, ok) = None
    BY <2>1, <2>2 DEF LinkedRow
  <2>4. QED
    BY <2>2, <2>3 DEF RegisterInserted, TypeOK
<1>2. CASE SkipTask \/ Prepare \/ InsertThrows \/ UpdateRows \/ UpdateThrows \/ PassDone
  BY <1>2 DEF SkipTask, Prepare, InsertThrows, UpdateRows, UpdateThrows, PassDone
<1>3. CASE UNCHANGED vars
  BY <1>3 DEF vars
<1>4. QED
  BY <1>1, <1>2, <1>3 DEF Next, Step, Terminated, DeleteOld, DeleteOldDone, Retrieve,
     DeleteHierarchy, Finish, Rerun, PassNames

-----------------------------------------------------------------------------
(***************************************************************************)
(* Losses.  The links are final once the forward pass is over, and the     *)
(* last pass reports every lookup its task leaves empty.                   *)
(***************************************************************************)
TasksReported ==
  phase = "backwards2" =>
    \A s \in Sources, i \in DOMAIN TaskOrder :
      TaskOrder[i] = ObjectOf(s) /\ (i < k \/ (i = k /\ step # "prepare")) =>
        \A f \in FieldsOf(ObjectOf(s)) :
          Processed(s) /\ Ref[s][f] # None /\ LookupValue(s, f) = None => <<s, f>> \in missing
ReportInv == TypeOK /\ PlansAreCurrent /\ TasksReported /\ LossesReported

\* A report made stays made while the links do not change.
LEMMA ReportsStay ==
  ASSUME TypeOK, TasksReported, phase = "backwards2", phase' = phase, link' = link, k' = k,
         missing \subseteq missing', step' # "prepare" => step # "prepare"
  PROVE  TasksReported'
BY DEF TasksReported, LookupValue, TypeOK

\* The task that ends its turn in the last pass has reported its losses.
LEMMA TurnReported ==
  ASSUME TypeOK, TasksReported, phase = "backwards2", k \in DOMAIN TaskOrder,
         \/ step # "prepare"
         \/ Op[TaskOrder[k]] \in {"Readonly", "Delete", "DeleteHierarchy"},
         phase' = phase, link' = link, k' = k + 1, step' = "prepare", missing' = missing
  PROVE  TasksReported'
<1> SUFFICES ASSUME NEW s \in Sources, NEW i \in DOMAIN TaskOrder,
                    TaskOrder[i] = ObjectOf(s), i < k', NEW f \in FieldsOf(ObjectOf(s)),
                    Processed(s), Ref[s][f] # None, LookupValue(s, f) = None
             PROVE  <<s, f>> \in missing
  BY DEF TasksReported, LookupValue
<1>1. k \in Nat /\ i \in Nat
  BY ShapeAssumption DEF TypeOK
<1>2. CASE i < k
  BY <1>2 DEF TasksReported
<1>3. CASE i = k
  <2>1. step # "prepare"
    BY <1>3 DEF Processed
  <2>2. QED
    BY <1>3, <2>1 DEF TasksReported
<1>4. QED
  BY <1>1, <1>2, <1>3

\* When the last pass is over, every task has reported.
LEMMA AllReported ==
  ASSUME TypeOK, TasksReported, phase = "backwards2", k > Len(TaskOrder), NEW s \in Sources,
         NEW f \in FieldsOf(ObjectOf(s)), Processed(s), Ref[s][f] # None, LookupValue(s, f) = None
  PROVE  <<s, f>> \in missing
<1>1. ObjectOf(s) \in Objects
  BY ShapeAssumption DEF ObjectOf
<1>2. PICK i \in DOMAIN TaskOrder : TaskOrder[i] = ObjectOf(s)
  BY <1>1, TasksAssumption
<1>3. i < k
  BY ShapeAssumption DEF TypeOK
<1>4. QED
  BY <1>2, <1>3 DEF TasksReported

\* Every step keeps the report complete.
LEMMA StepReported == ReportInv /\ [Next]_vars => ReportInv'
<1> SUFFICES ASSUME ReportInv, [Next]_vars PROVE TasksReported' /\ LossesReported'
  BY StepType, StepPlans DEF ReportInv
<1> USE DEF client, target, history
<1>t. TypeOK /\ PlansAreCurrent /\ TasksReported /\ LossesReported
  BY DEF ReportInv
<1>l. ASSUME UNCHANGED <<link, missing>>, UpdatesOver PROVE LossesReported'
  BY <1>t, <1>l DEF LossesReported, LookupValue
<1>1. CASE DeleteOld \/ DeleteOldDone \/ Retrieve \/ InsertThrows \/ UpdateThrows \/ Rerun
  <2>1. phase' \notin {"backwards2", "deleteHierarchy", "done"}
    BY <1>1 DEF DeleteOld, DeleteOldDone, Retrieve, InsertThrows, UpdateThrows, Rerun,
       NextTask, Abort, GoTo
  <2>2. QED
    BY <2>1 DEF TasksReported, LossesReported, UpdatesOver
<1>2. CASE SkipTask
  <2>1. UNCHANGED <<phase, link, missing>> /\ phase \in PassNames
    BY <1>2 DEF SkipTask, NextTask
  <2>2. LossesReported'
    BY <2>1 DEF LossesReported, UpdatesOver, PassNames
  <2>3. ASSUME phase = "backwards2" PROVE TasksReported'
    <3>1. k \in DOMAIN TaskOrder
      BY <1>2, <1>t, ShapeAssumption DEF SkipTask, TypeOK
    <3>2. QED
      BY <1>2, <1>t, <2>1, <2>3, <3>1, TurnReported DEF SkipTask, NextTask, Current
  <2>4. QED
    BY <2>1, <2>2, <2>3 DEF TasksReported
<1>3. CASE Prepare
  <2> DEFINE o == Current(TaskOrder)
  <2>1. link' = link /\ missing' = missing \cup MissingParents(o) /\ phase \in PassNames
    BY <1>3 DEF Prepare
  <2>2. CASE Abort
    BY <2>2 DEF Abort, TasksReported, LossesReported, UpdatesOver
  <2>3. CASE step' = "insert" /\ UNCHANGED <<phase, k>>
    <3>1. LossesReported'
      BY <2>1, <2>3 DEF LossesReported, UpdatesOver, PassNames
    <3>2. SUFFICES ASSUME phase = "backwards2", NEW s \in Sources, NEW i \in DOMAIN TaskOrder,
                          TaskOrder[i] = ObjectOf(s), i <= k, NEW f \in FieldsOf(ObjectOf(s)),
                          Processed(s), Ref[s][f] # None, LookupValue(s, f) = None
                   PROVE  <<s, f>> \in missing'
      <4>1. \A i \in DOMAIN TaskOrder : i < k \/ i = k => i <= k
        BY <1>t, ShapeAssumption DEF TypeOK
      <4>2. QED
        BY <2>1, <2>3, <3>1, <3>2, <4>1 DEF TasksReported, LookupValue
    <3>3. CASE i = k
      <4>1. ObjectOf(s) = o /\ f \in PassFields(o) /\ s \in Prepared(o)
        BY <3>2, <3>3 DEF Current, PassFields, Mode, Prepared
      <4>2. <<s, f>> \in MissingParents(o)
        BY <3>2, <4>1 DEF MissingParents
      <4>3. QED
        BY <2>1, <4>2
    <3>4. CASE i # k
      <4>1. i < k
        BY <1>t, <3>2, <3>4, ShapeAssumption DEF TypeOK
      <4>2. QED
        BY <1>t, <2>1, <3>2, <4>1 DEF TasksReported
    <3>5. QED
      BY <3>3, <3>4
  <2>4. QED
    BY <1>3, <2>2, <2>3 DEF Prepare
<1>4. CASE InsertRows \/ UpdateRows
  <2>1. phase \in PassNames /\ UNCHANGED <<phase, missing>>
    BY <1>4 DEF InsertRows, UpdateRows, NextTask
  <2>2. LossesReported'
    BY <2>1 DEF LossesReported, UpdatesOver, PassNames
  <2>3. ASSUME phase = "backwards2" PROVE TasksReported'
    <3>1. link' = link
      BY <1>t, <2>1, <2>3, BackwardsKeepLinks
    <3>2. CASE InsertRows
      BY <1>t, <2>1, <2>3, <3>1, <3>2, ReportsStay DEF InsertRows
    <3>3. CASE UpdateRows
      <4>1. k' = k + 1 /\ step' = "prepare" /\ step = "update"
        BY <3>3 DEF UpdateRows, NextTask
      <4>2. CASE k \in DOMAIN TaskOrder
        BY <1>t, <2>1, <2>3, <3>1, <4>1, <4>2, TurnReported
      <4>3. CASE k \notin DOMAIN TaskOrder
        <5>1. \A i \in DOMAIN TaskOrder : i < k + 1 => i < k
          BY <1>t, <4>3, ShapeAssumption DEF TypeOK
        <5>2. QED
          BY <1>t, <2>1, <2>3, <3>1, <4>1, <5>1 DEF TasksReported, LookupValue
      <4>4. QED
        BY <4>2, <4>3
    <3>4. QED
      BY <1>4, <3>2, <3>3
  <2>4. QED
    BY <2>1, <2>2, <2>3 DEF TasksReported
<1>5. CASE PassDone
  <2>1. UNCHANGED <<link, missing>> /\ phase \in PassNames /\ k > Len(TaskOrder) /\ k' = 1 /\ step' = "prepare"
    BY <1>5 DEF PassDone, GoTo
  <2>2. CASE phase = "backwards2"
    <3>1. phase' = "deleteHierarchy"
      BY <1>5, <2>2 DEF PassDone, GoTo
    <3>2. LossesReported'
      BY <1>t, <2>1, <2>2, AllReported DEF LossesReported, LookupValue
    <3>3. QED
      BY <3>1, <3>2 DEF TasksReported
  <2>3. CASE phase # "backwards2"
    <3>1. phase' \in PassNames
      BY <1>5, <2>1, <2>3 DEF PassDone, GoTo, PassNames
    <3>2. \A i \in DOMAIN TaskOrder : ~ i < 1
      BY ShapeAssumption
    <3>3. QED
      BY <2>1, <3>1, <3>2 DEF TasksReported, LossesReported, UpdatesOver, PassNames
  <2>4. QED
    BY <2>2, <2>3
<1>6. CASE DeleteHierarchy \/ Finish
  <2>1. UNCHANGED <<link, missing>> /\ UpdatesOver /\ phase' # "backwards2"
    BY <1>6 DEF DeleteHierarchy, Finish, UpdatesOver, GoTo, NextTask, Abort
  <2>2. QED
    BY <1>l, <2>1 DEF TasksReported
<1>7. CASE UNCHANGED vars
  BY <1>7, <1>t DEF vars, TasksReported, LossesReported, UpdatesOver, LookupValue
<1>8. QED
  BY <1>1, <1>2, <1>3, <1>4, <1>5, <1>6, <1>7 DEF Next, Step, Terminated

\* The missing-parents report is complete: whatever the graph, the order of the
\* tasks and the rows the org refuses, a processed record's lookup left without
\* parent is in it.
THEOREM LossesAreReported == Spec => []LossesReported
<1>1. Init => ReportInv
  <2>1. Init => TypeOK
    BY InitType
  <2>2. Init => PlansAreCurrent /\ TasksReported /\ LossesReported
    BY DEF Init, PlansAreCurrent, TasksReported, LossesReported, UpdatesOver, PassNames, UpdateSet
  <2>3. QED
    BY <2>1, <2>2 DEF ReportInv
<1>2. QED
  BY <1>1, StepReported, PTL DEF Spec, ReportInv

-----------------------------------------------------------------------------
(***************************************************************************)
(* Lookups.  The forward pass carries a lookup only once the links of the  *)
(* parent object are final; a row belongs to one source record; and what   *)
(* a record remembers of its row differs from the row only where an update *)
(* has already written the final value.  So the comparison of the last     *)
(* pass skips no record that still needs an update.                        *)
(***************************************************************************)
Final(f) ==
  phase = "forwards" => \E i \in DOMAIN TaskOrder : i < k /\ TaskOrder[i] = ParentObject[f]
Carried(s, f) == Final(f) /\ org[link[s]].look[f] = LookupValue(s, f)

UpdatesAreLinked == phase \in PassNames => \A s \in UpdateSet : toUpdate[s] = link[s]
OneRecordPerRow ==
  phase \in PassNames =>
    \A s, d \in Sources : link[s] # None /\ link[s] = link[d] => s = d
SnapshotsAreRight ==
  phase \in PassNames =>
    \A s \in Sources : link[s] # None =>
      \A f \in FieldsOf(ObjectOf(s)) \cap Updateable :
        org[link[s]].look[f] = snap[s].look[f] \/ Carried(s, f)
CreatedAreRight ==
  phase \in PassNames =>
    \A s \in Sources : link[s] \in created /\ born[link[s]] = s =>
      \A f \in (FieldsOf(ObjectOf(s)) \cap Creatable) \ Updateable :
        ParentObject[f] \in PrevObjects(ObjectOf(s)) => Carried(s, f)
RowsInv ==
  /\ LinkInv /\ PlansAreCurrent
  /\ UpdatesAreLinked /\ OneRecordPerRow /\ SnapshotsAreRight /\ CreatedAreRight

\* With unique upsert keys, registering new rows links the inserted records only.
LEMMA InsertedLinks ==
  ASSUME UniqueSourceKeys, TypeOK, NEW ok \in SUBSET toInsert,
         NEW id \in [ok -> TargetIds \ live], RegisterInserted(ok, id), NEW s \in Sources
  PROVE  /\ s \in ok => link'[s] = id[s] /\ snap'[s].look = InsertedLookups(s)
         /\ s \notin ok => link'[s] = link[s] /\ snap'[s] = snap[s]
<1>1. ok \in SUBSET Sources /\ s # None
  BY NullAssumption DEF TypeOK
<1>2. CASE s \in ok
  BY <1>1, <1>2 DEF RegisterInserted, LinkedRow
<1>3. CASE s \notin ok
  <2>1. LinkedRow(s, ok) = None
    BY <1>1, <1>3 DEF LinkedRow, UniqueSourceKeys
  <2>2. QED
    BY <1>3, <2>1 DEF RegisterInserted
<1>4. QED
  BY <1>2, <1>3

\* What a pass carries for the task that has the turn is final.
LEMMA PassFieldsFinal ==
  ASSUME phase \in PassNames, k \in DOMAIN TaskOrder, NEW f \in PassFields(TaskOrder[k])
  PROVE  Final(f)
BY TasksAssumption DEF PassFields, Mode, PrevObjects, Final

\* A final lookup value does not change when other records get their first row.
LEMMA FinalValues ==
  ASSUME UniqueSourceKeys, TypeOK, PlansAreCurrent, phase \in PassNames,
         NEW ok \in SUBSET toInsert, NEW id \in [ok -> TargetIds \ live],
         RegisterInserted(ok, id), NEW s \in Sources, NEW f \in Fields, Final(f)
  PROVE  LookupValue(s, f)' = LookupValue(s, f)
<1>1. CASE Ref[s][f] \in Sources
  <2>1. ObjectOf(Ref[s][f]) = ParentObject[f]
    BY <1>1, RefAssumption DEF ObjectOf
  <2>2. Ref[s][f] \notin ok
    <3> SUFFICES ASSUME Ref[s][f] \in ok PROVE FALSE
      OBVIOUS
    <3>1. phase = "forwards" /\ k \in DOMAIN TaskOrder /\ TaskOrder[k] = ParentObject[f]
      BY <2>1 DEF PlansAreCurrent
    <3>2. PICK i \in DOMAIN TaskOrder : i < k /\ TaskOrder[i] = ParentObject[f]
      BY <3>1 DEF Final
    <3>3. i = k
      BY <3>1, <3>2, TasksAssumption
    <3>4. QED
      BY <3>2, <3>3 DEF TypeOK
  <2>3. link'[Ref[s][f]] = link[Ref[s][f]]
    BY <1>1, <2>2, InsertedLinks
  <2>4. QED
    BY <1>1, <2>3 DEF LookupValue
<1>2. CASE Ref[s][f] \notin Sources
  BY <1>2 DEF LookupValue
<1>3. QED
  BY <1>1, <1>2

\* What is final stays final while the passes go on.
LEMMA FinalStays ==
  ASSUME TypeOK, phase \in PassNames, NEW f \in Fields, Final(f),
         \/ phase' = phase /\ k' \in {k, k + 1}
         \/ phase' # "forwards"
  PROVE  Final(f)'
<1>1. \A i \in DOMAIN TaskOrder : i < k /\ k' \in {k, k + 1} => i < k'
  BY ShapeAssumption DEF TypeOK
<1>2. QED
  BY <1>1 DEF Final

\* An Update call writes the lookups of the pass into the rows of the records it
\* took, and no other lookup of a linked row.
LEMMA UpdatedLookups ==
  ASSUME LinkInv, UpdatesAreLinked, OneRecordPerRow, phase \in PassNames,
         NEW ok \in SUBSET UpdateSet, RowsUpdated(ok),
         NEW s \in Sources, link[s] # None, NEW f \in Fields
  PROVE  org'[link[s]].look[f] =
           IF s \in ok /\ f \in PassFields(ObjectOf(s)) \cap Updateable
           THEN LookupValue(s, f) ELSE org[link[s]].look[f]
<1>1. link[s] \in TargetIds
  BY DEF LinkInv, TypeOK, OrNull
<1>2. \A d \in ok : d \in Sources /\ toUpdate[d] = link[d]
  BY DEF UpdateSet, UpdatesAreLinked
<1>3. CASE s \in ok
  <2>1. (CHOOSE d \in ok : toUpdate[d] = link[s]) = s
    BY <1>2, <1>3 DEF OneRecordPerRow
  <2>2. org'[link[s]] = UpdatedRow(s, org[link[s]])
    BY <1>1, <1>2, <1>3, <2>1 DEF RowsUpdated
  <2>3. QED
    BY <1>3, <2>2 DEF UpdatedRow
<1>4. CASE s \notin ok
  <2>1. ~ \E d \in ok : toUpdate[d] = link[s]
    BY <1>2, <1>4 DEF OneRecordPerRow
  <2>2. org'[link[s]] = org[link[s]]
    BY <1>1, <2>1 DEF RowsUpdated
  <2>3. QED
    BY <1>4, <2>2
<1>5. QED
  BY <1>3, <1>4

\* Registering retrieved rows gives every row to one record, with its fields.
LEMMA RetrievedRows ==
  ASSUME LinkInv, PlansAreCurrent, Retrieve
  PROVE  OneRecordPerRow' /\ SnapshotsAreRight' /\ CreatedAreRight'
<1> USE DEF target
<1>1. /\ \A s \in Sources : link'[s] # None => link'[s] \in RowsMatching(s) /\ IsRegistered(s)
      /\ \A s \in Sources : link'[s] # None => snap'[s].look = org[link'[s]].look
      /\ UNCHANGED <<org, created>>
  BY DEF Retrieve
<1>2. OneRecordPerRow'
  <2> SUFFICES ASSUME NEW s \in Sources, NEW d \in Sources, link'[s] # None, link'[s] = link'[d]
               PROVE  s = d
    BY DEF OneRecordPerRow
  <2>1. KeyOf[s] = KeyOf[d] /\ IsRegistered(s) /\ IsRegistered(d)
    BY <1>1 DEF RowsMatching
  <2>2. Rank[s] <= Rank[d] /\ Rank[d] <= Rank[s] /\ Rank[s] \in Nat /\ Rank[d] \in Nat
    BY <2>1, ShapeAssumption DEF IsRegistered
  <2>3. Rank[s] = Rank[d]
    BY <2>2
  <2>4. QED
    BY <2>3, LastAssumption
<1>3. SnapshotsAreRight'
  BY <1>1 DEF SnapshotsAreRight
<1>4. CreatedAreRight'
  <2>1. created' = {}
    BY <1>1 DEF Retrieve, PlansAreCurrent
  <2>2. QED
    BY <2>1 DEF CreatedAreRight
<1>5. QED
  BY <1>2, <1>3, <1>4

\* An Insert call gives every new row to the record it was made from, and what
\* other records know of their rows stays true.
LEMMA InsertedRows ==
  ASSUME UniqueSourceKeys, RowsInv, phase \in PassNames, phase' = phase, k' = k,
         NEW ok \in SUBSET toInsert, NEW id \in [ok -> TargetIds \ live],
         RowsCreated(ok, id), RegisterInserted(ok, id)
  PROVE  OneRecordPerRow' /\ SnapshotsAreRight' /\ CreatedAreRight'
<1>t. TypeOK /\ PlansAreCurrent /\ ok \in SUBSET Sources
  BY DEF RowsInv, LinkInv, TypeOK
<1>1. \A s \in ok : link'[s] = id[s] /\ snap'[s].look = InsertedLookups(s)
  BY <1>t, InsertedLinks
<1>2. \A s \in Sources \ ok : link'[s] = link[s] /\ snap'[s] = snap[s]
  BY <1>t, InsertedLinks
<1>3. \A s \in Sources : link[s] # None => link[s] \in live
  BY DEF RowsInv, LinkInv, LinkedToOwnKey
<1>4. /\ \A t \in live : org'[t] = org[t] /\ born'[t] = born[t]
      /\ \A s \in ok : org'[id[s]] = InsertedRow(s)
      /\ \A s \in ok : id[s] \notin live
      /\ \A t \in live : t \in created' => t \in created
  <2>1. \A s \in ok : id[s] \notin live
    OBVIOUS
  <2>2. \A t \in live : t \in created' => t \in created
    BY <2>1 DEF RowsCreated
  <2>3. QED
    BY <1>t, <2>1, <2>2, RowsCreatedType
<1>5. \A s \in ok : org'[link'[s]].look = InsertedLookups(s)
  <2>1. \A s : InsertedRow(s).look = InsertedLookups(s)
    BY DEF InsertedRow
  <2>2. \A s \in ok : org'[link'[s]] = InsertedRow(s)
    BY <1>1, <1>4
  <2>3. QED
    BY <2>1, <2>2
<1>6. OneRecordPerRow'
  <2> SUFFICES ASSUME NEW s \in Sources, NEW d \in Sources, link'[s] # None, link'[s] = link'[d]
               PROVE  s = d
    BY DEF OneRecordPerRow
  <2>1. CASE s \in ok /\ d \in ok
    BY <1>1, <2>1 DEF RowsCreated
  <2>2. CASE s \notin ok /\ d \notin ok
    BY <1>2, <2>2 DEF RowsInv, OneRecordPerRow
  <2>3. CASE s \in ok /\ d \notin ok
    BY <1>1, <1>2, <1>3, <1>4, <2>3
  <2>4. CASE s \notin ok /\ d \in ok
    BY <1>1, <1>2, <1>3, <1>4, <2>4
  <2>5. QED
    BY <2>1, <2>2, <2>3, <2>4
<1>7. ASSUME NEW s \in Sources \ ok, link[s] # None, NEW f \in Fields, Carried(s, f)
      PROVE  Carried(s, f)'
  <2>1. LookupValue(s, f)' = LookupValue(s, f)
    BY <1>t, <1>7, FinalValues DEF Carried
  <2>2. org'[link'[s]] = org[link[s]]
    BY <1>2, <1>3, <1>4, <1>7
  <2>3. QED
    BY <1>7, <2>1, <2>2 DEF Carried, Final
<1>8. SnapshotsAreRight'
  <2> SUFFICES ASSUME NEW s \in Sources, link'[s] # None,
                      NEW f \in FieldsOf(ObjectOf(s)) \cap Updateable
               PROVE  org'[link'[s]].look[f] = snap'[s].look[f] \/ Carried(s, f)'
    BY DEF SnapshotsAreRight
  <2>1. CASE s \in ok
    BY <1>1, <1>5, <2>1
  <2>2. CASE s \notin ok
    <3>1. link'[s] = link[s] /\ snap'[s] = snap[s] /\ org'[link'[s]] = org[link[s]] /\ f \in Fields
      BY <1>2, <1>3, <1>4, <2>2 DEF FieldsOf
    <3>2. org[link[s]].look[f] = snap[s].look[f] \/ Carried(s, f)
      BY <3>1 DEF RowsInv, SnapshotsAreRight
    <3>3. QED
      BY <1>7, <2>2, <3>1, <3>2
  <2>3. QED
    BY <2>1, <2>2
<1>9. CreatedAreRight'
  <2> SUFFICES ASSUME NEW s \in Sources, link'[s] \in created', born'[link'[s]] = s,
                      NEW f \in (FieldsOf(ObjectOf(s)) \cap Creatable) \ Updateable,
                      ParentObject[f] \in PrevObjects(ObjectOf(s))
               PROVE  Carried(s, f)'
    BY DEF CreatedAreRight
  <2>f. f \in Fields
    BY DEF FieldsOf
  <2>1. CASE s \in ok
    <3>1. phase = "forwards" /\ k \in DOMAIN TaskOrder /\ ObjectOf(s) = TaskOrder[k]
      BY <1>t, <2>1 DEF PlansAreCurrent
    <3>2. f \in PassFields(TaskOrder[k]) /\ f \in PassFields(ObjectOf(s)) \cap Creatable
      BY <3>1 DEF PassFields, Mode
    <3>3. Final(f) /\ Final(f)'
      BY <1>t, <3>1, <3>2, PassFieldsFinal DEF Final
    <3>4. InsertedLookups(s)[f] = LookupValue(s, f)
      BY <2>f, <3>2 DEF InsertedLookups
    <3>5. LookupValue(s, f)' = LookupValue(s, f)
      BY <1>t, <2>f, <3>3, FinalValues
    <3>6. org'[link'[s]].look[f] = LookupValue(s, f)
      BY <1>5, <2>1, <3>4
    <3>7. QED
      BY <3>3, <3>5, <3>6 DEF Carried
  <2>2. CASE s \notin ok
    <3>1. link'[s] = link[s] /\ link[s] # None
      BY <1>2, <2>2, <1>t, RowsCreatedType, NullAssumption
    <3>2. link[s] \in created /\ born[link[s]] = s
      BY <1>3, <1>4, <3>1
    <3>3. Carried(s, f)
      BY <3>2 DEF RowsInv, CreatedAreRight
    <3>4. QED
      BY <1>7, <2>f, <2>2, <3>1, <3>3
  <2>3. QED
    BY <2>1, <2>2
<1>10. QED
  BY <1>6, <1>8, <1>9

\* An Update call only writes final values.
LEMMA UpdatedRows ==
  ASSUME RowsInv, phase \in PassNames, phase' = phase, k' = k + 1,
         UNCHANGED <<link, snap, born, created>>,
         NEW ok \in SUBSET UpdateSet, RowsUpdated(ok)
  PROVE  SnapshotsAreRight' /\ CreatedAreRight'
<1>t. /\ TypeOK /\ LinkInv /\ PlansAreCurrent /\ UpdatesAreLinked /\ OneRecordPerRow
      /\ SnapshotsAreRight /\ CreatedAreRight
  BY DEF RowsInv, LinkInv
<1>1. ASSUME NEW s \in Sources, link[s] # None, NEW f \in Fields
      PROVE  \/ org'[link[s]].look[f] = org[link[s]].look[f]
             \/ f \in Updateable /\ Final(f) /\ org'[link[s]].look[f] = LookupValue(s, f)
  <2>1. org'[link[s]].look[f] =
           IF s \in ok /\ f \in PassFields(ObjectOf(s)) \cap Updateable
           THEN LookupValue(s, f) ELSE org[link[s]].look[f]
    BY <1>t, <1>1, UpdatedLookups
  <2>2. s \in ok => k \in DOMAIN TaskOrder /\ ObjectOf(s) = TaskOrder[k]
    BY <1>t DEF PlansAreCurrent
  <2>3. s \in ok /\ f \in PassFields(ObjectOf(s)) => Final(f)
    BY <2>2, PassFieldsFinal
  <2>4. QED
    BY <2>1, <2>3
<1>2. ASSUME NEW s \in Sources, link[s] # None, NEW f \in Fields, Final(f),
             org'[link[s]].look[f] = LookupValue(s, f)
      PROVE  Carried(s, f)'
  <2>1. Final(f)'
    BY <1>t, <1>2, FinalStays
  <2>2. LookupValue(s, f)' = LookupValue(s, f)
    BY DEF LookupValue
  <2>3. QED
    BY <1>2, <2>1, <2>2 DEF Carried
<1>3. ASSUME NEW s \in Sources, link[s] # None, NEW f \in Fields, Carried(s, f)
      PROVE  Carried(s, f)'
  BY <1>1, <1>2, <1>3 DEF Carried
<1>4. SnapshotsAreRight'
  <2> SUFFICES ASSUME NEW s \in Sources, link[s] # None,
                      NEW f \in FieldsOf(ObjectOf(s)) \cap Updateable
               PROVE  org'[link[s]].look[f] = snap[s].look[f] \/ Carried(s, f)'
    BY DEF SnapshotsAreRight
  <2>1. f \in Fields
    BY DEF FieldsOf
  <2>2. org[link[s]].look[f] = snap[s].look[f] \/ Carried(s, f)
    BY <1>t DEF SnapshotsAreRight
  <2>3. QED
    BY <1>1, <1>2, <1>3, <2>1, <2>2
<1>5. CreatedAreRight'
  <2> SUFFICES ASSUME NEW s \in Sources, link[s] \in created, born[link[s]] = s,
                      NEW f \in (FieldsOf(ObjectOf(s)) \cap Creatable) \ Updateable,
                      ParentObject[f] \in PrevObjects(ObjectOf(s))
               PROVE  Carried(s, f)'
    BY DEF CreatedAreRight
  <2>1. f \in Fields /\ link[s] # None
    BY <1>t, NullAssumption DEF FieldsOf, TypeOK
  <2>2. QED
    BY <1>t, <1>3, <2>1 DEF CreatedAreRight
<1>6. QED
  BY <1>4, <1>5

\* Every step keeps rows, links and snapshots in agreement.
LEMMA StepRows == UniqueSourceKeys /\ RowsInv /\ [Next]_vars => RowsInv'
<1> SUFFICES ASSUME UniqueSourceKeys, RowsInv, [Next]_vars
             PROVE  UpdatesAreLinked' /\ OneRecordPerRow' /\ SnapshotsAreRight' /\ CreatedAreRight'
  BY StepLinks, StepPlans DEF RowsInv, LinkInv
<1> USE DEF client, target, history
<1>t. /\ TypeOK /\ LinkInv /\ PlansAreCurrent /\ UpdatesAreLinked /\ OneRecordPerRow
      /\ SnapshotsAreRight /\ CreatedAreRight
  BY DEF RowsInv, LinkInv
<1>f. ASSUME UNCHANGED <<link, snap, org, born, created>>, phase \in PassNames,
             \/ phase' = phase /\ k' \in {k, k + 1}
             \/ phase' # "forwards"
      PROVE  OneRecordPerRow' /\ SnapshotsAreRight' /\ CreatedAreRight'
  <2>1. ASSUME NEW s \in Sources, NEW f \in Fields, Carried(s, f) PROVE Carried(s, f)'
    <3>1. Final(f)'
      BY <1>t, <1>f, <2>1, FinalStays DEF Carried
    <3>2. QED
      BY <1>f, <2>1, <3>1 DEF Carried, LookupValue
  <2>2. OneRecordPerRow'
    BY <1>t, <1>f DEF OneRecordPerRow
  <2>3. SnapshotsAreRight'
    BY <1>t, <1>f, <2>1 DEF SnapshotsAreRight, FieldsOf
  <2>4. CreatedAreRight'
    BY <1>t, <1>f, <2>1 DEF CreatedAreRight, FieldsOf
  <2>5. QED
    BY <2>2, <2>3, <2>4
<1>1. CASE \/ DeleteOld \/ DeleteOldDone \/ InsertThrows \/ UpdateThrows
           \/ DeleteHierarchy \/ Finish \/ Rerun
  <2>1. phase' \notin PassNames
    BY <1>1 DEF DeleteOld, DeleteOldDone, InsertThrows, UpdateThrows, DeleteHierarchy, Finish,
       Rerun, GoTo, NextTask, Abort, PassNames
  <2>2. QED
    BY <2>1 DEF UpdatesAreLinked, OneRecordPerRow, SnapshotsAreRight, CreatedAreRight
<1>2. CASE Retrieve
  <2>1. UpdateSet' = {}
    BY <1>2, <1>t DEF Retrieve, PlansAreCurrent, UpdateSet
  <2>2. QED
    BY <1>2, <1>t, <2>1, RetrievedRows DEF UpdatesAreLinked
<1>3. CASE SkipTask \/ PassDone
  <2>1. /\ UNCHANGED <<link, snap, org, born, created, toUpdate>> /\ phase \in PassNames
        /\ \/ phase' = phase /\ k' \in {k, k + 1}
           \/ phase' # "forwards"
    BY <1>3 DEF SkipTask, PassDone, NextTask, GoTo, PassNames
  <2>2. UpdateSet' = {}
    BY <1>3, <1>t DEF SkipTask, PassDone, PlansAreCurrent, UpdateSet
  <2>3. QED
    BY <1>f, <2>1, <2>2 DEF UpdatesAreLinked
<1>4. CASE Prepare
  <2>1. /\ UNCHANGED <<link, snap, org, born, created>> /\ phase \in PassNames
        /\ phase' \in {phase, "aborted"} /\ (phase' # "aborted" => k' = k)
    BY <1>4 DEF Prepare, Abort
  <2>2. UpdatesAreLinked'
    <3>1. CASE Abort
      BY <3>1 DEF Abort, UpdatesAreLinked, PassNames
    <3>2. CASE toUpdate' = [s \in Sources |->
                              IF s \in RecordsToUpdate(Current(TaskOrder)) THEN link[s] ELSE None]
      BY <2>1, <3>2 DEF UpdatesAreLinked, UpdateSet
    <3>3. QED
      BY <1>4, <3>1, <3>2 DEF Prepare
  <2>3. QED
    BY <1>f, <2>1, <2>2 DEF PassNames
<1>5. CASE InsertRows
  <2>1. PICK ok \in SUBSET toInsert : \E id \in [ok -> TargetIds \ live] :
          RowsCreated(ok, id) /\ RegisterInserted(ok, id)
    BY <1>5 DEF InsertRows
  <2>2. PICK id \in [ok -> TargetIds \ live] : RowsCreated(ok, id) /\ RegisterInserted(ok, id)
    BY <2>1
  <2>3. phase \in PassNames /\ UNCHANGED <<phase, k, toUpdate>>
    BY <1>5 DEF InsertRows
  <2>4. OneRecordPerRow' /\ SnapshotsAreRight' /\ CreatedAreRight'
    BY <2>2, <2>3, InsertedRows
  <2>5. ASSUME NEW s \in UpdateSet PROVE toUpdate[s] = link'[s]
    <3>1. s \in Sources /\ toUpdate[s] = link[s] /\ link[s] # None
      BY <1>t, <2>3 DEF UpdateSet, UpdatesAreLinked
    <3>2. s \notin ok
      BY <1>t, <2>3, <3>1 DEF PlansAreCurrent
    <3>3. link'[s] = link[s]
      BY <1>t, <2>2, <3>1, <3>2, InsertedLinks
    <3>4. QED
      BY <3>1, <3>3
  <2>6. UpdatesAreLinked'
    BY <2>3, <2>5 DEF UpdatesAreLinked, UpdateSet
  <2>7. QED
    BY <2>4, <2>6
<1>6. CASE UpdateRows
  <2>1. PICK ok \in SUBSET UpdateSet : RowsUpdated(ok)
    BY <1>6 DEF UpdateRows
  <2>2. /\ phase \in PassNames /\ phase' = phase /\ k' = k + 1
        /\ UNCHANGED <<link, snap, born, created>> /\ UpdateSet' = {}
    BY <1>6, <2>1 DEF UpdateRows, NextTask, UpdateSet, RowsUpdated
  <2>3. SnapshotsAreRight' /\ CreatedAreRight'
    BY <2>1, <2>2, UpdatedRows
  <2>4. QED
    BY <1>t, <2>2, <2>3 DEF OneRecordPerRow, UpdatesAreLinked
<1>7. CASE UNCHANGED vars
  BY <1>7, <1>t DEF vars, UpdatesAreLinked, UpdateSet, OneRecordPerRow, SnapshotsAreRight,
     CreatedAreRight, Carried, Final, LookupValue
<1>8. QED
  BY <1>1, <1>2, <1>3, <1>4, <1>5, <1>6, <1>7 DEF Next, Step, Terminated

-----------------------------------------------------------------------------
(***************************************************************************)
(* The last pass resolves the lookups of one task after the other; nothing *)
(* that comes later undoes it.                                             *)
(***************************************************************************)
Wanted(s) ==
  /\ Processed(s) /\ ObjectOf(s) \notin SkipExisting
  /\ link[s] \in live /\ s \in Keeps["backwards"]
  /\ <<s, "backwards2">> \notin failed
TasksResolved ==
  phase = "backwards2" =>
    \A s \in Sources, i \in DOMAIN TaskOrder :
      Wanted(s) /\ TaskOrder[i] = ObjectOf(s) =>
        /\ i < k => Resolved(s)
        /\ i = k /\ step # "prepare" => Resolved(s) \/ toUpdate[s] = link[s]
GraphInv == RowsInv /\ TasksResolved /\ LookupsComplete

\* A record the last pass does not send has its lookups already.
LEMMA SkippedResolved ==
  ASSUME RowsInv, phase = "backwards2", NEW s \in Sources, Wanted(s),
         s \notin RecordsToUpdate(ObjectOf(s))
  PROVE  Resolved(s)
<1>t. TypeOK /\ SnapshotsAreRight
  BY DEF RowsInv, LinkInv
<1>1. link[s] # None
  BY <1>t, NullAssumption DEF Wanted, TypeOK
<1>2. Mode = "backwards" /\ PassFields(ObjectOf(s)) = FieldsOf(ObjectOf(s))
  BY DEF Mode, PassFields
<1>3. ~ Differs(s)
  BY <1>1, <1>2 DEF Wanted, RecordsToUpdate, Working, Prepared, MayUpdate
<1>4. \A f \in FieldsOf(ObjectOf(s)) : snap[s].look[f] = LookupValue(s, f)
  BY <1>2, <1>3 DEF Differs
<1>5. \A f \in FieldsOf(ObjectOf(s)) \cap Updateable : org[link[s]].look[f] = LookupValue(s, f)
  BY <1>t, <1>1, <1>4 DEF SnapshotsAreRight, Carried, PassNames
<1>6. QED
  BY <1>5 DEF Resolved, LookupValue

\* An update of the last pass resolves the records the org took, and leaves the
\* resolved ones resolved.
LEMMA UpdatedResolved ==
  ASSUME RowsInv, phase = "backwards2", link' = link, NEW ok \in SUBSET UpdateSet,
         RowsUpdated(ok), NEW s \in Sources, link[s] # None, Resolved(s) \/ s \in ok
  PROVE  Resolved(s)'
<1>t. LinkInv /\ UpdatesAreLinked /\ OneRecordPerRow /\ phase \in PassNames
  BY DEF RowsInv, PassNames
<1>1. PassFields(ObjectOf(s)) = FieldsOf(ObjectOf(s)) /\ live' = live
  BY DEF PassFields, Mode, RowsUpdated
<1>2. SUFFICES ASSUME NEW f \in FieldsOf(ObjectOf(s)) \cap Updateable,
                      Ref[s][f] \in Sources, link[Ref[s][f]] \in live
               PROVE  org'[link[s]].look[f] = link[Ref[s][f]]
  BY <1>1 DEF Resolved
<1>3. f \in Fields
  BY DEF FieldsOf
<1>4. org'[link[s]].look[f] =
        IF s \in ok /\ f \in PassFields(ObjectOf(s)) \cap Updateable
        THEN LookupValue(s, f) ELSE org[link[s]].look[f]
  BY <1>t, <1>3, UpdatedLookups
<1>5. CASE s \in ok
  BY <1>1, <1>2, <1>4, <1>5 DEF LookupValue
<1>6. CASE s \notin ok
  BY <1>2, <1>4, <1>6 DEF Resolved
<1>7. QED
  BY <1>5, <1>6

\* Deleting rows takes away no lookup to a row that stays.
LEMMA GoneResolved ==
  ASSUME TypeOK, NEW gone \in SUBSET TargetIds, RowsGone(gone), link' = link,
         NEW s \in Sources, link[s] \in live, Resolved(s)
  PROVE  Resolved(s)'
<1>1. link[s] \in TargetIds
  BY DEF TypeOK
<1>2. SUFFICES ASSUME NEW f \in FieldsOf(ObjectOf(s)) \cap Updateable,
                      Ref[s][f] \in Sources, link[Ref[s][f]] \in live'
               PROVE  org'[link[s]].look[f] = link[Ref[s][f]]
  BY DEF Resolved
<1>3. f \in Fields /\ link[Ref[s][f]] \in live /\ link[Ref[s][f]] \notin gone
  BY <1>2 DEF RowsGone, FieldsOf
<1>4. org[link[s]].look[f] = link[Ref[s][f]]
  BY <1>2, <1>3 DEF Resolved
<1> DEFINE t == link[s]
           kept == [g \in Fields |-> IF org[t].look[g] \in gone THEN None ELSE org[t].look[g]]
<1>5. org'[t] = [org[t] EXCEPT !.look = kept] /\ org[t] \in Rows
  BY <1>1 DEF RowsGone, WithoutLookups, TypeOK
<1>6. kept[f] = org[t].look[f]
  BY <1>3, <1>4
<1> HIDE DEF kept
<1>7. org'[t].look = kept
  BY <1>5 DEF Rows
<1>8. QED
  BY <1>4, <1>6, <1>7

\* When the last pass is over every wanted record is resolved.
LEMMA AllResolved ==
  ASSUME TypeOK, TasksResolved, phase = "backwards2", k > Len(TaskOrder),
         NEW s \in Sources, Wanted(s)
  PROVE  Resolved(s)
<1>1. ObjectOf(s) \in Objects
  BY ShapeAssumption DEF ObjectOf
<1>2. PICK i \in DOMAIN TaskOrder : TaskOrder[i] = ObjectOf(s)
  BY <1>1, TasksAssumption
<1>3. i < k
  BY ShapeAssumption DEF TypeOK
<1>4. QED
  BY <1>2, <1>3 DEF TasksResolved

\* LookupsComplete in the terms of the lemmas.
LEMMA CompleteWanted ==
  LookupsComplete <=> (UpdatesOver => \A s \in Sources : Wanted(s) => Resolved(s))
BY DEF LookupsComplete, Wanted

\* What is resolved stays so while a step of the last pass touches no row.
LEMMA ResolvedStays ==
  ASSUME UNCHANGED <<link, org, live>>, NEW s \in Sources, Resolved(s)
  PROVE  Resolved(s)'
BY DEF Resolved

\* Every step keeps the resolved records resolved, and the last pass leaves none out.
LEMMA StepGraph == UniqueSourceKeys /\ GraphInv /\ [Next]_vars => GraphInv'
<1> SUFFICES ASSUME UniqueSourceKeys, GraphInv, [Next]_vars
             PROVE  TasksResolved' /\ LookupsComplete'
  BY StepRows DEF GraphInv
<1> USE DEF client, target, history
<1>t. RowsInv /\ TypeOK /\ PlansAreCurrent /\ TasksResolved /\ LookupsComplete /\ k \in Nat
  BY DEF GraphInv, RowsInv, LinkInv, TypeOK
<1>i. \A i \in DOMAIN TaskOrder : i \in Nat
  BY ShapeAssumption
<1>w. \A s \in Sources : link[s] \in live => link[s] # None
  BY <1>t, NullAssumption DEF TypeOK
<1>1. CASE DeleteOld \/ DeleteOldDone \/ Retrieve \/ InsertThrows \/ UpdateThrows \/ Rerun
  <2>1. phase' \notin {"backwards2", "deleteHierarchy", "done"}
    BY <1>1 DEF DeleteOld, DeleteOldDone, Retrieve, InsertThrows, UpdateThrows, Rerun,
       NextTask, Abort, GoTo
  <2>2. QED
    BY <2>1 DEF TasksResolved, LookupsComplete, UpdatesOver
<1>2. CASE SkipTask
  <2>1. /\ phase \in PassNames /\ UNCHANGED <<phase, link, org, live, failed>>
        /\ k' = k + 1 /\ step' = "prepare"
        /\ Op[TaskOrder[k]] \in {"Readonly", "Delete", "DeleteHierarchy"}
    BY <1>2 DEF SkipTask, NextTask, Current
  <2>2. LookupsComplete'
    BY <2>1 DEF LookupsComplete, UpdatesOver, PassNames
  <2>3. SUFFICES ASSUME phase = "backwards2", NEW s \in Sources, NEW i \in DOMAIN TaskOrder,
                        Wanted(s), TaskOrder[i] = ObjectOf(s), i < k + 1
                 PROVE  Resolved(s)'
    BY <2>1, <2>2 DEF TasksResolved, Wanted
  <2>4. i # k
    BY <2>1, <2>3 DEF Wanted, Processed
  <2>5. i < k
    BY <1>t, <1>i, <2>3, <2>4
  <2>6. QED
    BY <1>t, <2>1, <2>3, <2>5, ResolvedStays DEF TasksResolved
<1>3. CASE Prepare
  <2> DEFINE o == Current(TaskOrder)
  <2>1. UNCHANGED <<link, org, live, failed>> /\ phase \in PassNames
    BY <1>3 DEF Prepare
  <2>2. CASE Abort
    BY <2>2 DEF Abort, TasksResolved, LookupsComplete, UpdatesOver
  <2>3. CASE /\ toUpdate' = [s \in Sources |-> IF s \in RecordsToUpdate(o) THEN link[s] ELSE None]
             /\ step' = "insert" /\ UNCHANGED <<phase, k>>
    <3>1. LookupsComplete'
      BY <2>1, <2>3 DEF LookupsComplete, UpdatesOver, PassNames
    <3>2. SUFFICES ASSUME phase = "backwards2", NEW s \in Sources, NEW i \in DOMAIN TaskOrder,
                          Wanted(s), TaskOrder[i] = ObjectOf(s)
                   PROVE  /\ i < k => Resolved(s)'
                          /\ i = k => Resolved(s)' \/ toUpdate'[s] = link[s]
      BY <2>1, <2>3, <3>1 DEF TasksResolved, Wanted
    <3>3. i < k => Resolved(s)'
      BY <1>t, <2>1, <3>2, ResolvedStays DEF TasksResolved
    <3>4. ASSUME i = k, s \notin RecordsToUpdate(o) PROVE Resolved(s)'
      BY <1>t, <2>1, <3>2, <3>4, SkippedResolved, ResolvedStays DEF Current
    <3>5. QED
      BY <2>3, <3>3, <3>4
  <2>4. QED
    BY <1>3, <2>2, <2>3 DEF Prepare
<1>4. CASE InsertRows
  <2>1. /\ phase \in PassNames /\ step = "insert" /\ UNCHANGED <<phase, k, toUpdate>>
    BY <1>4 DEF InsertRows
  <2>2. LookupsComplete'
    BY <2>1 DEF LookupsComplete, UpdatesOver, PassNames
  <2>3. ASSUME phase = "backwards2" PROVE TasksResolved'
    <3>1. toInsert = {} /\ link' = link
      BY <1>t, <2>1, <2>3, BackwardsKeepLinks DEF PlansAreCurrent
    <3>2. PICK ok \in SUBSET toInsert : \E id \in [ok -> TargetIds \ live] :
            RowsCreated(ok, id) /\ failed' = failed \cup ((toInsert \ ok) \X {phase})
      BY <1>4 DEF InsertRows
    <3>3. PICK id \in [ok -> TargetIds \ live] :
            RowsCreated(ok, id) /\ failed' = failed \cup ((toInsert \ ok) \X {phase})
      BY <3>2
    <3>4. ok = {} /\ failed \subseteq failed'
      BY <3>1, <3>3
    <3>5. live' = live
      BY <3>3, <3>4 DEF RowsCreated
    <3>6. org' = org
      BY <1>t, <3>3, <3>4 DEF RowsCreated, TypeOK
    <3>7. \A s \in Sources : Wanted(s)' => Wanted(s)
      BY <3>1, <3>4, <3>5 DEF Wanted
    <3>8. \A s \in Sources : Resolved(s) => Resolved(s)'
      BY <3>1, <3>5, <3>6, ResolvedStays
    <3>9. QED
      BY <1>t, <2>1, <2>3, <3>1, <3>7, <3>8 DEF TasksResolved
  <2>4. QED
    BY <2>1, <2>2, <2>3 DEF TasksResolved
<1>5. CASE UpdateRows
  <2>1. PICK ok \in SUBSET UpdateSet :
          RowsUpdated(ok) /\ failed' = failed \cup ((UpdateSet \ ok) \X {phase})
    BY <1>5 DEF UpdateRows
  <2>2. /\ phase \in PassNames /\ phase' = phase /\ k' = k + 1 /\ step = "update"
        /\ step' = "prepare" /\ link' = link /\ live' = live
    BY <1>5, <2>1 DEF UpdateRows, NextTask, RowsUpdated
  <2>3. LookupsComplete'
    BY <2>2 DEF LookupsComplete, UpdatesOver, PassNames
  <2>4. SUFFICES ASSUME phase = "backwards2", NEW s \in Sources, NEW i \in DOMAIN TaskOrder,
                        Wanted(s)', TaskOrder[i] = ObjectOf(s), i < k + 1
                 PROVE  Resolved(s)'
    BY <2>2, <2>3 DEF TasksResolved
  <2>5. Wanted(s) /\ link[s] # None /\ (s \in UpdateSet => s \in ok)
    BY <1>w, <2>1, <2>2, <2>4 DEF Wanted
  <2>6. Resolved(s) \/ toUpdate[s] = link[s]
    <3>1. i < k \/ i = k
      BY <1>t, <1>i, <2>4
    <3>2. QED
      BY <1>t, <2>2, <2>4, <2>5, <3>1 DEF TasksResolved
  <2>7. Resolved(s) \/ s \in ok
    BY <2>5, <2>6 DEF UpdateSet
  <2>8. QED
    BY <1>t, <2>1, <2>2, <2>4, <2>5, <2>7, UpdatedResolved
<1>6. CASE PassDone
  <2>1. /\ UNCHANGED <<link, org, live, failed>> /\ phase \in PassNames
        /\ k > Len(TaskOrder) /\ k' = 1 /\ step' = "prepare"
    BY <1>6 DEF PassDone, GoTo
  <2>2. CASE phase = "backwards2"
    <3>1. phase' = "deleteHierarchy"
      BY <1>6, <2>2 DEF PassDone, GoTo
    <3>2. \A s \in Sources : Wanted(s)' => Resolved(s)'
      BY <1>t, <2>1, <2>2, AllResolved, ResolvedStays DEF Wanted
    <3>3. QED
      BY <3>1, <3>2 DEF TasksResolved, LookupsComplete, Wanted
  <2>3. CASE phase # "backwards2"
    <3>1. phase' \in PassNames
      BY <1>6, <2>1, <2>3 DEF PassDone, GoTo, PassNames
    <3>2. \A i \in DOMAIN TaskOrder : ~ i < 1
      BY ShapeAssumption
    <3>3. QED
      BY <2>1, <3>1, <3>2 DEF TasksResolved, LookupsComplete, UpdatesOver, PassNames
  <2>4. QED
    BY <2>2, <2>3
<1>7. CASE DeleteHierarchy
  <2>1. phase = "deleteHierarchy" /\ phase' # "backwards2" /\ UNCHANGED <<link, failed>>
    BY <1>7 DEF DeleteHierarchy, NextTask, Abort
  <2>2. ASSUME NEW s \in Sources, Wanted(s)' PROVE Resolved(s)'
    <3>1. CASE UNCHANGED <<org, live>>
      BY <1>t, <2>1, <2>2, <3>1, CompleteWanted, ResolvedStays DEF UpdatesOver, Wanted
    <3>2. CASE \E gone \in SUBSET TargetIds : RowsGone(gone)
      <4>1. PICK gone \in SUBSET TargetIds : RowsGone(gone)
        BY <3>2
      <4>2. link[s] \in live /\ Wanted(s)
        BY <2>1, <2>2, <4>1 DEF Wanted, RowsGone
      <4>3. Resolved(s)
        BY <1>t, <2>1, <4>2, CompleteWanted DEF UpdatesOver
      <4>4. QED
        BY <1>t, <2>1, <4>1, <4>2, <4>3, GoneResolved
    <3>3. \A o : {link[s2] : s2 \in Prepared(o)} \cap live \subseteq TargetIds
      BY <1>t DEF TypeOK
    <3>4. QED
      BY <1>7, <3>1, <3>2, <3>3 DEF DeleteHierarchy
  <2>3. QED
    BY <2>1, <2>2 DEF TasksResolved, LookupsComplete, Wanted
<1>8. CASE Finish
  <2>1. UNCHANGED <<link, org, live, failed>> /\ UpdatesOver /\ phase' # "backwards2"
    BY <1>8 DEF Finish, UpdatesOver, GoTo
  <2>2. QED
    BY <1>t, <2>1 DEF TasksResolved, LookupsComplete, Resolved
<1>9. CASE UNCHANGED vars
  BY <1>9, <1>t DEF vars, TasksResolved, LookupsComplete, UpdatesOver, Wanted, Resolved
<1>10. QED
  BY <1>1, <1>2, <1>3, <1>4, <1>5, <1>6, <1>7, <1>8, <1>9 DEF Next, Step, Terminated

\* With unique keys among the upserted source records, a job that gets through its
\* passes completes the graph: every lookup that may be updated, circular and self
\* references included, holds the row of its parent, unless the org refused the
\* record's last update; and master-detail lookups to earlier tasks are right at once.
THEOREM GraphIsComplete == ASSUME UniqueSourceKeys PROVE Spec => []GraphComplete
<1>1. Init => GraphInv
  <2>1. ASSUME Init PROVE LinkInv
    <3>1. \A s \in Sources : link[s] = None
      BY <2>1 DEF Init
    <3>2. QED
      BY <2>1, <3>1, InitType DEF LinkInv, LinkedToOwnKey, Unlinked
  <2>2. Init => /\ PlansAreCurrent /\ UpdatesAreLinked /\ OneRecordPerRow /\ SnapshotsAreRight
                /\ CreatedAreRight /\ TasksResolved /\ LookupsComplete
    BY DEF Init, PlansAreCurrent, UpdatesAreLinked, OneRecordPerRow, SnapshotsAreRight,
       CreatedAreRight, TasksResolved, LookupsComplete, UpdatesOver, PassNames, UpdateSet
  <2>3. QED
    BY <2>1, <2>2 DEF GraphInv, RowsInv
<1>2. GraphInv => GraphComplete
  <2> SUFFICES ASSUME GraphInv PROVE CreateOnlyLookupsSet
    BY DEF GraphInv, GraphComplete
  <2>1. CreatedAreRight
    BY DEF GraphInv, RowsInv
  <2>2. QED
    BY <2>1 DEF CreatedAreRight, CreateOnlyLookupsSet, Carried, LookupValue
<1>3. QED
  BY <1>1, <1>2, StepGraph, UniqueSourceKeys, PTL DEF Spec

-----------------------------------------------------------------------------
(***************************************************************************)
(* Copies.  In an update pass of a job that only copies, a record without  *)
(* link has no row.  So a lookup that already holds a copy of its parent   *)
(* is only ever overwritten by a copy of its parent.                       *)
(***************************************************************************)
KnownSources == phase \in PassNames => \A s \in Sources : link[s] = None => CopyOf(s) = {}
CopyInv == RowsInv /\ KnownSources

\* A job that only copies meets the hypothesis of the lemmas on complete graphs.
LEMMA CopiesAreUnique == OnlyCopies => UniqueSourceKeys
BY DEF OnlyCopies, UniqueSourceKeys

\* A copy stays a copy while rows and keys stay.
LEMMA CopiesStay ==
  ASSUME live \subseteq live', \A t \in live : org'[t].key = org[t].key, NEW s
  PROVE  CopyOf(s) \subseteq CopyOf(s)'
BY DEF CopyOf

\* Every step keeps the records that have a row linked in the passes.
LEMMA StepKnown == OnlyCopies /\ CopyInv /\ [Next]_vars => CopyInv'
<1> SUFFICES ASSUME OnlyCopies, CopyInv, [Next]_vars PROVE KnownSources'
  BY StepRows, CopiesAreUnique DEF CopyInv
<1> USE DEF client, target, history
<1>t. TypeOK /\ LinkInv /\ PlansAreCurrent /\ KnownSources /\ UniqueSourceKeys
  BY CopiesAreUnique DEF CopyInv, RowsInv, LinkInv
<1>1. CASE \/ DeleteOld \/ DeleteOldDone \/ InsertThrows \/ UpdateThrows
           \/ DeleteHierarchy \/ Finish \/ Rerun
  <2>1. phase' \notin PassNames
    BY <1>1 DEF DeleteOld, DeleteOldDone, InsertThrows, UpdateThrows, DeleteHierarchy, Finish,
       Rerun, GoTo, NextTask, Abort, PassNames
  <2>2. QED
    BY <2>1 DEF KnownSources
<1>2. CASE Retrieve
  <2> SUFFICES ASSUME NEW s \in Sources, link'[s] = None PROVE CopyOf(s)' = {}
    BY DEF KnownSources
  <2>1. Queried(ObjectOf(s)) /\ IsRegistered(s)
    <3>1. ObjectOf(s) \in Objects /\ Rank[s] \in Nat
      BY ShapeAssumption DEF ObjectOf
    <3>2. QED
      BY <3>1 DEF OnlyCopies, Queried, IsRegistered
  <2>2. None \notin RowsMatching(s)
    BY <1>t, NullAssumption DEF RowsMatching, TypeOK
  <2>3. RowsMatching(s) = {}
    BY <1>2, <2>1, <2>2 DEF Retrieve
  <2>4. QED
    BY <1>2, <2>3 DEF Retrieve, RowsMatching, CopyOf
<1>3. CASE SkipTask \/ PassDone \/ Prepare
  <2>1. UNCHANGED <<link, org, live>> /\ phase \in PassNames
    BY <1>3 DEF SkipTask, PassDone, Prepare
  <2>2. QED
    BY <1>t, <2>1 DEF KnownSources, CopyOf
<1>4. CASE InsertRows
  <2>1. PICK ok \in SUBSET toInsert : \E id \in [ok -> TargetIds \ live] :
          RowsCreated(ok, id) /\ RegisterInserted(ok, id)
    BY <1>4 DEF InsertRows
  <2>2. PICK id \in [ok -> TargetIds \ live] : RowsCreated(ok, id) /\ RegisterInserted(ok, id)
    BY <2>1
  <2> SUFFICES ASSUME NEW s \in Sources, link'[s] = None PROVE CopyOf(s)' = {}
    BY DEF KnownSources
  <2>3. s \notin ok /\ link[s] = None
    BY <1>t, <2>2, InsertedLinks, NullAssumption
  <2>4. \A t \in live : org[t].key # KeyOf[s]
    BY <1>4, <1>t, <2>3 DEF InsertRows, KnownSources, CopyOf
  <2>5. /\ \A t \in live : org'[t] = org[t]
        /\ \A d \in ok : org'[id[d]] = InsertedRow(d)
    BY <1>t, <2>2, RowsCreatedType
  <2>6. \A d \in ok : d \in Sources /\ InsertedRow(d).key = KeyOf[d]
    BY <1>t DEF TypeOK, InsertedRow
  <2>7. \A d \in ok : org'[id[d]].key # KeyOf[s]
    BY <2>3, <2>5, <2>6 DEF OnlyCopies
  <2>8. \A t \in live' : t \in live \/ \E d \in ok : t = id[d]
    BY <2>2 DEF RowsCreated
  <2>9. QED
    BY <2>4, <2>5, <2>7, <2>8 DEF CopyOf
<1>5. CASE UpdateRows
  <2>1. PICK ok \in SUBSET UpdateSet : RowsUpdated(ok)
    BY <1>5 DEF UpdateRows
  <2>2. \A t \in TargetIds : org'[t].key = org[t].key
    BY <1>t, <2>1, RowsUpdatedType
  <2>3. live' = live /\ live \subseteq TargetIds /\ link' = link /\ phase \in PassNames
    BY <1>5, <1>t, <2>1 DEF UpdateRows, RowsUpdated, TypeOK
  <2>4. QED
    BY <1>t, <2>2, <2>3 DEF KnownSources, CopyOf
<1>6. CASE UNCHANGED vars
  BY <1>6, <1>t DEF vars, KnownSources, CopyOf
<1>7. QED
  BY <1>1, <1>2, <1>3, <1>4, <1>5, <1>6 DEF Next, Step, Terminated

\* What a step may do to rows and lookups of a job that only copies.
RowsStay ==
  /\ live \subseteq live' /\ \A t \in live : org'[t].key = org[t].key
  /\ \A s \in Sources, f \in Fields :
       Ref[s][f] \in Sources =>
         \A t \in CopyOf(s) : org[t].look[f] \in CopyOf(Ref[s][f])
           => org'[t].look[f] \in CopyOf(Ref[s][f])

\* No row is lost and no lookup that holds a copy of the parent loses it.
LEMMA StepStays ==
  ASSUME OnlyCopies, CopyInv, [Next]_vars
  PROVE  RowsStay
<1> USE DEF client, target, history
<1>t. TypeOK /\ LinkInv /\ KnownSources /\ UpdatesAreLinked
  BY DEF CopyInv, RowsInv, LinkInv
<1>u. ASSUME UNCHANGED <<live, org>> PROVE RowsStay
  BY <1>u DEF RowsStay
<1>1. CASE DeleteOld
  BY <1>1, <1>u DEF DeleteOld, OnlyCopies
<1>2. CASE DeleteHierarchy
  <2>1. Current(DeleteOrder) \in Objects
    BY <1>2, <1>t, ShapeAssumption DEF DeleteHierarchy, Current, TypeOK
  <2>2. QED
    BY <1>2, <1>u, <2>1 DEF DeleteHierarchy, OnlyCopies
<1>3. CASE InsertRows \/ InsertThrows
  <2>1. PICK ok \in SUBSET toInsert : \E id \in [ok -> TargetIds \ live] : RowsCreated(ok, id)
    BY <1>3 DEF InsertRows, InsertThrows
  <2>2. PICK id \in [ok -> TargetIds \ live] : RowsCreated(ok, id)
    BY <2>1
  <2>3. live \subseteq live' /\ \A t \in live : org'[t] = org[t]
    BY <1>t, <2>2, RowsCreatedType
  <2>4. QED
    BY <2>3 DEF RowsStay, CopyOf
<1>4. CASE UpdateRows \/ UpdateThrows
  <2>1. PICK ok \in SUBSET UpdateSet : RowsUpdated(ok)
    BY <1>4 DEF UpdateRows, UpdateThrows
  <2>2. live' = live /\ live \subseteq TargetIds /\ phase \in PassNames
    BY <1>4, <1>t, <2>1 DEF UpdateRows, UpdateThrows, RowsUpdated, TypeOK
  <2>3. \A t \in live : org'[t].key = org[t].key
    BY <1>t, <2>1, <2>2, RowsUpdatedType
  <2>4. ASSUME NEW s \in Sources, NEW f \in Fields, Ref[s][f] \in Sources,
               NEW t \in CopyOf(s), org[t].look[f] \in CopyOf(Ref[s][f])
        PROVE  org'[t].look[f] \in CopyOf(Ref[s][f])
    <3>1. t \in live /\ t \in TargetIds /\ org[t].key = KeyOf[s]
      BY <2>2 DEF CopyOf
    <3>2. CASE \E d \in ok : toUpdate[d] = t
      <4>1. PICK d \in ok : toUpdate[d] = t /\ org'[t] = UpdatedRow(d, org[t])
        BY <2>1, <3>1, <3>2 DEF RowsUpdated
      <4>2. d \in Sources /\ toUpdate[d] = link[d] /\ link[d] # None
        BY <1>t, <2>2 DEF UpdateSet, UpdatesAreLinked
      <4>3. d = s
        BY <1>t, <3>1, <4>1, <4>2 DEF LinkInv, LinkedToOwnKey, OnlyCopies
      <4>4. org'[t].look[f] \in {LookupValue(s, f), org[t].look[f]}
        BY <4>1, <4>3 DEF UpdatedRow
      <4>5. LookupValue(s, f) = link[Ref[s][f]] /\ link[Ref[s][f]] # None
        BY <1>t, <2>2, <2>4 DEF LookupValue, KnownSources
      <4>6. LookupValue(s, f) \in CopyOf(Ref[s][f])
        BY <1>t, <2>2, <2>4, <4>5 DEF LinkInv, LinkedToOwnKey, CopyOf
      <4>7. QED
        BY <2>4, <4>4, <4>6
    <3>3. CASE ~ \E d \in ok : toUpdate[d] = t
      BY <2>1, <2>4, <3>1, <3>3 DEF RowsUpdated
    <3>4. QED
      BY <3>2, <3>3
  <2>5. QED
    BY <2>2, <2>3, <2>4 DEF RowsStay
<1>5. CASE \/ DeleteOldDone \/ Retrieve \/ SkipTask \/ Prepare \/ PassDone \/ Finish \/ Rerun
           \/ Terminated \/ UNCHANGED vars
  BY <1>5, <1>u DEF DeleteOldDone, Retrieve, SkipTask, Prepare, PassDone, Finish, Rerun,
     Terminated, vars
<1>6. QED
  BY <1>1, <1>2, <1>3, <1>4, <1>5 DEF Next, Step

\* References are carried over between copies only.
LEMMA LinkedBetween ==
  /\ Copy!BetweenCopies(Linked, Copied)
  /\ Copied \subseteq Sources /\ Linked \subseteq Sources \X Fields
BY DEF Copy!BetweenCopies, Linked, Copied

\* Seen from outside, a step lets copies and references grow.
LEMMA StepGrows == OnlyCopies /\ CopyInv /\ [Next]_vars => Copy!Grow
<1> SUFFICES ASSUME OnlyCopies, CopyInv, [Next]_vars PROVE Copy!Grow
  OBVIOUS
<1>1. RowsStay
  BY StepStays
<1>2. \A s \in Sources : CopyOf(s) \subseteq CopyOf(s)'
  BY <1>1, CopiesStay DEF RowsStay
<1>3. Copied \subseteq Copied'
  BY <1>2 DEF Copied
<1>4. Linked \subseteq Linked'
  <2> SUFFICES ASSUME NEW e \in Linked PROVE e \in Linked'
    OBVIOUS
  <2>1. e \in Sources \X Fields /\ Ref[e[1]][e[2]] \in Sources
    BY DEF Linked
  <2>2. PICK t \in CopyOf(e[1]) : org[t].look[e[2]] \in CopyOf(Ref[e[1]][e[2]])
    BY DEF Linked
  <2>3. org'[t].look[e[2]] \in CopyOf(Ref[e[1]][e[2]])
    BY <1>1, <2>1, <2>2 DEF RowsStay
  <2>4. t \in CopyOf(e[1])' /\ org'[t].look[e[2]] \in CopyOf(Ref[e[1]][e[2]])'
    BY <1>2, <2>1, <2>2, <2>3
  <2>5. QED
    BY <2>1, <2>4 DEF Linked
<1>5. Copy!BetweenCopies(Linked', Copied') /\ Copied' \subseteq Sources
      /\ Linked' \subseteq Sources \X Fields
  BY DEF Copy!BetweenCopies, Linked, Copied
<1>6. QED
  BY <1>3, <1>4, <1>5 DEF Copy!Grow

\* A job begins with nothing linked.
LEMMA InitCopy == Init => CopyInv
<1>1. ASSUME Init PROVE LinkInv
  <2>1. \A s \in Sources : link[s] = None
    BY <1>1 DEF Init
  <2>2. QED
    BY <1>1, <2>1, InitType DEF LinkInv, LinkedToOwnKey, Unlinked
<1>2. Init => /\ PlansAreCurrent /\ UpdatesAreLinked /\ OneRecordPerRow /\ SnapshotsAreRight
              /\ CreatedAreRight /\ KnownSources
  BY DEF Init, PlansAreCurrent, UpdatesAreLinked, OneRecordPerRow, SnapshotsAreRight,
     CreatedAreRight, KnownSources, PassNames, UpdateSet
<1>3. QED
  BY <1>1, <1>2 DEF CopyInv, RowsInv

\* A job that only copies implements GraphCopy over all its starts: whatever rows the
\* org refuses, whichever call throws and whenever the job is started again, no copy
\* and no reference carried over is ever lost.
THEOREM GraphIsCopied == ASSUME OnlyCopies PROVE Spec => CopiesGraph
<1>1. Init => CopyInv
  BY InitCopy
<1>2. Copy!CopyInit
  BY LinkedBetween DEF Copy!CopyInit
<1>3. QED
  BY <1>1, <1>2, StepKnown, StepGrows, OnlyCopies, PTL DEF Spec, CopiesGraph, Copy!CopySpec

-----------------------------------------------------------------------------
(***************************************************************************)
(* Starting again.  A run without rejected rows leaves an org at rest:     *)
(* every upserted record has its one row, and the rows hold what the       *)
(* passes would write.  The passes of a later run plan nothing that would  *)
(* change an org at rest.                                                  *)
(***************************************************************************)
Updated(s) == Op[ObjectOf(s)] \in {"Update", "Upsert"} /\ ObjectOf(s) \notin SkipExisting
OneCopy == \A s \in Sources : \A t, u \in CopyOf(s) : t = u

\* The lookup f of s leads to the row of its parent, if it has one.
Leads(s, f, t) ==
  IF Ref[s][f] \in Sources /\ CopyOf(Ref[s][f]) # {} THEN t \in CopyOf(Ref[s][f]) ELSE t = None
AtRest ==
  \A s \in Sources :
    /\ Op[ObjectOf(s)] = "Upsert" /\ s \in Keeps["forwards"] => CopyOf(s) # {}
    /\ Updated(s) => \A t \in CopyOf(s) :
         /\ s \in Keeps["forwards"] => org[t].val = Val[s]
         /\ s \in Keeps["backwards"] =>
              \A f \in FieldsOf(ObjectOf(s)) \cap Updateable : Leads(s, f, org[t].look[f])

\* Links lead to copies, from the passes on to the end of the run.
LinksLead ==
  phase \in PassNames \cup {"deleteHierarchy", "done"} =>
    \A s \in Sources : IF link[s] = None THEN CopyOf(s) = {} ELSE link[s] \in CopyOf(s)

\* What is planned is kept by the target filter, and asked for by the operation.
PlansAreAsked ==
  phase \in PassNames =>
    /\ \A s \in toInsert : s \in Keeps["forwards"] /\ Op[ObjectOf(s)] = "Upsert"
    /\ \A s \in UpdateSet : s \in Keeps[Mode] /\ Updated(s)
ValuesKnown ==
  phase \in PassNames =>
    \A s \in Sources : link[s] # None => org[link[s]].val \in {snap[s].val, Val[s]}

\* What a run without rejected rows has reached: ValueSet(s) when the forward pass is
\* through with s, LookupsSet(s) when the last pass is.
Behind(s) == \E i \in DOMAIN TaskOrder : i < k /\ TaskOrder[i] = ObjectOf(s)
AtTurn(s) == k \in DOMAIN TaskOrder /\ TaskOrder[k] = ObjectOf(s) /\ step # "prepare"
Forwarded(s) ==
  \/ phase \in {"backwards1", "backwards2", "deleteHierarchy", "done"}
  \/ phase = "forwards" /\ Behind(s)
Completed(s) == phase \in {"deleteHierarchy", "done"} \/ (phase = "backwards2" /\ Behind(s))
ValueSet(s) ==
  /\ Op[ObjectOf(s)] = "Upsert" /\ s \in Keeps["forwards"] => link[s] # None
  /\ Updated(s) /\ s \in Keeps["forwards"] /\ link[s] # None => org[link[s]].val = Val[s]
LookupsSet(s) ==
  Updated(s) /\ s \in Keeps["backwards"] /\ link[s] # None =>
    \A f \in FieldsOf(ObjectOf(s)) \cap Updateable : org[link[s]].look[f] = LookupValue(s, f)
Reached(s) ==
  /\ Forwarded(s) => ValueSet(s)
  /\ Completed(s) => LookupsSet(s)
  /\ phase = "forwards" /\ AtTurn(s) => ValueSet(s) \/ s \in toInsert \/ s \in UpdateSet
  /\ phase = "backwards2" /\ AtTurn(s) => LookupsSet(s) \/ s \in UpdateSet
Progress == failed = {} => \A s \in Sources : Reached(s)
RestInv ==
  /\ CopyInv /\ OneCopy /\ LinksLead /\ PlansAreAsked /\ ValuesKnown /\ Progress
  /\ settled => AtRest

\* Links lead to copies in the passes.
LEMMA PassLinks ==
  ASSUME CopyInv, phase \in PassNames, NEW s \in Sources
  PROVE  IF link[s] = None THEN CopyOf(s) = {} ELSE link[s] \in CopyOf(s)
BY DEF CopyInv, KnownSources, RowsInv, LinkInv, LinkedToOwnKey, CopyOf

\* The value a pass writes is the one that leads to the parent.
LEMMA ValueLeads ==
  ASSUME OneCopy, NEW s \in Sources, NEW f \in Fields,
         \A d \in Sources : IF link[d] = None THEN CopyOf(d) = {} ELSE link[d] \in CopyOf(d)
  PROVE  \A t : Leads(s, f, t) <=> t = LookupValue(s, f)
<1>1. CASE Ref[s][f] \in Sources
  <2> DEFINE d == Ref[s][f]
  <2>1. CASE link[d] = None
    BY <1>1, <2>1 DEF Leads, LookupValue
  <2>2. CASE link[d] # None
    <3>1. link[d] \in CopyOf(d) /\ LookupValue(s, f) = link[d]
      BY <1>1, <2>2 DEF LookupValue
    <3>2. \A t \in CopyOf(d) : t = link[d]
      BY <1>1, <3>1 DEF OneCopy
    <3>3. QED
      BY <1>1, <3>1, <3>2 DEF Leads
  <2>3. QED
    BY <2>1, <2>2
<1>2. CASE Ref[s][f] \notin Sources
  BY <1>2 DEF Leads, LookupValue
<1>3. QED
  BY <1>1, <1>2

\* A job that only copies takes no row away.
LEMMA NothingGoes ==
  ASSUME OnlyCopies, TypeOK, DeleteOld \/ DeleteHierarchy
  PROVE  UNCHANGED <<live, org>>
<1>1. CASE DeleteOld
  BY <1>1 DEF DeleteOld, OnlyCopies, target
<1>2. CASE DeleteHierarchy
  <2>1. Current(DeleteOrder) \in Objects
    BY <1>2, ShapeAssumption DEF DeleteHierarchy, Current, TypeOK
  <2>2. QED
    BY <1>2, <2>1 DEF DeleteHierarchy, OnlyCopies, target
<1>3. QED
  BY <1>1, <1>2

\* Every step leaves a record with one row at most.
LEMMA StepOnce == OnlyCopies /\ CopyInv /\ OneCopy /\ [Next]_vars => OneCopy'
<1> SUFFICES ASSUME OnlyCopies, CopyInv, OneCopy, [Next]_vars PROVE OneCopy'
  OBVIOUS
<1> USE DEF client, target, history
<1>t. TypeOK /\ PlansAreCurrent /\ KnownSources
  BY DEF CopyInv, RowsInv, LinkInv
<1>u. ASSUME live' = live, \A t \in live : org'[t].key = org[t].key PROVE OneCopy'
  BY <1>u DEF OneCopy, CopyOf
<1>1. CASE InsertRows \/ InsertThrows
  <2>1. phase \in PassNames /\ \E ok \in SUBSET toInsert : \E id \in [ok -> TargetIds \ live] : RowsCreated(ok, id)
    BY <1>1 DEF InsertRows, InsertThrows
  <2>2. PICK ok \in SUBSET toInsert : \E id \in [ok -> TargetIds \ live] : RowsCreated(ok, id)
    BY <2>1
  <2>3. PICK id \in [ok -> TargetIds \ live] : RowsCreated(ok, id)
    BY <2>2
  <2>4. /\ \A t \in live : org'[t] = org[t]
        /\ \A d \in ok : org'[id[d]] = InsertedRow(d)
    BY <1>t, <2>3, RowsCreatedType
  <2>5. \A d \in ok : d \in Sources /\ org'[id[d]].key = KeyOf[d] /\ CopyOf(d) = {}
    <3>1. \A d : InsertedRow(d).key = KeyOf[d]
      BY DEF InsertedRow
    <3>2. \A d \in ok : d \in Sources /\ CopyOf(d) = {}
      BY <1>t, <2>1 DEF TypeOK, PlansAreCurrent, KnownSources
    <3>3. QED
      BY <2>4, <3>1, <3>2
  <2>6. \A t \in live' : t \in live \/ \E d \in ok : t = id[d]
    BY <2>3 DEF RowsCreated
  <2> SUFFICES ASSUME NEW s \in Sources, NEW t \in CopyOf(s)', NEW u \in CopyOf(s)' PROVE t = u
    BY DEF OneCopy
  <2>7. t \in live' /\ u \in live' /\ org'[t].key = KeyOf[s] /\ org'[u].key = KeyOf[s]
    BY DEF CopyOf
  <2>8. \A v \in live' : org'[v].key = KeyOf[s] => v \in CopyOf(s) \/ (s \in ok /\ v = id[s])
    <3> SUFFICES ASSUME NEW v \in live', org'[v].key = KeyOf[s]
                 PROVE  v \in CopyOf(s) \/ (s \in ok /\ v = id[s])
      OBVIOUS
    <3>1. CASE v \in live
      BY <2>4, <3>1 DEF CopyOf
    <3>2. CASE \E d \in ok : v = id[d]
      BY <2>5, <3>2 DEF OnlyCopies
    <3>3. QED
      BY <2>6, <3>1, <3>2
  <2>9. t \in CopyOf(s) /\ u \in CopyOf(s) => t = u
    BY DEF OneCopy
  <2>10. QED
    BY <2>5, <2>7, <2>8, <2>9
<1>2. CASE UpdateRows \/ UpdateThrows
  <2>1. PICK ok \in SUBSET UpdateSet : RowsUpdated(ok)
    BY <1>2 DEF UpdateRows, UpdateThrows
  <2>2. live' = live /\ live \subseteq TargetIds
    BY <1>t, <2>1 DEF RowsUpdated, TypeOK
  <2>3. QED
    BY <1>t, <1>u, <2>1, <2>2, RowsUpdatedType
<1>3. CASE DeleteOld \/ DeleteHierarchy
  BY <1>t, <1>u, <1>3, NothingGoes
<1>4. CASE \/ DeleteOldDone \/ Retrieve \/ SkipTask \/ Prepare \/ PassDone \/ Finish \/ Rerun
           \/ Terminated \/ UNCHANGED vars
  BY <1>u, <1>4 DEF DeleteOldDone, Retrieve, SkipTask, Prepare, PassDone, Finish, Rerun,
     Terminated, vars
<1>5. QED
  BY <1>1, <1>2, <1>3, <1>4 DEF Next, Step

\* The links of the passes are there until the run ends.
LEMMA StepLead == OnlyCopies /\ CopyInv /\ LinksLead /\ [Next]_vars => LinksLead'
<1> SUFFICES ASSUME OnlyCopies, CopyInv, LinksLead, [Next]_vars PROVE LinksLead'
  OBVIOUS
<1> USE DEF client, target, history
<1>t. TypeOK /\ CopyInv'
  BY StepKnown DEF CopyInv, RowsInv, LinkInv
<1>1. CASE phase' \in PassNames
  <2>1. \A s \in Sources : IF link'[s] = None THEN CopyOf(s)' = {} ELSE link'[s] \in CopyOf(s)'
    BY <1>t, <1>1 DEF CopyInv, KnownSources, RowsInv, LinkInv, LinkedToOwnKey, CopyOf
  <2>2. QED
    BY <2>1 DEF LinksLead
<1>2. CASE phase' \in {"deleteHierarchy", "done"}
  <2>1. PassDone \/ DeleteHierarchy \/ Finish \/ UNCHANGED vars
    BY <1>2 DEF Next, Step, Terminated, DeleteOld, DeleteOldDone, Retrieve, SkipTask, Prepare,
       InsertRows, InsertThrows, UpdateRows, UpdateThrows, Rerun, GoTo, NextTask, Abort, PassNames
  <2>2. UNCHANGED <<link, live, org>> /\ phase \in PassNames \cup {"deleteHierarchy", "done"}
    <3>1. CASE PassDone \/ Finish
      BY <3>1 DEF PassDone, Finish
    <3>2. CASE DeleteHierarchy
      BY <1>t, <3>2, NothingGoes DEF DeleteHierarchy
    <3>3. CASE UNCHANGED vars
      BY <1>2, <3>3 DEF vars
    <3>4. QED
      BY <2>1, <3>1, <3>2, <3>3
  <2>3. QED
    BY <2>2 DEF LinksLead, CopyOf
<1>3. QED
  BY <1>1, <1>2 DEF LinksLead

\* Plans are made of records the filter keeps.
LEMMA StepAsked == OnlyCopies /\ CopyInv /\ PlansAreAsked /\ [Next]_vars => PlansAreAsked'
<1> SUFFICES ASSUME OnlyCopies, CopyInv, PlansAreAsked, [Next]_vars PROVE PlansAreAsked'
  OBVIOUS
<1> USE DEF client, target, history
<1>t. TypeOK /\ PlansAreCurrent
  BY DEF CopyInv, RowsInv, LinkInv
<1>1. CASE Prepare
  <2> DEFINE o == Current(TaskOrder)
  <2>1. CASE Abort
    BY <2>1 DEF Abort, PlansAreAsked, PassNames
  <2>2. CASE /\ toInsert' = RecordsToInsert(o)
             /\ toUpdate' = [s \in Sources |-> IF s \in RecordsToUpdate(o) THEN link[s] ELSE None]
             /\ UNCHANGED <<phase, k>>
    <3>1. o \in Objects /\ Op[o] \in {"Insert", "Update", "Upsert"}
      BY <1>1, <1>t, ShapeAssumption DEF Prepare, Current, TypeOK
    <3>2. Op[o] \in {"Update", "Upsert"}
      BY <3>1 DEF OnlyCopies
    <3>3. \A s \in RecordsToInsert(o) : s \in Keeps["forwards"] /\ Op[ObjectOf(s)] = "Upsert"
      BY <3>2 DEF RecordsToInsert, Working, Prepared, Mode
    <3>4. \A s \in RecordsToUpdate(o) : s \in Keeps[Mode] /\ Updated(s)
      BY <3>2 DEF RecordsToUpdate, Working, Prepared, Updated
    <3>5. UpdateSet' \subseteq RecordsToUpdate(o) /\ Mode' = Mode
      BY <2>2 DEF UpdateSet, Mode
    <3>6. QED
      BY <2>2, <3>3, <3>4, <3>5 DEF PlansAreAsked, Updated
  <2>3. QED
    BY <1>1, <2>1, <2>2 DEF Prepare
<1>2. CASE InsertRows
  BY <1>2 DEF InsertRows, PlansAreAsked, UpdateSet, Mode, Updated
<1>3. CASE UpdateRows
  BY <1>3 DEF UpdateRows, NextTask, PlansAreAsked, UpdateSet
<1>4. CASE Retrieve \/ SkipTask \/ PassDone
  <2>1. toInsert' = {} /\ UpdateSet' = {}
    <3>1. toInsert = {} /\ UpdateSet = {}
      BY <1>4, <1>t DEF PlansAreCurrent, Retrieve, SkipTask, PassDone
    <3>2. QED
      BY <1>4, <3>1 DEF Retrieve, SkipTask, PassDone, UpdateSet
  <2>2. QED
    BY <2>1 DEF PlansAreAsked
<1>5. CASE \/ DeleteOld \/ DeleteOldDone \/ InsertThrows \/ UpdateThrows \/ DeleteHierarchy
           \/ Finish \/ Rerun
  <2>1. phase' \notin PassNames
    BY <1>5 DEF DeleteOld, DeleteOldDone, InsertThrows, UpdateThrows, DeleteHierarchy, Finish,
       Rerun, GoTo, NextTask, Abort, PassNames
  <2>2. QED
    BY <2>1 DEF PlansAreAsked
<1>6. CASE UNCHANGED vars
  BY <1>6 DEF vars, PlansAreAsked, UpdateSet, Mode, Updated
<1>7. QED
  BY <1>1, <1>2, <1>3, <1>4, <1>5, <1>6 DEF Next, Step, Terminated

\* The row of a linked record after an Update call: rewritten for it, or untouched.
LEMMA UpdatedFor ==
  ASSUME LinkInv, UpdatesAreLinked, OneRecordPerRow, phase \in PassNames,
         NEW ok \in SUBSET UpdateSet, RowsUpdated(ok), NEW s \in Sources, link[s] # None
  PROVE  org'[link[s]] = IF s \in ok THEN UpdatedRow(s, org[link[s]]) ELSE org[link[s]]
<1>1. link[s] \in TargetIds
  BY DEF LinkInv, TypeOK, OrNull
<1>2. \A d \in ok : d \in Sources /\ toUpdate[d] = link[d]
  BY DEF UpdateSet, UpdatesAreLinked
<1>3. CASE s \in ok
  <2>1. (CHOOSE d \in ok : toUpdate[d] = link[s]) = s
    BY <1>2, <1>3 DEF OneRecordPerRow
  <2>2. QED
    BY <1>1, <1>2, <1>3, <2>1 DEF RowsUpdated
<1>4. CASE s \notin ok
  <2>1. ~ \E d \in ok : toUpdate[d] = link[s]
    BY <1>2, <1>4 DEF OneRecordPerRow
  <2>2. QED
    BY <1>1, <1>4, <2>1 DEF RowsUpdated
<1>5. QED
  BY <1>3, <1>4

\* The row of a record after an Insert call.
LEMMA InsertedFor ==
  ASSUME UniqueSourceKeys, LinkInv, phase \in PassNames,
         NEW ok \in SUBSET toInsert, NEW id \in [ok -> TargetIds \ live],
         RowsCreated(ok, id), RegisterInserted(ok, id), NEW s \in Sources
  PROVE  IF s \in ok
         THEN link'[s] # None /\ org'[link'[s]].val = Val[s]
         ELSE /\ link'[s] = link[s] /\ snap'[s] = snap[s]
              /\ link[s] # None => org'[link[s]] = org[link[s]]
<1>t. TypeOK /\ ok \in SUBSET Sources
  BY DEF LinkInv, TypeOK
<1>1. /\ \A t \in live : org'[t] = org[t]
      /\ \A d \in ok : org'[id[d]] = InsertedRow(d)
  BY <1>t, RowsCreatedType
<1>2. CASE s \in ok
  <2>1. link'[s] = id[s] /\ id[s] \in TargetIds
    BY <1>t, <1>2, InsertedLinks
  <2>2. InsertedRow(s).val = Val[s]
    BY DEF InsertedRow
  <2>3. QED
    BY <1>1, <1>2, <2>1, <2>2, NullAssumption
<1>3. CASE s \notin ok
  <2>1. link'[s] = link[s] /\ snap'[s] = snap[s]
    BY <1>t, <1>3, InsertedLinks
  <2>2. link[s] # None => link[s] \in live
    BY DEF LinkInv, LinkedToOwnKey
  <2>3. QED
    BY <1>1, <1>3, <2>1, <2>2
<1>4. QED
  BY <1>2, <1>3

\* Every step keeps what a record remembers of its row's values: the row has them still,
\* or the ones of the record.
LEMMA StepValues == UniqueSourceKeys /\ RowsInv /\ ValuesKnown /\ [Next]_vars => ValuesKnown'
<1> SUFFICES ASSUME UniqueSourceKeys, RowsInv, ValuesKnown, [Next]_vars PROVE ValuesKnown'
  OBVIOUS
<1> USE DEF client, target, history
<1>t. LinkInv /\ TypeOK /\ PlansAreCurrent /\ UpdatesAreLinked /\ OneRecordPerRow
  BY DEF RowsInv, LinkInv
<1>u. ASSUME phase \in PassNames, UNCHANGED <<link, snap, org>> PROVE ValuesKnown'
  BY <1>u DEF ValuesKnown
<1>1. CASE Retrieve
  BY <1>1 DEF Retrieve, ValuesKnown
<1>2. CASE SkipTask \/ PassDone \/ Prepare
  BY <1>2, <1>u DEF SkipTask, PassDone, Prepare
<1>3. CASE InsertRows
  <2>1. phase \in PassNames /\ \E ok \in SUBSET toInsert : \E id \in [ok -> TargetIds \ live] :
          RowsCreated(ok, id) /\ RegisterInserted(ok, id)
    BY <1>3 DEF InsertRows
  <2>2. PICK ok \in SUBSET toInsert : \E id \in [ok -> TargetIds \ live] :
          RowsCreated(ok, id) /\ RegisterInserted(ok, id)
    BY <2>1
  <2>3. PICK id \in [ok -> TargetIds \ live] : RowsCreated(ok, id) /\ RegisterInserted(ok, id)
    BY <2>2
  <2> SUFFICES ASSUME NEW s \in Sources, link'[s] # None
               PROVE  org'[link'[s]].val \in {snap'[s].val, Val[s]}
    BY DEF ValuesKnown
  <2>4. IF s \in ok THEN org'[link'[s]].val = Val[s]
        ELSE /\ link'[s] = link[s] /\ snap'[s] = snap[s]
             /\ link[s] # None => org'[link[s]] = org[link[s]]
    BY <1>t, <2>1, <2>3, InsertedFor
  <2>5. QED
    BY <2>1, <2>4 DEF ValuesKnown
<1>4. CASE UpdateRows
  <2>1. PICK ok \in SUBSET UpdateSet : RowsUpdated(ok)
    BY <1>4 DEF UpdateRows
  <2>2. phase \in PassNames /\ UNCHANGED <<link, snap>>
    BY <1>4 DEF UpdateRows
  <2> SUFFICES ASSUME NEW s \in Sources, link[s] # None
               PROVE  org'[link[s]].val \in {snap[s].val, Val[s]}
    BY <2>2 DEF ValuesKnown
  <2>3. org'[link[s]] = IF s \in ok THEN UpdatedRow(s, org[link[s]]) ELSE org[link[s]]
    BY <1>t, <2>1, <2>2, UpdatedFor
  <2>4. UpdatedRow(s, org[link[s]]).val \in {Val[s], org[link[s]].val}
    BY DEF UpdatedRow
  <2>5. org'[link[s]].val \in {Val[s], org[link[s]].val}
    BY <2>3, <2>4
  <2>6. QED
    BY <2>2, <2>5 DEF ValuesKnown
<1>5. CASE \/ DeleteOld \/ DeleteOldDone \/ InsertThrows \/ UpdateThrows \/ DeleteHierarchy
           \/ Finish \/ Rerun
  <2>1. phase' \notin PassNames
    BY <1>5 DEF DeleteOld, DeleteOldDone, InsertThrows, UpdateThrows, DeleteHierarchy, Finish,
       Rerun, GoTo, NextTask, Abort, PassNames
  <2>2. QED
    BY <2>1 DEF ValuesKnown
<1>6. CASE UNCHANGED vars
  BY <1>6 DEF vars, ValuesKnown
<1>7. QED
  BY <1>1, <1>2, <1>3, <1>4, <1>5, <1>6 DEF Next, Step, Terminated

-----------------------------------------------------------------------------
\* When a task has had its turn, what it has reached is behind.
LEMMA BehindNext ==
  ASSUME TypeOK, NEW s \in Sources
  PROVE  /\ (\E i \in DOMAIN TaskOrder : i < k + 1 /\ TaskOrder[i] = ObjectOf(s))
              => Behind(s) \/ (k \in DOMAIN TaskOrder /\ TaskOrder[k] = ObjectOf(s))
         /\ k > Len(TaskOrder) => Behind(s)
         /\ ~ \E i \in DOMAIN TaskOrder : i < 1
<1>1. k \in Nat /\ \A i \in DOMAIN TaskOrder : i \in Nat /\ i > 0 /\ i <= Len(TaskOrder)
  BY ShapeAssumption DEF TypeOK
<1>2. ObjectOf(s) \in Objects
  BY ShapeAssumption DEF ObjectOf
<1>3. PICK j \in DOMAIN TaskOrder : TaskOrder[j] = ObjectOf(s)
  BY <1>2, TasksAssumption
<1>4. \A i \in DOMAIN TaskOrder : i < k + 1 => i < k \/ i = k
  BY <1>1
<1>5. k > Len(TaskOrder) => j < k
  BY <1>1, ShapeAssumption
<1>6. QED
  BY <1>1, <1>3, <1>4, <1>5 DEF Behind

\* A record the forward pass neither inserts nor updates has its values.
LEMMA ValueIsSet ==
  ASSUME ValuesKnown, phase = "forwards", NEW s \in Sources,
         s \notin RecordsToInsert(ObjectOf(s)), s \notin RecordsToUpdate(ObjectOf(s))
  PROVE  ValueSet(s)
<1>1. Mode = "forwards" /\ phase \in PassNames
  BY DEF Mode, PassNames
<1>2. ASSUME Op[ObjectOf(s)] = "Upsert", s \in Keeps["forwards"] PROVE link[s] # None
  BY <1>1, <1>2 DEF RecordsToInsert, Working, Prepared
<1>3. ASSUME Updated(s), s \in Keeps["forwards"], link[s] # None
      PROVE  org[link[s]].val = Val[s]
  <2>1. ~ Differs(s)
    BY <1>1, <1>3 DEF RecordsToUpdate, Working, Prepared, Updated, MayUpdate
  <2>2. snap[s].val = Val[s]
    BY <1>1, <2>1 DEF Differs
  <2>3. QED
    BY <1>1, <1>3, <2>2 DEF ValuesKnown
<1>4. QED
  BY <1>2, <1>3 DEF ValueSet

\* A record the last pass does not send has its lookups.
LEMMA LookupsAreSet ==
  ASSUME RowsInv, phase = "backwards2", NEW s \in Sources, s \notin RecordsToUpdate(ObjectOf(s))
  PROVE  LookupsSet(s)
<1>t. SnapshotsAreRight
  BY DEF RowsInv
<1>1. Mode = "backwards" /\ PassFields(ObjectOf(s)) = FieldsOf(ObjectOf(s)) /\ phase \in PassNames
  BY DEF Mode, PassFields, PassNames
<1> SUFFICES ASSUME Updated(s), s \in Keeps["backwards"], link[s] # None,
                    NEW f \in FieldsOf(ObjectOf(s)) \cap Updateable
             PROVE  org[link[s]].look[f] = LookupValue(s, f)
  BY DEF LookupsSet
<1>2. ~ Differs(s)
  BY <1>1 DEF RecordsToUpdate, Working, Prepared, Updated, MayUpdate
<1>3. snap[s].look[f] = LookupValue(s, f)
  BY <1>1, <1>2 DEF Differs
<1>4. QED
  BY <1>t, <1>1, <1>3 DEF SnapshotsAreRight, Carried

\* Values and lookups stay while links and rows do.
LEMMA SetStays ==
  ASSUME UNCHANGED <<link, org>>, NEW s
  PROVE  (ValueSet(s) => ValueSet(s)') /\ (LookupsSet(s) => LookupsSet(s)')
BY DEF ValueSet, LookupsSet, LookupValue, Updated

\* A task whose turn begins: what it plans is missing, the rest is there.
LEMMA PreparedReached ==
  ASSUME RowsInv, ValuesKnown, phase \in PassNames, NEW s \in Sources, Reached(s),
         UNCHANGED <<phase, k, link, org>>, step = "prepare",
         toInsert' = RecordsToInsert(Current(TaskOrder)),
         toUpdate' = [d \in Sources |-> IF d \in RecordsToUpdate(Current(TaskOrder)) THEN link[d] ELSE None]
  PROVE  Reached(s)'
<1>1. Forwarded(s)' => ValueSet(s)'
  BY SetStays DEF Reached, Forwarded, Behind
<1>2. Completed(s)' => LookupsSet(s)'
  BY SetStays DEF Reached, Completed, Behind
<1>3. AtTurn(s)' => Current(TaskOrder) = ObjectOf(s)
  BY DEF AtTurn, Current
<1>4. s \in RecordsToUpdate(ObjectOf(s)) => link[s] # None
  BY DEF RecordsToUpdate
<1>5. ASSUME AtTurn(s)', phase = "forwards"
      PROVE  ValueSet(s)' \/ s \in toInsert' \/ s \in UpdateSet'
  <2>1. CASE s \in RecordsToInsert(ObjectOf(s))
    BY <1>3, <1>5, <2>1
  <2>2. CASE s \in RecordsToUpdate(ObjectOf(s))
    BY <1>3, <1>4, <1>5, <2>2 DEF UpdateSet
  <2>3. CASE s \notin RecordsToInsert(ObjectOf(s)) /\ s \notin RecordsToUpdate(ObjectOf(s))
    BY <1>5, <2>3, ValueIsSet, SetStays
  <2>4. QED
    BY <2>1, <2>2, <2>3
<1>6. ASSUME AtTurn(s)', phase = "backwards2" PROVE LookupsSet(s)' \/ s \in UpdateSet'
  <2>1. CASE s \in RecordsToUpdate(ObjectOf(s))
    BY <1>3, <1>4, <1>6, <2>1 DEF UpdateSet
  <2>2. CASE s \notin RecordsToUpdate(ObjectOf(s))
    BY <1>6, <2>2, LookupsAreSet, SetStays
  <2>3. QED
    BY <2>1, <2>2
<1>7. QED
  BY <1>1, <1>2, <1>5, <1>6 DEF Reached

\* An Insert call that is taken whole gives its records the values they need.
LEMMA InsertedReached ==
  ASSUME UniqueSourceKeys, RowsInv, phase \in PassNames, InsertRows, failed' = {},
         NEW s \in Sources, Reached(s)
  PROVE  Reached(s)'
<1> USE DEF client, target, history
<1>t. LinkInv /\ TypeOK /\ PlansAreCurrent
  BY DEF RowsInv, LinkInv
<1>1. /\ UNCHANGED <<phase, k, toUpdate>> /\ step = "insert" /\ step' = "update"
      /\ \E ok \in SUBSET toInsert : \E id \in [ok -> TargetIds \ live] :
           /\ RowsCreated(ok, id) /\ RegisterInserted(ok, id)
           /\ failed' = failed \cup ((toInsert \ ok) \X {phase})
  BY DEF InsertRows
<1>2. PICK ok \in SUBSET toInsert : \E id \in [ok -> TargetIds \ live] :
        /\ RowsCreated(ok, id) /\ RegisterInserted(ok, id)
        /\ failed' = failed \cup ((toInsert \ ok) \X {phase})
  BY <1>1
<1>3. PICK id \in [ok -> TargetIds \ live] :
        /\ RowsCreated(ok, id) /\ RegisterInserted(ok, id)
        /\ failed' = failed \cup ((toInsert \ ok) \X {phase})
  BY <1>2
<1>4. toInsert = ok
  <2>1. \A d \in toInsert \ ok : <<d, phase>> \in failed'
    BY <1>3
  <2>2. QED
    BY <2>1
<1>5. IF s \in ok
      THEN link'[s] # None /\ org'[link'[s]].val = Val[s]
      ELSE /\ link'[s] = link[s] /\ snap'[s] = snap[s]
           /\ link[s] # None => org'[link[s]] = org[link[s]]
  BY <1>t, <1>3, InsertedFor
<1>6. ValueSet(s) \/ s \in ok => ValueSet(s)'
  BY <1>5 DEF ValueSet, Updated
<1>7. UpdateSet' = UpdateSet /\ Forwarded(s)' = Forwarded(s) /\ Completed(s)' = Completed(s)
      /\ (AtTurn(s)' => AtTurn(s))
  BY <1>1 DEF UpdateSet, Forwarded, Completed, Behind, AtTurn
<1>8. ASSUME phase = "backwards2", LookupsSet(s) PROVE LookupsSet(s)'
  <2>1. ok = {}
    BY <1>t, <1>8 DEF PlansAreCurrent, PassNames
  <2>2. org' = org
    BY <1>t, <1>3, <2>1 DEF RowsCreated, TypeOK
  <2>3. link' = link
    <3>1. [Next]_vars
      BY DEF Next, Step
    <3>2. QED
      BY <1>t, <1>8, <3>1, BackwardsKeepLinks DEF PassNames
  <2>4. QED
    BY <1>8, <2>2, <2>3, SetStays
<1>9. Completed(s) => phase = "backwards2"
  BY DEF Completed, PassNames
<1>10. QED
  BY <1>1, <1>4, <1>6, <1>7, <1>8, <1>9 DEF Reached

\* An Update call that is taken whole gives its records the values and lookups they
\* need, and ends the turn of the task.
LEMMA UpdatedReached ==
  ASSUME RowsInv, phase \in PassNames, UpdateRows, failed' = {},
         NEW s \in Sources, Reached(s)
  PROVE  Reached(s)'
<1> USE DEF client, target, history
<1>t. LinkInv /\ TypeOK /\ PlansAreCurrent /\ UpdatesAreLinked /\ OneRecordPerRow
  BY DEF RowsInv, LinkInv
<1>1. /\ UNCHANGED <<phase, link>> /\ k' = k + 1 /\ step = "update" /\ step' = "prepare"
      /\ \E ok \in SUBSET UpdateSet :
           RowsUpdated(ok) /\ failed' = failed \cup ((UpdateSet \ ok) \X {phase})
  BY DEF UpdateRows, NextTask
<1>2. PICK ok \in SUBSET UpdateSet :
        RowsUpdated(ok) /\ failed' = failed \cup ((UpdateSet \ ok) \X {phase})
  BY <1>1
<1>3. UpdateSet = ok
  <2>1. \A d \in UpdateSet \ ok : <<d, phase>> \in failed'
    BY <1>2
  <2>2. QED
    BY <2>1
<1>4. link[s] # None =>
        org'[link[s]] = IF s \in ok THEN UpdatedRow(s, org[link[s]]) ELSE org[link[s]]
  BY <1>t, <1>2, UpdatedFor
<1>5. s \in ok => link[s] # None
  BY <1>t DEF UpdateSet, UpdatesAreLinked
<1>6. ASSUME ValueSet(s) \/ (phase = "forwards" /\ s \in ok) PROVE ValueSet(s)'
  <2>1. UpdatedRow(s, org[link[s]]).val = IF phase = "forwards" THEN Val[s] ELSE org[link[s]].val
    BY DEF UpdatedRow, Mode
  <2>2. link[s] # None => org'[link[s]].val = org[link[s]].val
                          \/ (s \in ok /\ org'[link[s]].val = Val[s])
    BY <1>4, <2>1
  <2>3. s \in ok /\ phase = "forwards" => org'[link[s]].val = Val[s]
    BY <1>4, <1>5, <2>1
  <2>4. QED
    BY <1>1, <1>5, <1>6, <2>2, <2>3 DEF ValueSet, Updated
<1>7. ASSUME phase = "backwards2", LookupsSet(s) \/ s \in ok PROVE LookupsSet(s)'
  <2> SUFFICES ASSUME Updated(s), s \in Keeps["backwards"], link[s] # None,
                      NEW f \in FieldsOf(ObjectOf(s)) \cap Updateable
               PROVE  org'[link[s]].look[f] = LookupValue(s, f)
    BY <1>1 DEF LookupsSet, LookupValue, Updated
  <2>1. f \in Fields /\ f \in PassFields(ObjectOf(s)) \cap Updateable
    BY <1>7 DEF FieldsOf, PassFields, Mode
  <2>2. UpdatedRow(s, org[link[s]]).look[f] = LookupValue(s, f)
    BY <2>1 DEF UpdatedRow
  <2>3. QED
    BY <1>4, <1>7, <2>2 DEF LookupsSet
<1>8. /\ ~AtTurn(s)'
      /\ Behind(s)' => Behind(s) \/ AtTurn(s)
  BY <1>t, <1>1, BehindNext DEF AtTurn, Behind
<1>9. s \notin toInsert
  BY <1>t, <1>1 DEF PlansAreCurrent
<1>10. Forwarded(s)' => ValueSet(s)'
  BY <1>1, <1>3, <1>6, <1>8, <1>9 DEF Reached, Forwarded
<1>11. Completed(s)' => LookupsSet(s)'
  BY <1>1, <1>3, <1>7, <1>8 DEF Reached, Completed, PassNames
<1>12. QED
  BY <1>8, <1>10, <1>11 DEF Reached

\* When a pass is over, it is through with every record.
LEMMA PassReached ==
  ASSUME RowsInv, PassDone, NEW s \in Sources, Reached(s)
  PROVE  Reached(s)'
<1> USE DEF client, target, history
<1>t. TypeOK
  BY DEF RowsInv, LinkInv
<1>1. /\ UNCHANGED <<link, org>> /\ phase \in PassNames /\ k > Len(TaskOrder)
      /\ k' = 1 /\ step' = "prepare"
      /\ phase = "forwards" => phase' = "backwards1"
      /\ phase = "backwards1" => phase' = "backwards2"
      /\ phase = "backwards2" => phase' = "deleteHierarchy"
  BY DEF PassDone, GoTo
<1>2. Behind(s) /\ ~Behind(s)' /\ ~AtTurn(s)'
  BY <1>t, <1>1, BehindNext DEF Behind, AtTurn
<1>3. Forwarded(s) /\ (phase = "backwards2" => Completed(s))
  BY <1>1, <1>2 DEF Forwarded, Completed, PassNames
<1>4. Completed(s)' => phase = "backwards2"
  BY <1>1, <1>2 DEF Completed, PassNames
<1>5. QED
  BY <1>1, <1>2, <1>3, <1>4, SetStays DEF Reached

\* Every step of a run without rejected rows brings the org closer to rest.
LEMMA StepProgress ==
  OnlyCopies /\ RowsInv /\ ValuesKnown /\ Progress /\ [Next]_vars => Progress'
<1> SUFFICES ASSUME OnlyCopies, RowsInv, ValuesKnown, Progress, [Next]_vars, failed' = {},
                    NEW s \in Sources
             PROVE  Reached(s)'
  BY DEF Progress
<1> USE DEF client, target, history
<1>t. TypeOK /\ UniqueSourceKeys
  BY CopiesAreUnique DEF RowsInv, LinkInv
<1>1. CASE DeleteOld \/ DeleteOldDone \/ Retrieve \/ InsertThrows \/ UpdateThrows \/ Rerun
  <2>1. \/ phase' \in {"deleteOld", "retrieve", "aborted"}
        \/ phase' = "forwards" /\ k' = 1 /\ step' = "prepare"
    BY <1>1 DEF DeleteOld, DeleteOldDone, Retrieve, InsertThrows, UpdateThrows, Rerun,
       NextTask, Abort, GoTo
  <2>2. k' = 1 => ~Behind(s)'
    BY <1>t, BehindNext DEF Behind
  <2>3. QED
    BY <2>1, <2>2 DEF Reached, Forwarded, Completed, AtTurn
<1>2. CASE SkipTask
  <2>1. /\ UNCHANGED <<phase, link, org, failed>> /\ k' = k + 1 /\ step' = "prepare"
        /\ phase \in PassNames /\ Op[TaskOrder[k]] \in {"Readonly", "Delete", "DeleteHierarchy"}
    BY <1>2 DEF SkipTask, NextTask, Current
  <2>2. Reached(s)
    BY <2>1 DEF Progress
  <2>3. ~AtTurn(s)' /\ (Behind(s)' => Behind(s) \/ TaskOrder[k] = ObjectOf(s))
    BY <1>t, <2>1, BehindNext DEF AtTurn, Behind
  <2>4. TaskOrder[k] = ObjectOf(s) => ValueSet(s) /\ LookupsSet(s)
    BY <2>1 DEF ValueSet, LookupsSet, Updated
  <2>5. QED
    BY <2>1, <2>2, <2>3, <2>4, SetStays DEF Reached, Forwarded, Completed
<1>3. CASE Prepare
  <2>1. /\ UNCHANGED <<link, org, failed>> /\ phase \in PassNames /\ step = "prepare"
    BY <1>3 DEF Prepare
  <2>2. Reached(s)
    BY <2>1 DEF Progress
  <2>3. CASE Abort
    BY <2>3 DEF Abort, Reached, Forwarded, Completed
  <2>4. CASE /\ toInsert' = RecordsToInsert(Current(TaskOrder))
             /\ toUpdate' = [d \in Sources |-> IF d \in RecordsToUpdate(Current(TaskOrder)) THEN link[d] ELSE None]
             /\ UNCHANGED <<phase, k>>
    BY <2>1, <2>2, <2>4, PreparedReached
  <2>5. QED
    BY <1>3, <2>3, <2>4 DEF Prepare
<1>4. CASE InsertRows \/ UpdateRows
  <2>1. failed = {} /\ phase \in PassNames
    BY <1>4 DEF InsertRows, UpdateRows
  <2>2. QED
    BY <1>t, <1>4, <2>1, InsertedReached, UpdatedReached DEF Progress
<1>5. CASE PassDone
  <2>1. failed = {}
    BY <1>5 DEF PassDone
  <2>2. QED
    BY <1>5, <2>1, PassReached DEF Progress
<1>6. CASE DeleteHierarchy \/ Finish
  <2>1. /\ UNCHANGED <<link, org, failed>> /\ phase = "deleteHierarchy"
        /\ phase' \in {"deleteHierarchy", "done", "aborted"}
    BY <1>t, <1>6, NothingGoes DEF DeleteHierarchy, Finish, GoTo, NextTask, Abort
  <2>2. Forwarded(s) /\ Completed(s) /\ Reached(s)
    BY <2>1 DEF Progress, Forwarded, Completed
  <2>3. QED
    BY <2>1, <2>2, SetStays DEF Reached
<1>7. CASE UNCHANGED vars
  BY <1>7, SetStays DEF vars, Progress, Reached, Forwarded, Completed, Behind, AtTurn, UpdateSet
<1>8. QED
  BY <1>1, <1>2, <1>3, <1>4, <1>5, <1>6, <1>7 DEF Next, Step, Terminated

-----------------------------------------------------------------------------
\* A run that ends without rejected rows leaves the org at rest.
LEMMA SettledAtRest ==
  ASSUME OneCopy, LinksLead, Progress, phase = "done", failed = {}
  PROVE  AtRest
<1>1. \A s \in Sources : IF link[s] = None THEN CopyOf(s) = {} ELSE link[s] \in CopyOf(s)
  BY DEF LinksLead
<1> SUFFICES ASSUME NEW s \in Sources
             PROVE  /\ Op[ObjectOf(s)] = "Upsert" /\ s \in Keeps["forwards"] => CopyOf(s) # {}
                    /\ Updated(s) => \A t \in CopyOf(s) :
                         /\ s \in Keeps["forwards"] => org[t].val = Val[s]
                         /\ s \in Keeps["backwards"] =>
                              \A f \in FieldsOf(ObjectOf(s)) \cap Updateable : Leads(s, f, org[t].look[f])
  BY DEF AtRest
<1>2. ValueSet(s) /\ LookupsSet(s)
  BY DEF Progress, Reached, Forwarded, Completed
<1>3. \A t \in CopyOf(s) : t = link[s] /\ link[s] # None
  BY <1>1 DEF OneCopy
<1>4. Op[ObjectOf(s)] = "Upsert" /\ s \in Keeps["forwards"] => CopyOf(s) # {}
  BY <1>1, <1>2 DEF ValueSet
<1>5. ASSUME Updated(s), NEW t \in CopyOf(s), s \in Keeps["forwards"] PROVE org[t].val = Val[s]
  BY <1>2, <1>3, <1>5 DEF ValueSet
<1>6. ASSUME Updated(s), NEW t \in CopyOf(s), s \in Keeps["backwards"],
             NEW f \in FieldsOf(ObjectOf(s)) \cap Updateable
      PROVE  Leads(s, f, org[t].look[f])
  <2>1. org[t].look[f] = LookupValue(s, f) /\ f \in Fields
    BY <1>2, <1>3, <1>6 DEF LookupsSet, FieldsOf
  <2>2. QED
    BY <1>1, <2>1, ValueLeads
<1>7. QED
  BY <1>4, <1>5, <1>6

\* An update planned for an org at rest writes what the row holds.
LEMMA UpdateAtRest ==
  ASSUME OnlyOnce, RestInv, settled, phase \in PassNames, NEW s \in UpdateSet
  PROVE  UpdatedRow(s, org[toUpdate[s]]) = org[toUpdate[s]]
<1> DEFINE t == toUpdate[s]
           r == org[t]
           look == [f \in Fields |-> IF f \in PassFields(ObjectOf(s)) \cap Updateable
                                     THEN LookupValue(s, f) ELSE r.look[f]]
<1>t. /\ TypeOK /\ AtRest /\ OneCopy /\ UpdatesAreLinked
      /\ \A d \in Sources : IF link[d] = None THEN CopyOf(d) = {} ELSE link[d] \in CopyOf(d)
  BY DEF RestInv, CopyInv, RowsInv, LinkInv, LinksLead
<1>1. s \in Sources /\ t = link[s] /\ t # None
  BY <1>t DEF UpdateSet, UpdatesAreLinked
<1>2. t \in CopyOf(s) /\ t \in TargetIds
  BY <1>t, <1>1 DEF CopyOf, TypeOK
<1>3. Updated(s) /\ s \in Keeps[Mode] /\ Mode \in {"forwards", "backwards"}
  BY DEF RestInv, PlansAreAsked, Mode
<1>4. s \in Keeps["backwards"]
  BY <1>3 DEF OnlyOnce
<1>5. r \in Rows
  BY <1>t, <1>2 DEF TypeOK
<1>6. Mode = "forwards" => r.val = Val[s]
  BY <1>t, <1>1, <1>2, <1>3 DEF AtRest
<1>7. \A f \in FieldsOf(ObjectOf(s)) \cap Updateable : r.look[f] = LookupValue(s, f)
  <2>1. \A f \in FieldsOf(ObjectOf(s)) \cap Updateable : Leads(s, f, r.look[f]) /\ f \in Fields
    BY <1>t, <1>1, <1>2, <1>3, <1>4 DEF AtRest, FieldsOf
  <2>2. QED
    BY <1>t, <1>1, <2>1, ValueLeads
<1>8. PassFields(ObjectOf(s)) \subseteq FieldsOf(ObjectOf(s))
  BY DEF PassFields
<1>9. look = r.look
  <2>1. r.look \in [Fields -> OrNull(TargetIds)]
    BY <1>5 DEF Rows
  <2>2. \A f \in Fields : look[f] = r.look[f]
    BY <1>7, <1>8
  <2>3. look = [f \in Fields |-> look[f]] /\ r.look = [f \in Fields |-> r.look[f]]
    BY <2>1
  <2> HIDE DEF look
  <2>4. QED
    BY <2>2, <2>3
<1>10. UpdatedRow(s, r) =
         [key |-> r.key, val |-> IF Mode = "forwards" THEN Val[s] ELSE r.val, look |-> look]
  BY DEF UpdatedRow
<1>11. r = [key |-> r.key, val |-> r.val, look |-> r.look]
  BY <1>5 DEF Rows
<1> HIDE DEF look
<1>12. QED
  BY <1>6, <1>9, <1>10, <1>11

\* No step of a run changes an org at rest.
LEMMA RestIsKept ==
  ASSUME OnlyOnce, RestInv, settled, [Next]_vars
  PROVE  UNCHANGED <<live, org>>
<1> USE DEF client, target, history
<1>t. TypeOK /\ PlansAreCurrent /\ OnlyCopies
  BY DEF OnlyOnce, RestInv, CopyInv, RowsInv, LinkInv
<1>1. CASE InsertRows \/ InsertThrows
  <2>1. phase \in PassNames /\ \E ok \in SUBSET toInsert : \E id \in [ok -> TargetIds \ live] : RowsCreated(ok, id)
    BY <1>1 DEF InsertRows, InsertThrows
  <2>2. PICK ok \in SUBSET toInsert : \E id \in [ok -> TargetIds \ live] : RowsCreated(ok, id)
    BY <2>1
  <2>3. PICK id \in [ok -> TargetIds \ live] : RowsCreated(ok, id)
    BY <2>2
  <2>4. toInsert = {}
    <3> SUFFICES ASSUME NEW s \in toInsert PROVE FALSE
      OBVIOUS
    <3>1. s \in Sources /\ link[s] = None
      BY <1>t, <2>1 DEF TypeOK, PlansAreCurrent
    <3>2. s \in Keeps["forwards"] /\ Op[ObjectOf(s)] = "Upsert"
      BY <2>1 DEF RestInv, PlansAreAsked
    <3>3. CopyOf(s) # {}
      BY <3>1, <3>2 DEF RestInv, AtRest
    <3>4. CopyOf(s) = {}
      BY <2>1, <3>1 DEF RestInv, LinksLead
    <3>5. QED
      BY <3>3, <3>4
  <2>5. QED
    BY <1>t, <2>3, <2>4 DEF RowsCreated, TypeOK
<1>2. CASE UpdateRows \/ UpdateThrows
  <2>1. phase \in PassNames /\ \E ok \in SUBSET UpdateSet : RowsUpdated(ok)
    BY <1>2 DEF UpdateRows, UpdateThrows
  <2>2. PICK ok \in SUBSET UpdateSet : RowsUpdated(ok)
    BY <2>1
  <2>3. \A s \in ok : UpdatedRow(s, org[toUpdate[s]]) = org[toUpdate[s]]
    BY <2>1, UpdateAtRest
  <2>4. \A t \in TargetIds : org'[t] = org[t]
    BY <2>2, <2>3 DEF RowsUpdated
  <2>5. org' = [t \in TargetIds |-> org'[t]] /\ org = [t \in TargetIds |-> org[t]]
    BY <1>t, <2>2 DEF RowsUpdated, TypeOK
  <2>6. QED
    BY <2>2, <2>4, <2>5 DEF RowsUpdated
<1>3. CASE DeleteOld \/ DeleteHierarchy
  BY <1>t, <1>3, NothingGoes
<1>4. CASE \/ DeleteOldDone \/ Retrieve \/ SkipTask \/ Prepare \/ PassDone \/ Finish \/ Rerun
           \/ Terminated \/ UNCHANGED vars
  BY <1>4 DEF DeleteOldDone, Retrieve, SkipTask, Prepare, PassDone, Finish, Rerun,
     Terminated, vars
<1>5. QED
  BY <1>1, <1>2, <1>3, <1>4 DEF Next, Step

\* A run becomes settled only by being started again after a clean end.
LEMMA Settling ==
  ASSUME [Next]_vars, settled', ~settled
  PROVE  phase = "done" /\ failed = {} /\ UNCHANGED <<live, org>>
BY DEF Next, Step, Terminated, DeleteOld, DeleteOldDone, Retrieve, SkipTask, Prepare, InsertRows,
   InsertThrows, UpdateRows, UpdateThrows, PassDone, DeleteHierarchy, Finish, Rerun,
   vars, client, target, history

\* Every step keeps a settled org at rest.
LEMMA StepRest == OnlyOnce /\ RestInv /\ [Next]_vars => RestInv'
<1> SUFFICES ASSUME OnlyOnce, RestInv, [Next]_vars PROVE RestInv'
  OBVIOUS
<1>t. /\ OnlyCopies /\ CopyInv /\ RowsInv /\ OneCopy /\ LinksLead /\ PlansAreAsked
      /\ ValuesKnown /\ Progress
  BY DEF OnlyOnce, RestInv, CopyInv
<1>1. CopyInv' /\ OneCopy' /\ LinksLead' /\ PlansAreAsked' /\ ValuesKnown' /\ Progress'
  BY <1>t, StepKnown, StepOnce, StepLead, StepAsked, StepValues, StepProgress, CopiesAreUnique
<1>2. ASSUME settled' PROVE AtRest'
  <2>1. AtRest /\ UNCHANGED <<live, org>>
    <3>1. CASE settled
      BY <3>1, RestIsKept DEF RestInv
    <3>2. CASE ~settled
      BY <1>t, <1>2, <3>2, Settling, SettledAtRest
    <3>3. QED
      BY <3>1, <3>2
  <2>2. QED
    BY <2>1 DEF AtRest, Leads, CopyOf, Updated
<1>3. QED
  BY <1>1, <1>2 DEF RestInv

\* A job that only copies, with unique external ids and a filter that keeps its records,
\* is idempotent: once a run has ended without rejected rows, starting it again changes
\* no row, however often, and whichever of its calls are refused or throw then.
THEOREM RerunsChangeNothing == ASSUME OnlyOnce PROVE Spec => SettledRerun
<1>1. Init => RestInv
  <2>1. ASSUME Init PROVE OneCopy /\ ~settled
    <3>1. PICK initial \in InitialOrg : live = initial.live /\ org = initial.org
      BY <2>1 DEF Init
    <3>2. QED
      BY <2>1, <3>1, OnlyOnce DEF OnlyOnce, OneCopy, CopyOf, Init
  <2>2. Init => LinksLead /\ PlansAreAsked /\ ValuesKnown /\ Progress
    BY DEF Init, LinksLead, PlansAreAsked, ValuesKnown, Progress, Reached, Forwarded, Completed, PassNames
  <2>3. Init => CopyInv
    BY InitCopy
  <2>4. QED
    BY <2>1, <2>2, <2>3 DEF RestInv
<1>2. RestInv /\ [Next]_vars => [settled => UNCHANGED <<live, org>>]_vars
  BY OnlyOnce, RestIsKept
<1>3. QED
  BY <1>1, <1>2, StepRest, OnlyOnce, PTL DEF Spec, SettledRerun
=============================================================================
