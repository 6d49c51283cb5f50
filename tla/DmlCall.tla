------------------------------- MODULE DmlCall -------------------------------
(***************************************************************************)
(* One DML call of a task: MigrationJobTask._executeCrudAsync and the      *)
(* executeCrudAsync of the API engine it chooses.                          *)
(*                                                                         *)
(* The records are cut into chunks, one for each parallel job; a throttle  *)
(* runs the chunks concurrently and rejects with the first chunk that      *)
(* fails.  A chunk sends its batches one after the other (Bulk API 2.0:    *)
(* the chunk is one job).  Nothing stops the other chunks of a rejected    *)
(* call.  A hard delete that Bulk API 2.0 refuses is repeated as a whole   *)
(* over REST, where it is two requests for a batch: the rows are deleted,  *)
(* and purged from the recycle bin if the connection can do it.            *)
(*                                                                         *)
(* Records are the positions 1..N of options.records.                      *)
(***************************************************************************)
EXTENDS Integers, FiniteSets

CONSTANTS
  N,      \* how many records the call has
  Calls   \* the calls to make: see IsCall

Engines == {"REST", "BulkV1", "BulkV2"}
Deletes == {"Delete", "HardDelete", "DeleteSource", "DeleteHierarchy"}

IsCall(c) ==
  /\ c.operation \in {"Insert", "Update"} \cup Deletes
  /\ c.alwaysUseRest \in BOOLEAN               \* of the script or of the object
  /\ c.alwaysUseBulk \in BOOLEAN
  /\ c.bulkThreshold \in Nat /\ c.bulkApiVersion \in Nat \ {0}
  /\ c.bulkSupported \in BOOLEAN               \* by the object
  /\ c.parallel \in [Engines -> Nat \ {0}]     \* parallelRestJobs and parallelBulkJobs
  /\ c.batchSize \in [Engines -> Nat \ {0}]    \* restApiBatchSize, bulkApiV1BatchSize
  /\ c.allOrNone \in BOOLEAN                   \* script.allOrNone
  /\ c.respectOrder \in BOOLEAN                \* respectOrderByOnDeleteRecords
  /\ c.mayHardDelete \in BOOLEAN               \* whether the org lets the user do it in bulk
  /\ c.canPurge \in BOOLEAN                    \* the connection has emptyRecycleBin

ASSUME CallAssumption == N \in Nat \ {0} /\ \A c \in Calls : IsCall(c)

VARIABLES
  call,      \* the call, fixed
  status,    \* of the call's two attempts: the engine's and the REST fallback
  state,     \* of each attempt's chunks
  batchNo,   \* the batch a chunk works on
  reply,     \* what the org accepted of that batch, once it was carried out
  executed,  \* how often the org carried out the operation on a record
  purged,    \* the records purged from the recycle bin
  verdict    \* the error field of a record: no news, cleared, or set

vars == <<call, status, state, batchNo, reply, executed, purged, verdict>>

Records == 1..N
Attempts == {1, 2}
\* States of a chunk: waiting; sent: the org has not answered; executed: it has carried
\* out the batch, the answer is under way; purging and purged: the same for the second
\* request of a hard delete; lost and lostPurge: the client gave up on a request the org
\* may still run; failed; done.

-----------------------------------------------------------------------------
(***************************************************************************)
(* _resolveDmlExecutionSettings and the cutting into chunks and batches.   *)
(***************************************************************************)
OneByOne == call.respectOrder /\ call.operation \in Deletes
AlwaysUseRest == call.alwaysUseRest \/ OneByOne
BulkThreshold == IF ~AlwaysUseRest /\ call.alwaysUseBulk THEN 0 ELSE call.bulkThreshold

\* ApiEngineFactory.resolveEngineType: a hard delete goes to the Bulk API however few
\* its records; the fallback of a refused one always uses REST.
UseBulk(a) ==
  /\ a = 1 /\ ~AlwaysUseRest /\ call.bulkSupported
  /\ call.operation = "HardDelete" \/ N >= BulkThreshold
EngineOf(a) ==
  IF ~UseBulk(a) THEN "REST" ELSE IF call.bulkApiVersion >= 2 THEN "BulkV2" ELSE "BulkV1"
Purges(a) == call.operation = "HardDelete" /\ EngineOf(a) = "REST" /\ call.canPurge

Ceil(a, b) == (a + b - 1) \div b
ChunkSize(a) == Ceil(N, call.parallel[EngineOf(a)])
Chunks(a) == 1 .. Ceil(N, ChunkSize(a))
BatchLength(a) ==
  CASE OneByOne -> 1
    [] EngineOf(a) = "BulkV2" -> ChunkSize(a)
    [] OTHER -> call.batchSize[EngineOf(a)]


\* Common.chunkArray twice: the records in batch b of chunk c.
InBatch(a, c, b) ==
  {i \in Records :
     /\ (i - 1) \div ChunkSize(a) + 1 = c
     /\ ((i - 1) % ChunkSize(a)) \div BatchLength(a) + 1 = b}
Batch(a, c) == InBatch(a, c, batchNo[a][c])
LastBatch(a, c) == InBatch(a, c, batchNo[a][c] + 1) = {}

Pending == {"sent", "executed", "purging", "purged"}
InFlight(a) == {c \in Chunks(a) : state[a][c] \in Pending}
Put(f, a, c, v) == [f EXCEPT ![a][c] = v]

-----------------------------------------------------------------------------
Init ==
  /\ call \in Calls
  /\ status = [a \in Attempts |-> IF a = 1 THEN "running" ELSE "idle"]
  /\ state = [a \in Attempts |-> [c \in Records |-> "waiting"]]
  /\ batchNo = [a \in Attempts |-> [c \in Records |-> 1]]
  /\ reply = [a \in Attempts |-> [c \in Records |-> {}]]
  /\ executed = [i \in Records |-> 0] /\ purged = {}
  /\ verdict = [i \in Records |-> "none"]

\* The throttle starts chunks in order, as long as none of them failed.
StartChunk(a, c) ==
  /\ status[a] = "running"
  /\ state[a][c] = "waiting" /\ \A d \in Chunks(a) : d < c => state[a][d] # "waiting"
  /\ Cardinality(InFlight(a)) < call.parallel[EngineOf(a)]
  /\ state' = Put(state, a, c, "sent")
  /\ UNCHANGED <<call, status, batchNo, reply, executed, purged, verdict>>

Refused(a) == call.operation = "HardDelete" /\ EngineOf(a) # "REST" /\ ~call.mayHardDelete

\* What the org may accept of a batch: a deleted row cannot be deleted again, and
\* a REST call with allOrNone is carried out as a whole or not at all.
Acceptable(a, c) ==
  LET possible == {i \in Batch(a, c) : call.operation \in Deletes => executed[i] = 0}
  IN  IF call.allOrNone /\ EngineOf(a) = "REST"
      THEN {S \in {{}, Batch(a, c)} : S \subseteq possible} ELSE SUBSET possible
CarriedOut(accepted) ==
  executed' = [i \in Records |-> IF i \in accepted THEN executed[i] + 1 ELSE executed[i]]

Execute(a, c) ==
  /\ state[a][c] = "sent" /\ ~Refused(a)
  /\ \E accepted \in Acceptable(a, c) :
       CarriedOut(accepted) /\ reply' = Put(reply, a, c, accepted)
  /\ state' = Put(state, a, c, "executed")
  /\ UNCHANGED <<call, status, batchNo, purged, verdict>>

\* The org runs a batch nobody waits for any more.
LateExecute(a, c) ==
  /\ state[a][c] = "lost"
  /\ \E accepted \in Acceptable(a, c) : CarriedOut(accepted)
  /\ state' = Put(state, a, c, "failed")
  /\ UNCHANGED <<call, status, batchNo, reply, purged, verdict>>

\* The answer to the delete arrives and the batch is purged from the recycle bin, row
\* by row; the purge's results replace those of the delete.
RequestPurge(a, c) ==
  /\ state[a][c] = "executed" /\ Purges(a)
  /\ state' = Put(state, a, c, "purging")
  /\ UNCHANGED <<call, status, batchNo, reply, executed, purged, verdict>>

InBin(a, c) == {i \in Batch(a, c) : executed[i] > 0}
EmptyRecycleBin(a, c) ==
  /\ state[a][c] = "purging"
  /\ \E gone \in SUBSET InBin(a, c) :
       purged' = purged \cup gone /\ reply' = Put(reply, a, c, gone)
  /\ state' = Put(state, a, c, "purged")
  /\ UNCHANGED <<call, status, batchNo, executed, verdict>>
LatePurge(a, c) ==
  /\ state[a][c] = "lostPurge"
  /\ \E gone \in SUBSET InBin(a, c) : purged' = purged \cup gone
  /\ state' = Put(state, a, c, "failed")
  /\ UNCHANGED <<call, status, batchNo, reply, executed, verdict>>

\* Mutant: the call waits for as many chunks as it may run in parallel.
AllDone_Parallel(a, s) == \A c \in 1 .. call.parallel[EngineOf(a)] : s[a][c] = "done"
AllDone(a, s) == \A c \in Chunks(a) : s[a][c] = "done"

\* Mutant: a batch with a success counts as successful.
Verdicts_ByBatch(a, c) ==
  [i \in Records |-> IF i \notin Batch(a, c) THEN verdict[i]
                     ELSE IF reply[a][c] # {} THEN "ok" ELSE "error"]
\* _applyCrudResults, _applyBulkV2Results: a row deleted but not purged is an error too.
Verdicts(a, c) ==
  [i \in Records |-> IF i \notin Batch(a, c) THEN verdict[i]
                     ELSE IF i \in reply[a][c] THEN "ok" ELSE "error"]

\* The results of a batch arrive: the chunk sends its next batch or ends, and the
\* call returns with its last chunk.
Reply(a, c) ==
  /\ state[a][c] = IF Purges(a) THEN "purged" ELSE "executed"
  /\ verdict' = Verdicts(a, c)
  /\ IF LastBatch(a, c)
     THEN state' = Put(state, a, c, "done") /\ UNCHANGED batchNo
     ELSE state' = Put(state, a, c, "sent") /\ batchNo' = Put(batchNo, a, c, batchNo[a][c] + 1)
  /\ status' = [status EXCEPT ![a] = IF AllDone(a, state') THEN "returned" ELSE @]
  /\ UNCHANGED <<call, reply, executed, purged>>

\* The first failure rejects the call.
Rejected(a) == [status EXCEPT ![a] = IF @ = "running" THEN "thrown" ELSE @]

\* A request fails, its answer is lost, or waiting for it takes too long.
GiveUp(a, c) ==
  /\ state[a][c] \in Pending /\ ~Refused(a)
  /\ state' = Put(state, a, c, CASE state[a][c] = "sent" -> "lost"
                                 [] state[a][c] = "purging" -> "lostPurge"
                                 [] OTHER -> "failed")
  /\ status' = Rejected(a)
  /\ UNCHANGED <<call, batchNo, reply, executed, purged, verdict>>

\* The org refuses the hard delete before it looks at a record.  Only the Bulk API
\* 2.0 engine passes the org's message on; it starts the second attempt.
Refuse(a, c) ==
  /\ state[a][c] = "sent" /\ Refused(a)
  /\ state' = Put(state, a, c, "failed")
  /\ status' = IF status[a] = "running" /\ EngineOf(a) = "BulkV2"
               THEN [status EXCEPT ![a] = "thrown", ![2] = "running"] ELSE Rejected(a)
  /\ UNCHANGED <<call, batchNo, reply, executed, purged, verdict>>

Settled == \A a \in Attempts : status[a] # "running"

Step ==
  \E a \in Attempts : \E c \in Chunks(a) :
    \/ StartChunk(a, c) \/ Execute(a, c) \/ Reply(a, c) \/ GiveUp(a, c) \/ Refuse(a, c)
    \/ RequestPurge(a, c) \/ EmptyRecycleBin(a, c) \/ LateExecute(a, c) \/ LatePurge(a, c)
Next == Step

Spec == Init /\ [][Next]_vars

\* Every request of the client is answered, fails or runs into a timeout.
FairSpec == Spec /\ WF_vars(Step)

-----------------------------------------------------------------------------
ChunkStates ==
  {"waiting", "sent", "executed", "purging", "purged", "lost", "lostPurge", "failed", "done"}
TypeOK ==
  /\ call \in Calls
  /\ status \in [Attempts -> {"idle", "running", "returned", "thrown"}]
  /\ state \in [Attempts -> [Records -> ChunkStates]]
  /\ batchNo \in [Attempts -> [Records -> Nat \ {0}]]
  /\ reply \in [Attempts -> [Records -> SUBSET Records]]
  /\ executed \in [Records -> Nat] /\ purged \in SUBSET Records
  /\ verdict \in [Records -> {"none", "ok", "error"}]

AtMostOnce == \A i \in Records : executed[i] <= 1

\* A hard delete that purges has taken a record once it is out of the recycle bin.
Attempt == IF status[2] # "idle" THEN 2 ELSE 1
Taken == IF Purges(Attempt) THEN purged ELSE {i \in Records : executed[i] > 0}
Outcome == status[Attempt]
Contract == INSTANCE DmlContract WITH taken <- Taken, outcome <- Outcome

\* The call keeps the contract its caller relies on: verdicts tell what the org
\* took, a returned call is complete, and it leaves the org alone afterwards; and no
\* record is inserted, updated or deleted twice, whatever is answered late, given up
\* or repeated over REST.
FulfilsContract == Contract!ContractSpec /\ []AtMostOnce

\* The call returns or throws.
CallSettles == <>Settled
=============================================================================
