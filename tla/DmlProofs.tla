----------------------------- MODULE DmlProofs -----------------------------
(***************************************************************************)
(* A DML call keeps the contract of its caller for every engine, number of *)
(* records, chunks and batches; and so does a Bulk API 1.0 job, whose      *)
(* batches are settled by three activities, for any number of batches.     *)
(***************************************************************************)
EXTENDS DmlCall, BulkV1Job, TLAPS

\* The attempt that can change the org: the second one iff the first is refused.
Main == IF Refused(1) THEN 2 ELSE 1

\* Where a record is sent: its chunk, and the batch of that chunk.
ChunkOf(a, i) == ((i - 1) \div ChunkSize(a)) + 1
BatchOf(a, i) == (((i - 1) % ChunkSize(a)) \div BatchLength(a)) + 1

StateOf(i) == state[Main][ChunkOf(Main, i)]
NoOf(i) == batchNo[Main][ChunkOf(Main, i)]
AtBatch(i) == BatchOf(Main, i) = NoOf(i)

\* A record whose batch the org has not carried out, one whose results have arrived,
\* and one the call is told about next.
Ahead(i) == BatchOf(Main, i) > NoOf(i) \/ (AtBatch(i) /\ StateOf(i) \in {"waiting", "sent", "lost"})
Told(i) == BatchOf(Main, i) < NoOf(i) \/ (AtBatch(i) /\ StateOf(i) = "done")
Answered(i) == AtBatch(i) /\ StateOf(i) = IF Purges(Main) THEN "purged" ELSE "executed"
Took(i) == IF Purges(Main) THEN i \in purged ELSE executed[i] > 0

RecordOK(i) ==
  /\ Ahead(i) => executed[i] = 0
  /\ Ahead(i) \/ (AtBatch(i) /\ StateOf(i) \in {"executed", "purging"}) => i \notin purged
  /\ executed[i] <= 1
  /\ Told(i) <=> verdict[i] # "none"
  /\ Told(i) => (verdict[i] = "ok" <=> Took(i))
  /\ Answered(i) => (i \in reply[Main][ChunkOf(Main, i)] <=> Took(i))
RecordInv == \A i \in Records : RecordOK(i)

ChunkInv ==
  \A c \in Records :
    /\ state[Main][c] = "waiting" => batchNo[Main][c] = 1
    /\ state[Main][c] = "done" =>
         \A i \in Records : ChunkOf(Main, i) = c => BatchOf(Main, i) <= batchNo[Main][c]
    /\ state[Main][c] \in {"purging", "purged", "lostPurge"} => Purges(Main)

CallInv ==
  /\ status[1] # "idle"
  /\ status[2] # "idle" => Refused(1) /\ status[1] = "thrown"
  /\ status[2] = "idle" => \A c \in Records : state[2][c] = "waiting"
  /\ Refused(1) => \A c \in Records : state[1][c] \in {"waiting", "sent", "failed"}
  /\ \A a \in Attempts :
       /\ status[a] = "returned" => AllDone(a, state)
       /\ status[a] = "thrown" => \E c \in Chunks(a) : state[a][c] \in {"lost", "lostPurge", "failed"}

DmlInv == TypeOK /\ CallInv /\ ChunkInv /\ RecordInv

-----------------------------------------------------------------------------
\* Division with remainder, by which the records are cut into chunks and batches.
LEMMA Division ==
  ASSUME NEW x \in Nat, NEW d \in Nat \ {0}
  PROVE  /\ x \div d \in Nat /\ x % d \in Nat
         /\ x = d * (x \div d) + (x % d) /\ x % d < d
  OBVIOUS

\* Quotient and remainder are the only ones.
LEMMA Unique ==
  ASSUME NEW d \in Nat \ {0}, NEW q \in Nat, NEW r \in Nat, r < d
  PROVE  (d * q + r) \div d = q /\ (d * q + r) % d = r
  OBVIOUS

\* Division by one number keeps the order.
LEMMA Mono ==
  ASSUME NEW x \in Nat, NEW y \in Nat, NEW d \in Nat \ {0}, x <= y
  PROVE  x \div d <= y \div d /\ x \div d <= x
  OBVIOUS

\* Common.chunkArray: every element lands in one of the slices.
LEMMA Slices ==
  ASSUME NEW n \in Nat \ {0}, NEW d \in Nat \ {0}, NEW x \in Nat, x < n
  PROVE  (x \div d) + 1 \in 1 .. ((n + d - 1) \div d)
<1>1. x = d * (x \div d) + (x % d) /\ x \div d \in Nat /\ x % d \in Nat
  BY Division
<1>2. d * (x \div d) + d <= n + d - 1
  BY <1>1
<1>3. d * ((x \div d) + 1) = d * (x \div d) + d
  BY <1>1
<1>4. (d * ((x \div d) + 1) + 0) \div d = (x \div d) + 1
  BY <1>1, Unique
<1>5. (x \div d) + 1 <= (n + d - 1) \div d
  BY <1>1, <1>2, <1>3, <1>4, Mono
<1>6. (n + d - 1) \div d \in Nat
 BY Division
<1> QED BY <1>1, <1>5, <1>6
\* There are at most as many slices as elements, and at least one.
LEMMA Few ==
  ASSUME NEW n \in Nat \ {0}, NEW d \in Nat \ {0}
  PROVE  (n + d - 1) \div d \in 1..n
<1>1. (n + d - 1) \div d \in Nat
 BY Division
<1>2. (n + d - 1) \div d <= n
 <2> DEFINE q == (n + d - 1) \div d
 <2>1. d * q <= n + d - 1 
   BY Division
 <2>2. SUFFICES ASSUME q >= n + 1 PROVE FALSE
   BY <1>1
 <2>3. d * q >= d * (n+1)
   BY <2>2, <1>1
 <2> QED BY <2>1, <2>3
<1>3. (n + d - 1) \div d >= 1
  BY Slices
<1> QED BY <1>1, <1>2, <1>3
\* Chunks and batches have a size, and the second attempt goes over REST and is not refused.
LEMMA Sizes ==
  ASSUME TypeOK, NEW a \in Attempts
  PROVE  /\ EngineOf(a) \in Engines /\ EngineOf(2) = "REST" /\ ~Refused(2)
         /\ ChunkSize(a) \in Nat \ {0} /\ BatchLength(a) \in Nat \ {0}
<1>1. IsCall(call) /\ N \in Nat \ {0}
  BY CallAssumption DEF TypeOK
<1>2. EngineOf(a) \in Engines /\ EngineOf(2) = "REST" /\ ~Refused(2)
  BY DEF EngineOf, UseBulk, Engines, Refused
<1>3. call.parallel[EngineOf(a)] \in Nat \ {0} /\ call.batchSize[EngineOf(a)] \in Nat \ {0}
  BY <1>1, <1>2 DEF IsCall
<1>4. ChunkSize(a) \in Nat \ {0}
  <2> DEFINE p == call.parallel[EngineOf(a)]
  <2>1. p \in Nat \ {0} /\ ChunkSize(a) = (N + p - 1) \div p
    BY <1>3 DEF ChunkSize, Ceil
  <2> HIDE DEF p
  <2>2. (N + p - 1) \div p \in 1..N
    BY <1>1, <2>1, Few
  <2>3. 1..N \subseteq Nat \ {0}
    BY <1>1
  <2> QED
    BY <2>1, <2>2, <2>3, Zenon
<1>5. BatchLength(a) \in Nat \ {0}
  BY <1>3, <1>4 DEF BatchLength
<1> QED
  BY <1>2, <1>4, <1>5

\* Every record is in exactly one batch of one chunk.
LEMMA Slicing ==
  ASSUME TypeOK, NEW a \in Attempts
  PROVE  /\ Chunks(a) \subseteq Records /\ 1 \in Chunks(a)
         /\ \A i \in Records : ChunkOf(a, i) \in Chunks(a) /\ BatchOf(a, i) \in Nat \ {0}
         /\ \A c, b : InBatch(a, c, b) = {i \in Records : ChunkOf(a, i) = c /\ BatchOf(a, i) = b}
<1> USE Sizes, CallAssumption
<1>1. Chunks(a) = 1 .. ((N + ChunkSize(a) - 1) \div ChunkSize(a))
  BY DEF Chunks, Ceil
<1>2. Chunks(a) \subseteq Records /\ 1 \in Chunks(a)
  BY <1>1, Few DEF Records
<1>3. ASSUME NEW i \in Records
      PROVE  ChunkOf(a, i) \in Chunks(a) /\ BatchOf(a, i) \in Nat \ {0}
  <2>1. i - 1 \in Nat /\ i - 1 < N
    BY DEF Records
  <2>2. (i - 1) % ChunkSize(a) \in Nat
    BY <2>1, Division
  <2>3. ((i - 1) % ChunkSize(a)) \div BatchLength(a) \in Nat
    BY <2>2, Division
  <2>4. ((i - 1) \div ChunkSize(a)) + 1 \in 1 .. ((N + ChunkSize(a) - 1) \div ChunkSize(a))
    BY <2>1, Slices
  <2> QED
    BY <1>1, <2>3, <2>4 DEF ChunkOf, BatchOf
<1>4. \A c, b : InBatch(a, c, b) = {i \in Records : ChunkOf(a, i) = c /\ BatchOf(a, i) = b}
  BY DEF InBatch, ChunkOf, BatchOf
<1> QED
  BY <1>2, <1>3, <1>4

\* No record of a chunk comes after a batch that is not followed by another: batches
\* leave no gaps.
LEMMA LastBatchEnds ==
  ASSUME TypeOK, NEW a \in Attempts, NEW c \in Records, LastBatch(a, c), NEW i \in Records,
         ChunkOf(a, i) = c
  PROVE  BatchOf(a, i) <= batchNo[a][c]
<1> SUFFICES ASSUME BatchOf(a, i) > batchNo[a][c] PROVE FALSE
  BY Slicing DEF TypeOK
<1>1. ChunkSize(a) \in Nat \ {0} /\ BatchLength(a) \in Nat \ {0} /\ batchNo[a][c] \in Nat
  BY Sizes DEF TypeOK
<1>2. PICK x \in Nat : x = i - 1 /\ x < N
  BY CallAssumption DEF Records
<1>3. PICK s \in Nat \ {0}, l \in Nat \ {0}, b \in Nat :
        s = ChunkSize(a) /\ l = BatchLength(a) /\ b = batchNo[a][c]
  BY <1>1
<1>4. (x % s) \div l >= b
  <2>1. (x % s) \div l \in Nat
    BY Division
  <2> QED
    BY <1>2, <1>3, <2>1 DEF BatchOf
<1> DEFINE y == s * (x \div s) + l * b
<1>5. y \in Nat /\ y <= x /\ y \div s = x \div s /\ (y % s) \div l = b
  <2>1. x \div s \in Nat /\ x % s \in Nat /\ x % s < s /\ x = s * (x \div s) + (x % s)
    BY Division
  <2>2. (x % s) \div l \in Nat /\ l * ((x % s) \div l) <= x % s
    BY <2>1, Division
  <2>3. l * b <= l * ((x % s) \div l)
    BY <1>4, <2>2
  <2>4. l * b \in Nat /\ l * b <= x % s /\ l * b < s
    BY <2>1, <2>2, <2>3
  <2>5. y \in Nat /\ y <= x
    BY <2>1, <2>4
  <2>6. y \div s = x \div s /\ y % s = l * b
    BY <2>1, <2>4, Unique
  <2>7. (l * b + 0) \div l = b
    BY Unique
  <2>8. (y % s) \div l = b
    BY <2>4, <2>6, <2>7
  <2> QED
    BY <2>5, <2>6, <2>8
<1> HIDE DEF y
<1>6. y + 1 \in Records /\ (y + 1) - 1 = y
  BY <1>2, <1>5, CallAssumption DEF Records
<1>8. ChunkOf(a, y + 1) = c /\ BatchOf(a, y + 1) = b + 1
  BY <1>2, <1>3, <1>5, <1>6 DEF ChunkOf, BatchOf
<1>7. y + 1 \in InBatch(a, c, b + 1)
  BY <1>6, <1>8, Slicing
<1> QED
  BY <1>3, <1>7 DEF LastBatch

-----------------------------------------------------------------------------
\* The engine, the chunks and the batches only depend on the call, which never changes.
LEMMA Settings ==
  ASSUME call' = call, NEW a \in Attempts
  PROVE  /\ Main' = Main /\ EngineOf(a)' = EngineOf(a) /\ Purges(a)' = Purges(a)
         /\ Refused(a)' = Refused(a) /\ Chunks(a)' = Chunks(a)
         /\ \A i \in Records : ChunkOf(a, i)' = ChunkOf(a, i) /\ BatchOf(a, i)' = BatchOf(a, i)
         /\ \A c, b : InBatch(a, c, b)' = InBatch(a, c, b)
<1>1. EngineOf(a)' = EngineOf(a) /\ EngineOf(1)' = EngineOf(1)
  BY DEF EngineOf, UseBulk, BulkThreshold, AlwaysUseRest, OneByOne
<1>2. ChunkSize(a)' = ChunkSize(a)
  BY <1>1 DEF ChunkSize, Ceil
<1>3. BatchLength(a)' = BatchLength(a)
  BY <1>1, <1>2 DEF BatchLength, OneByOne
<1>4. Refused(a)' = Refused(a) /\ Main' = Main /\ Purges(a)' = Purges(a)
  BY <1>1 DEF Refused, Main, Purges
<1>5. Chunks(a)' = Chunks(a)
  BY <1>2 DEF Chunks, Ceil
<1>6. \A i \in Records : ChunkOf(a, i)' = ChunkOf(a, i) /\ BatchOf(a, i)' = BatchOf(a, i)
  BY <1>2, <1>3 DEF ChunkOf, BatchOf
<1>7. \A c, b : InBatch(a, c, b)' = InBatch(a, c, b)
  BY <1>2, <1>3 DEF InBatch
<1> QED
  BY <1>1, <1>4, <1>5, <1>6, <1>7

\* Only an attempt that is not refused changes anything but its own chunks' states.
Effect(a, c) ==
  \/ Execute(a, c) \/ RequestPurge(a, c) \/ EmptyRecycleBin(a, c) \/ LateExecute(a, c)
  \/ LatePurge(a, c) \/ Reply(a, c) \/ GiveUp(a, c)

\* Such a step is one of the main attempt.
LEMMA EffectOfMain ==
  ASSUME TypeOK, CallInv, NEW a \in Attempts, NEW c \in Chunks(a), Effect(a, c)
  PROVE  a = Main /\ c \in Records /\ call' = call
<1>1. c \in Records
  BY Slicing
<1>2. state[a][c] \notin {"waiting", "failed"} /\ (state[a][c] = "sent" => ~Refused(a)) /\ call' = call
  BY DEF Effect, Execute, RequestPurge, EmptyRecycleBin, LateExecute, LatePurge, Reply, GiveUp, Pending
<1>3. CASE a = 1
  BY <1>1, <1>2, <1>3 DEF CallInv, Main
<1>4. CASE a = 2
  BY <1>1, <1>2, <1>4 DEF CallInv, Main
<1> QED
  BY <1>1, <1>2, <1>3, <1>4 DEF Attempts

\* A record whose chunk does not move keeps its part of the invariant.
LEMMA Elsewhere ==
  ASSUME TypeOK, NEW i \in Records, RecordOK(i), call' = call,
         state'[Main][ChunkOf(Main, i)] = StateOf(i), batchNo'[Main][ChunkOf(Main, i)] = NoOf(i),
         reply'[Main][ChunkOf(Main, i)] = reply[Main][ChunkOf(Main, i)],
         executed'[i] = executed[i], i \in purged' <=> i \in purged, verdict'[i] = verdict[i]
  PROVE  RecordOK(i)'
  BY Settings DEF RecordOK, Main, Attempts, Ahead, Told, Answered, Took, AtBatch, StateOf, NoOf

\* The last reply of an attempt finds it running: a chunk that failed is never done.
LEMMA ReplyOfRunning ==
  ASSUME TypeOK, CallInv, NEW a \in Attempts, NEW c \in Chunks(a), Reply(a, c), AllDone(a, state')
  PROVE  status[a] # "thrown"
<1>1. c \in Records /\ Chunks(a) \subseteq Records /\ state[a][c] \in {"executed", "purged"}
  BY Slicing DEF Reply
<1>2. PICK v \in {"done", "sent"} : state' = [state EXCEPT ![a][c] = v]
  BY DEF Reply, Put
<1>3. \A d \in Records : d # c => state'[a][d] = state[a][d]
  BY <1>1, <1>2 DEF TypeOK
<1> QED
  BY <1>1, <1>3 DEF CallInv, AllDone

\* A step moves one chunk; of a reply, only the last one of an attempt ends its call.
LEMMA StepCall == TypeOK /\ CallInv /\ [Next]_vars => CallInv'
<1> SUFFICES ASSUME TypeOK, CallInv, [Next]_vars PROVE CallInv'
  OBVIOUS
<1> USE DEF Put, Attempts
<1>1. ASSUME NEW a \in Attempts, NEW c \in Chunks(a), StartChunk(a, c) PROVE CallInv'
  BY <1>1, Slicing, Settings DEF StartChunk, TypeOK, CallInv, AllDone
<1>2. ASSUME NEW a \in Attempts, NEW c \in Chunks(a),
             Execute(a, c) \/ RequestPurge(a, c) \/ EmptyRecycleBin(a, c)
             \/ LateExecute(a, c) \/ LatePurge(a, c)
      PROVE  CallInv'
  <2>1. PICK v \in ChunkStates \ {"done", "waiting"} :
          /\ state' = [state EXCEPT ![a][c] = v] /\ UNCHANGED <<call, status>>
          /\ state[a][c] \in {"lost", "lostPurge"} => v = "failed"
    BY <1>2 DEF Execute, RequestPurge, EmptyRecycleBin, LateExecute, LatePurge, ChunkStates
  <2>2. a = Main /\ c \in Records /\ state[a][c] \notin {"done", "failed", "waiting"}
    BY <1>2, EffectOfMain
       DEF Effect, Execute, RequestPurge, EmptyRecycleBin, LateExecute, LatePurge
  <2> QED
    BY <2>1, <2>2, Slicing, Settings DEF TypeOK, CallInv, AllDone, Main
<1>3. ASSUME NEW a \in Attempts, NEW c \in Chunks(a), Reply(a, c) PROVE CallInv'
  <2>1. PICK v \in {"done", "sent"} : state' = [state EXCEPT ![a][c] = v]
    BY <1>3 DEF Reply
  <2>2. /\ a = Main /\ c \in Records /\ call' = call /\ state[a][c] \in {"executed", "purged"}
        /\ status' = [status EXCEPT ![a] = IF AllDone(a, state') THEN "returned" ELSE @]
    BY <1>3, EffectOfMain DEF Effect, Reply
  <2>3. AllDone(a, state') => status[a] # "thrown"
    BY <1>3, ReplyOfRunning
  <2>4. AllDone(a, state)' <=> AllDone(a, state')
    BY <2>2, Settings DEF AllDone
  <2>5. status[a] # "idle"
    BY <2>2 DEF CallInv
  <2> QED
    BY <2>1, <2>2, <2>3, <2>4, <2>5, Slicing, Settings DEF TypeOK, CallInv, AllDone, Main
<1>4. ASSUME NEW a \in Attempts, NEW c \in Chunks(a), GiveUp(a, c) PROVE CallInv'
  BY <1>4, Slicing, Settings, EffectOfMain
     DEF Effect, GiveUp, Pending, Rejected, TypeOK, CallInv, AllDone, Main
<1>5. ASSUME NEW a \in Attempts, NEW c \in Chunks(a), Refuse(a, c) PROVE CallInv'
  BY <1>5, Slicing, Settings, Sizes DEF Refuse, Rejected, TypeOK, CallInv, AllDone
<1>6. CASE UNCHANGED vars
  BY <1>6, Settings DEF vars, CallInv, AllDone
<1> QED
  BY <1>1, <1>2, <1>3, <1>4, <1>5, <1>6 DEF Next, Step

\* Every step keeps the types of the variables.
LEMMA StepType == TypeOK /\ [Next]_vars => TypeOK'
<1> SUFFICES ASSUME TypeOK, [Next]_vars PROVE TypeOK'
  OBVIOUS
<1>1. ASSUME NEW a \in Attempts, NEW c \in Chunks(a), StartChunk(a, c) PROVE TypeOK'
  BY <1>1, Slicing DEF StartChunk, TypeOK, Put, ChunkStates
<1>2. ASSUME NEW a \in Attempts, NEW c \in Chunks(a), Execute(a, c) PROVE TypeOK'
  BY <1>2, Slicing DEF Execute, TypeOK, Put, ChunkStates, CarriedOut, Acceptable, Batch, InBatch
<1>3. ASSUME NEW a \in Attempts, NEW c \in Chunks(a), LateExecute(a, c) PROVE TypeOK'
  BY <1>3, Slicing DEF LateExecute, TypeOK, Put, ChunkStates, CarriedOut
<1>4. ASSUME NEW a \in Attempts, NEW c \in Chunks(a), RequestPurge(a, c) PROVE TypeOK'
  BY <1>4, Slicing DEF RequestPurge, TypeOK, Put, ChunkStates
<1>5. ASSUME NEW a \in Attempts, NEW c \in Chunks(a), EmptyRecycleBin(a, c) PROVE TypeOK'
  BY <1>5, Slicing DEF EmptyRecycleBin, TypeOK, Put, ChunkStates, InBin, Batch, InBatch
<1>6. ASSUME NEW a \in Attempts, NEW c \in Chunks(a), LatePurge(a, c) PROVE TypeOK'
  BY <1>6, Slicing DEF LatePurge, TypeOK, Put, ChunkStates, InBin, Batch, InBatch
<1>7. ASSUME NEW a \in Attempts, NEW c \in Chunks(a), Reply(a, c) PROVE TypeOK'
  <2>1. PICK v \in ChunkStates : state' = Put(state, a, c, v)
    BY <1>7 DEF Reply, ChunkStates
  <2>2. batchNo' = batchNo \/ batchNo' = Put(batchNo, a, c, batchNo[a][c] + 1)
    BY <1>7 DEF Reply
  <2>3. state' \in [Attempts -> [Records -> ChunkStates]]
    BY <2>1, Slicing DEF TypeOK, Put
  <2>4. batchNo' \in [Attempts -> [Records -> Nat \ {0}]]
    <3>1. c \in Records /\ batchNo[a][c] + 1 \in Nat \ {0}
      BY Slicing DEF TypeOK
    <3> QED
      BY <2>2, <3>1 DEF TypeOK, Put
  <2>5. verdict' \in [Records -> {"none", "ok", "error"}]
    BY <1>7 DEF Reply, Verdicts, TypeOK
  <2>6. status' \in [Attempts -> {"idle", "running", "returned", "thrown"}]
    BY <1>7 DEF Reply, TypeOK
  <2> QED
    BY <1>7, <2>3, <2>4, <2>5, <2>6 DEF Reply, TypeOK
<1>8. ASSUME NEW a \in Attempts, NEW c \in Chunks(a), GiveUp(a, c) PROVE TypeOK'
  BY <1>8, Slicing DEF GiveUp, TypeOK, Put, ChunkStates, Rejected
<1>9. ASSUME NEW a \in Attempts, NEW c \in Chunks(a), Refuse(a, c) PROVE TypeOK'
  BY <1>9, Slicing DEF Refuse, TypeOK, Put, ChunkStates, Rejected, Attempts
<1>10. CASE UNCHANGED vars
  BY <1>10 DEF vars, TypeOK
<1> QED
  BY <1>1, <1>2, <1>3, <1>4, <1>5, <1>6, <1>7, <1>8, <1>9, <1>10 DEF Next, Step

\* What a chunk's state says of its batches.
LEMMA StepChunk == TypeOK /\ CallInv /\ ChunkInv /\ [Next]_vars => ChunkInv'
<1> SUFFICES ASSUME TypeOK, CallInv, ChunkInv, [Next]_vars PROVE ChunkInv'
  OBVIOUS
<1> USE DEF Put
<1>1. Main \in Attempts
  BY DEF Main, Attempts
<1>2. ASSUME NEW a \in Attempts, NEW c \in Chunks(a), StartChunk(a, c) \/ Refuse(a, c)
      PROVE  ChunkInv'
  <2>1. PICK v \in {"sent", "failed"} :
          state' = [state EXCEPT ![a][c] = v] /\ UNCHANGED <<call, batchNo>>
    BY <1>2 DEF StartChunk, Refuse
  <2>2. c \in Records
    BY Slicing
  <2> QED
    BY <1>1, <2>1, <2>2, Settings DEF TypeOK, ChunkInv
<1>3. ASSUME NEW a \in Attempts, NEW c \in Chunks(a),
             Execute(a, c) \/ RequestPurge(a, c) \/ EmptyRecycleBin(a, c)
             \/ LateExecute(a, c) \/ LatePurge(a, c) \/ GiveUp(a, c)
      PROVE  ChunkInv'
  <2>1. PICK v \in ChunkStates \ {"done", "waiting"} :
          /\ state' = [state EXCEPT ![a][c] = v] /\ UNCHANGED <<call, batchNo>>
          /\ v \in {"purging", "purged", "lostPurge"} =>
               Purges(a) \/ state[a][c] \in {"purging", "purged", "lostPurge"}
    BY <1>3 DEF Execute, RequestPurge, EmptyRecycleBin, LateExecute, LatePurge, GiveUp, Pending,
         ChunkStates
  <2>2. a = Main /\ c \in Records
    BY <1>3, EffectOfMain DEF Effect
  <2> QED
    BY <1>1, <2>1, <2>2, Settings DEF TypeOK, ChunkInv
<1>4. ASSUME NEW a \in Attempts, NEW c \in Chunks(a), Reply(a, c) PROVE ChunkInv'
  <2>1. a = Main /\ c \in Records /\ call' = call
    BY <1>4, EffectOfMain DEF Effect
  <2>2. CASE LastBatch(a, c)
    <3>1. \A i \in Records : ChunkOf(a, i) = c => BatchOf(a, i) <= batchNo[a][c]
      BY <2>1, <2>2, LastBatchEnds
    <3>2. state' = [state EXCEPT ![a][c] = "done"] /\ batchNo' = batchNo
      BY <1>4, <2>2 DEF Reply
    <3> QED
      BY <1>1, <2>1, <3>1, <3>2, Settings DEF TypeOK, ChunkInv
  <2>3. CASE ~LastBatch(a, c)
    <3>1. /\ state' = [state EXCEPT ![a][c] = "sent"]
          /\ batchNo' = [batchNo EXCEPT ![a][c] = batchNo[a][c] + 1]
      BY <1>4, <2>3 DEF Reply
    <3> QED
      BY <1>1, <2>1, <3>1, Settings DEF TypeOK, ChunkInv
  <2> QED
    BY <2>2, <2>3
<1>5. CASE UNCHANGED vars
  BY <1>1, <1>5, Settings DEF vars, ChunkInv
<1> QED
  BY <1>2, <1>3, <1>4, <1>5 DEF Next, Step

\* What the org did with a record, and what the call knows of it.
LEMMA StepRecord == DmlInv /\ [Next]_vars => RecordInv'
<1> SUFFICES ASSUME DmlInv, [Next]_vars PROVE RecordInv'
  OBVIOUS
<1> USE DEF Put, DmlInv
<1>1. Main \in Attempts
  BY DEF Main, Attempts
<1>2. SUFFICES ASSUME NEW i \in Records PROVE RecordOK(i)'
  BY DEF RecordInv
<1>3. RecordOK(i) /\ ChunkOf(Main, i) \in Records /\ BatchOf(Main, i) \in Nat \ {0}
  BY <1>1, Slicing DEF RecordInv
<1>4. ASSUME NEW a \in Attempts, NEW c \in Chunks(a), StartChunk(a, c) PROVE RecordOK(i)'
  <2>1. c \in Records
    BY Slicing
  <2>2. CASE a = Main /\ c = ChunkOf(Main, i)
    BY <1>1, <1>3, <1>4, <2>2, Settings
       DEF StartChunk, TypeOK, RecordOK, Ahead, Told, Answered, Took, AtBatch, StateOf, NoOf
  <2>3. CASE ~(a = Main /\ c = ChunkOf(Main, i))
    BY <1>1, <1>3, <1>4, <2>1, <2>3, Elsewhere DEF StartChunk, TypeOK, StateOf, NoOf
  <2> QED
    BY <2>2, <2>3
<1>5. ASSUME NEW a \in Attempts, NEW c \in Chunks(a), Refuse(a, c) PROVE RecordOK(i)'
  <2>1. a # Main /\ c \in Records
    BY <1>5, Sizes, Slicing DEF Refuse, Main, Attempts
  <2> QED
    BY <1>1, <1>3, <1>5, <2>1, Elsewhere DEF Refuse, TypeOK, StateOf, NoOf
<1>6. ASSUME NEW a \in Attempts, NEW c \in Chunks(a), Effect(a, c) PROVE RecordOK(i)'
  <2>1. a = Main /\ c \in Records /\ call' = call
    BY <1>6, EffectOfMain
  <2>2. Batch(a, c) = {k \in Records : ChunkOf(a, k) = c /\ BatchOf(a, k) = batchNo[a][c]}
    BY Slicing DEF Batch
  <2>3. CASE c # ChunkOf(Main, i)
    <3>1. i \notin Batch(a, c)
      BY <2>1, <2>2, <2>3
    <3>2. /\ executed'[i] = executed[i] /\ (i \in purged' <=> i \in purged) /\ verdict'[i] = verdict[i]
          /\ reply'[Main][ChunkOf(Main, i)] = reply[Main][ChunkOf(Main, i)]
      BY <1>1, <1>3, <1>6, <2>1, <2>3, <3>1
         DEF Effect, Execute, RequestPurge, EmptyRecycleBin, LateExecute, LatePurge, Reply, GiveUp,
             CarriedOut, Acceptable, InBin, Verdicts, TypeOK
    <3>3. \A k \in Records : k # c =>
            state'[Main][k] = state[Main][k] /\ batchNo'[Main][k] = batchNo[Main][k]
      BY <1>1, <1>6, <2>1
         DEF Effect, Execute, RequestPurge, EmptyRecycleBin, LateExecute, LatePurge, Reply, GiveUp, TypeOK
    <3> QED
      BY <1>3, <2>1, <2>3, <3>2, <3>3, Elsewhere DEF StateOf, NoOf
  <2>4. CASE c = ChunkOf(Main, i)
    <3>0. /\ i \in Batch(a, c) <=> AtBatch(i)
          /\ state[a][c] = StateOf(i) /\ batchNo[a][c] = NoOf(i) /\ NoOf(i) \in Nat
          /\ AtBatch(i)' <=> BatchOf(Main, i) = batchNo'[Main][c]
          /\ StateOf(i)' = state'[Main][c] /\ NoOf(i)' = batchNo'[Main][c]
          /\ BatchOf(Main, i)' = BatchOf(Main, i) /\ ChunkOf(Main, i)' = c /\ Main' = Main
          /\ Purges(Main)' = Purges(Main)
      BY <1>1, <1>3, <2>1, <2>2, <2>4, Settings DEF AtBatch, StateOf, NoOf, TypeOK
    <3>6. CASE Reply(a, c)
      <4>1. /\ verdict'[i] = IF ~AtBatch(i) THEN verdict[i] ELSE IF i \in reply[a][c] THEN "ok" ELSE "error"
            /\ UNCHANGED <<reply, executed, purged>>
        BY <3>0, <3>6 DEF Reply, Verdicts
      <4>2. /\ AtBatch(i) => Answered(i) /\ ~Told(i)
            /\ Took(i)' <=> Took(i)
        BY <2>1, <3>0, <3>6, <4>1 DEF Reply, Answered, AtBatch, Told, Took
      <4>3. /\ Told(i)' <=> Told(i) \/ AtBatch(i)
            /\ Ahead(i)' => Ahead(i)
            /\ StateOf(i)' \in {"done", "sent"}
        <5>1. CASE LastBatch(a, c)
          <6>1. BatchOf(Main, i) <= NoOf(i)
            BY <1>1, <2>1, <2>4, <3>0, <5>1, LastBatchEnds
          <6>2. StateOf(i)' = "done" /\ NoOf(i)' = NoOf(i)
            BY <1>1, <2>1, <3>0, <3>6, <5>1 DEF Reply, TypeOK
          <6> QED
            BY <1>3, <3>0, <6>1, <6>2 DEF Told, Ahead, AtBatch
        <5>2. CASE ~LastBatch(a, c)
          <6>1. StateOf(i)' = "sent" /\ NoOf(i)' = NoOf(i) + 1
            BY <1>1, <2>1, <3>0, <3>6, <5>2 DEF Reply, TypeOK
          <6>2. StateOf(i) \notin {"waiting", "sent", "lost", "done"}
            BY <3>0, <3>6 DEF Reply
          <6> QED
            BY <1>3, <3>0, <6>1, <6>2 DEF Told, Ahead, AtBatch
        <5> QED
          BY <5>1, <5>2
      <4>4. ~Answered(i)' /\ ~(StateOf(i)' \in {"executed", "purging"})
        BY <4>3 DEF Answered
      <4> QED
        BY <1>3, <2>1, <2>4, <4>1, <4>2, <4>3, <4>4 DEF RecordOK
    <3> USE <1>1, <1>3, <2>1, <3>0 DEF TypeOK, RecordOK, Ahead, Told, Answered, Took, AtBatch
    <3>1. CASE Execute(a, c)
      BY <3>1 DEF Execute, CarriedOut, Acceptable
    <3>2. CASE RequestPurge(a, c)
      BY <3>2 DEF RequestPurge
    <3>3. CASE EmptyRecycleBin(a, c)
      BY <3>3 DEF EmptyRecycleBin, InBin
    <3>4. CASE LateExecute(a, c)
      BY <3>4 DEF LateExecute, CarriedOut, Acceptable
    <3>5. CASE LatePurge(a, c)
      BY <3>5 DEF LatePurge, InBin
    <3>7. CASE GiveUp(a, c)
      BY <3>7 DEF GiveUp, Pending
    <3> QED
      BY <1>6, <3>1, <3>2, <3>3, <3>4, <3>5, <3>6, <3>7 DEF Effect
  <2> QED
    BY <2>3, <2>4
<1>7. CASE UNCHANGED vars
  BY <1>1, <1>3, <1>7, Elsewhere DEF vars, StateOf, NoOf
<1> QED
  BY <1>4, <1>5, <1>6, <1>7 DEF Next, Step, Effect

\* Initially nothing is sent.
LEMMA InitInv == Init => DmlInv
<1> SUFFICES ASSUME Init PROVE DmlInv
  OBVIOUS
<1>1. TypeOK
  BY DEF Init, TypeOK, ChunkStates, Attempts
<1>2. Main \in Attempts
  BY DEF Main, Attempts
<1>3. CallInv
  BY DEF Init, CallInv, Attempts
<1>4. ChunkInv
  BY <1>2 DEF Init, ChunkInv
<1>5. ASSUME NEW i \in Records PROVE RecordOK(i)
  <2>1. ChunkOf(Main, i) \in Records /\ BatchOf(Main, i) \in Nat \ {0}
    BY <1>1, <1>2, Slicing
  <2> QED
    BY <1>2, <2>1 DEF Init, RecordOK, Ahead, Told, Answered, Took, AtBatch, StateOf, NoOf
<1> QED
  BY <1>1, <1>3, <1>4, <1>5 DEF DmlInv, RecordInv

\* The invariant is inductive.
LEMMA StepInv == DmlInv /\ [Next]_vars => DmlInv'
  BY StepType, StepCall, StepChunk, StepRecord DEF DmlInv

\* The invariant of a call.
LEMMA Invariant == Spec => []DmlInv
  BY InitInv, StepInv, PTL DEF Spec

\* The variables of a call keep their types, whatever its settings.
THEOREM TypeCorrect == Spec => []TypeOK
<1>1. DmlInv => TypeOK
  BY DEF DmlInv
<1> QED
  BY Invariant, <1>1, PTL

\* The org carries out the operation at most once for each record: batches do not
\* overlap, and only a call that changed nothing is repeated over REST.
THEOREM NothingTwice == Spec => []AtMostOnce
<1>1. DmlInv => AtMostOnce
  BY DEF DmlInv, RecordInv, RecordOK, AtMostOnce
<1> QED
  BY Invariant, <1>1, PTL
-----------------------------------------------------------------------------
ContractVars == <<Taken, verdict, Outcome>>
ContractStep == Contract!Work \/ Contract!Return \/ Contract!Throw

\* What the contract calls taken; before the second attempt the org took nothing.
TakenFacts ==
  /\ Taken = {i \in Records : Took(i)}
  /\ \A i \in Records : verdict[i] = "ok" => i \in Taken
  /\ (\E c \in Records : state[Main][c] # "waiting") => Attempt = Main /\ status[Main] # "idle"

\* Verdicts of success are true, and what was taken was taken by the main attempt.
LEMMA TakenByMain == DmlInv => TakenFacts
<1> SUFFICES ASSUME DmlInv PROVE TakenFacts
  OBVIOUS
<1>1. Main \in Attempts
  BY DEF Main, Attempts
<1>2. \A i \in Records : ChunkOf(Main, i) \in Records /\ BatchOf(Main, i) \in Nat \ {0}
  BY <1>1, Slicing DEF DmlInv
<1>3. \A i \in Records : verdict[i] = "ok" => Took(i)
  BY DEF DmlInv, RecordInv, RecordOK
<1>4. status[Attempt] # "idle"
  BY DEF Attempt, DmlInv, CallInv
<1>5. CASE Attempt = Main
  BY <1>3, <1>4, <1>5 DEF Taken, Took, DmlInv, TypeOK, TakenFacts
<1>6. CASE Attempt # Main
  <2>1. Main = 2 /\ Attempt = 1 /\ Refused(1) /\ status[2] = "idle"
    BY <1>6 DEF Attempt, Main, DmlInv, CallInv
  <2>2. ~Purges(1)
    BY <2>1 DEF Refused, Purges
  <2>3. \A i \in Records : Ahead(i)
    BY <1>2, <2>1 DEF DmlInv, CallInv, ChunkInv, TypeOK, Ahead, AtBatch, StateOf, NoOf, Attempts
  <2>4. \A i \in Records : executed[i] = 0 /\ i \notin purged
    BY <2>3 DEF DmlInv, RecordInv, RecordOK
  <2> QED
    BY <1>3, <2>1, <2>2, <2>4 DEF Taken, Took, DmlInv, CallInv, TakenFacts
<1> QED
  BY <1>5, <1>6

\* A call starts as its contract does.
LEMMA InitContract == Init => Contract!ContractInit
  BY DEF Init, Contract!ContractInit, Taken, Outcome, Attempt, Attempts

\* A step of a call is one of its contract.
LEMMA StepContract == DmlInv /\ DmlInv' /\ [Next]_vars => [ContractStep]_ContractVars
<1> SUFFICES ASSUME DmlInv, DmlInv', [Next]_vars PROVE [ContractStep]_ContractVars
  OBVIOUS
<1> USE DEF Attempts
<1>1. Main \in Attempts
  BY DEF Main
<1>2. TakenFacts /\ TakenFacts'
  <2>1. TakenFacts
    BY TakenByMain
  <2>2. DmlInv' => TakenFacts'
    BY TakenByMain, PTL
  <2> QED
    BY <2>1, <2>2
<1>3. /\ verdict' \in [Records -> {"none", "ok", "error"}] /\ Taken' \subseteq Records
      /\ Contract!Honest'
  BY <1>2 DEF DmlInv, TypeOK, TakenFacts, Contract!Honest
<1>4. ASSUME NEW a \in Attempts, NEW c \in Chunks(a), StartChunk(a, c) \/ RequestPurge(a, c)
      PROVE  UNCHANGED ContractVars
  BY <1>4, Settings DEF StartChunk, RequestPurge, ContractVars, Taken, Outcome, Attempt
<1>5. ASSUME NEW a \in Attempts, NEW c \in Chunks(a),
             Execute(a, c) \/ EmptyRecycleBin(a, c) \/ LateExecute(a, c) \/ LatePurge(a, c)
      PROVE  Contract!Work
  <2>1. a = Main /\ c \in Records /\ call' = call
    BY <1>5, EffectOfMain DEF Effect, DmlInv
  <2>2. state[a][c] \notin {"waiting", "done"} /\ UNCHANGED <<status, verdict>>
    BY <1>5 DEF Execute, EmptyRecycleBin, LateExecute, LatePurge
  <2>3. Attempt = Main /\ Outcome' = Outcome /\ Outcome = status[Main] /\ status[Main] # "idle"
    BY <1>2, <2>1, <2>2 DEF TakenFacts, Outcome, Attempt
  <2>4. status[Main] # "returned"
    BY <1>1, <2>1, <2>2 DEF DmlInv, CallInv, AllDone
  <2>5. Taken \subseteq Taken'
    BY <1>1, <1>5, <2>1, <2>2, <2>3, Settings
       DEF Execute, EmptyRecycleBin, LateExecute, LatePurge, CarriedOut, Taken, Attempt, DmlInv, TypeOK
  <2> QED
    BY <1>1, <1>3, <2>3, <2>4, <2>5 DEF Contract!Work, DmlInv, TypeOK
<1>6. ASSUME NEW a \in Attempts, NEW c \in Chunks(a), Reply(a, c) PROVE ContractStep
  <2>1. /\ a = Main /\ c \in Records /\ call' = call /\ state[a][c] \in {"executed", "purged"}
        /\ UNCHANGED <<executed, purged>>
        /\ status' = [status EXCEPT ![a] = IF AllDone(a, state') THEN "returned" ELSE @]
    BY <1>6, EffectOfMain DEF Effect, Reply, DmlInv
  <2>2. Attempt = Main /\ Outcome = status[Main] /\ status[Main] # "idle"
    BY <1>2, <2>1 DEF TakenFacts, Outcome
  <2>3. Attempt' = Main /\ Outcome' = status'[Main] /\ Taken' = Taken
    BY <1>1, <2>1, <2>2, Settings DEF Outcome, Attempt, DmlInv, TypeOK, Taken
  <2>4. status[Main] # "returned"
    BY <1>1, <2>1 DEF DmlInv, CallInv, AllDone
  <2>5. CASE ~AllDone(a, state')
    BY <1>1, <1>3, <2>1, <2>2, <2>3, <2>4, <2>5 DEF ContractStep, Contract!Work, DmlInv, TypeOK
  <2>6. CASE AllDone(a, state')
    <3>1. status[Main] = "running" /\ status'[Main] = "returned"
      BY <1>1, <1>6, <2>1, <2>2, <2>4, <2>6, ReplyOfRunning DEF DmlInv, TypeOK
    <3>2. Contract!Complete'
      <4>1. ASSUME NEW i \in Records PROVE Told(i)'
        <5>1. ChunkOf(Main, i) \in Chunks(Main) /\ Chunks(Main) \subseteq Records
              /\ BatchOf(Main, i) \in Nat
          BY <1>1, Slicing DEF DmlInv
        <5>2. state'[Main][ChunkOf(Main, i)] = "done"
          BY <2>1, <2>6, <5>1 DEF AllDone
        <5>3. BatchOf(Main, i) <= batchNo'[Main][ChunkOf(Main, i)]
          BY <1>1, <2>1, <5>1, <5>2, Settings DEF DmlInv, ChunkInv
        <5>4. batchNo'[Main][ChunkOf(Main, i)] \in Nat
          BY <1>1, <5>1 DEF DmlInv, TypeOK
        <5> QED
          BY <1>1, <2>1, <5>1, <5>2, <5>3, <5>4, Settings DEF Told, AtBatch, StateOf, NoOf
      <4> QED
        BY <1>2, <4>1 DEF Contract!Complete, TakenFacts, DmlInv, RecordInv, RecordOK
    <3> QED
      BY <1>3, <2>2, <2>3, <3>1, <3>2 DEF ContractStep, Contract!Return
  <2> QED
    BY <2>5, <2>6
<1>7. ASSUME NEW a \in Attempts, NEW c \in Chunks(a), GiveUp(a, c)
      PROVE  Contract!Throw \/ UNCHANGED ContractVars
  <2>1. /\ a = Main /\ c \in Records /\ call' = call /\ state[a][c] # "waiting"
        /\ UNCHANGED <<executed, purged, verdict>>
        /\ status' = [status EXCEPT ![a] = IF @ = "running" THEN "thrown" ELSE @]
    BY <1>7, EffectOfMain DEF Effect, GiveUp, Pending, Rejected, DmlInv
  <2>2. Attempt = Main /\ Outcome = status[Main] /\ status[Main] # "idle"
    BY <1>2, <2>1 DEF TakenFacts, Outcome
  <2>3. Attempt' = Main /\ Outcome' = status'[Main] /\ Taken' = Taken
    BY <1>1, <2>1, <2>2, Settings DEF Outcome, Attempt, DmlInv, TypeOK, Taken
  <2> QED
    BY <1>1, <2>1, <2>2, <2>3 DEF Contract!Throw, ContractVars, DmlInv, TypeOK
<1>8. ASSUME NEW a \in Attempts, NEW c \in Chunks(a), Refuse(a, c)
      PROVE  Contract!Throw \/ UNCHANGED ContractVars
  <2>1. a = 1 /\ Main = 2 /\ call' = call /\ UNCHANGED <<executed, purged, verdict>>
    BY <1>8, Sizes DEF Refuse, Main, DmlInv
  <2>2. Taken' = Taken
    BY <1>1, <1>2, <2>1, Settings DEF TakenFacts, Took
  <2> QED
    BY <1>8, <2>1, <2>2
       DEF Refuse, Rejected, Contract!Throw, ContractVars, Outcome, Attempt, DmlInv, TypeOK, CallInv
<1>9. CASE UNCHANGED vars
  BY <1>9, Settings DEF vars, ContractVars, Taken, Outcome, Attempt
<1> QED
  BY <1>4, <1>5, <1>6, <1>7, <1>8, <1>9 DEF Next, Step, ContractStep

\* A call of any number of records, chunks and batches keeps its contract and repeats
\* nothing, whichever engine carries it out and whatever fails, is lost or comes late.
THEOREM ContractKept == Spec => FulfilsContract
  BY Invariant, NothingTwice, InitContract, StepContract, PTL
     DEF Spec, FulfilsContract, Contract!ContractSpec, ContractStep, ContractVars

-----------------------------------------------------------------------------
(***************************************************************************)
(* A Bulk API 1.0 job.                                                     *)
(***************************************************************************)
Ran(b) == org[b] \in {"taken", "refused"}

\* What makes the contract inductive: results are those of a batch the org has run,
\* a batch that is not uploaded is unknown to the org, and the verdicts of all batches
\* before the current one are there and tell what the org did.
BatchInv ==
  /\ JobTypeOK
  /\ \A b \in Batches : library[b] \in {"idle", "uploading"} => org[b] = "none"
  /\ \A b \in Batches : promise[b] = "results" => Ran(b)
  /\ \A b \in Batches : told[b] # "none" => Ran(b) /\ (told[b] = "ok" <=> org[b] = "taken")
  /\ \A b \in Batches : b < current \/ job = "returned" => told[b] # "none"

\* Initially no batch is known to the org and none has a verdict.
LEMMA JobInitInv == JobInit => BatchInv
  BY LastAssumption DEF JobInit, BatchInv, JobTypeOK, Batches, Ran

\* A promise that an error, or the poller's timeout, may settle is never given results.
LEMMA ErrorsGiveNoResults ==
  ASSUME JobTypeOK, NEW b \in Batches
  PROVE  /\ HandleError(b) \in [Batches -> {"pending", "null", "results"}]
         /\ \A c \in Batches : HandleError(b)[c] = "results" => promise[c] = "results"
  BY DEF HandleError, Finished, JobTypeOK

\* The poller only ever settles a promise with an error.
LEMMA PollGivesNoResults ==
  ASSUME JobTypeOK, NEW b \in Batches, Poll(b)
  PROVE  /\ promise' \in [Batches -> {"pending", "null", "results"}]
         /\ poller' \in [Batches -> {"off", "checking", "sleeping"}]
         /\ \A c \in Batches : promise'[c] = "results" => promise[c] = "results"
  BY ErrorsGiveNoResults DEF Poll, JobTypeOK

\* Every step keeps the invariant.
LEMMA JobStepInv == BatchInv /\ [JobNext]_jobVars => BatchInv'
<1> SUFFICES ASSUME BatchInv, [JobNext]_jobVars PROVE BatchInv'
  OBVIOUS
<1>1. CASE StartBatch
  BY <1>1 DEF StartBatch, BatchInv, JobTypeOK, Ran
<1>2. CASE Continue
  <2>1. current' \in Batches
    BY <1>2, LastAssumption DEF Continue, BatchInv, JobTypeOK, Batches
  <2>2. \A b \in Batches : b < current => told[b] # "none"
    BY DEF BatchInv
  <2>3. JobTypeOK'
    BY <1>2, <2>1 DEF Continue, BatchInv, JobTypeOK, external
  <2>4. \A b \in Batches : told'[b] # "none" => Ran(b) /\ (told'[b] = "ok" <=> org[b] = "taken")
    BY <1>2 DEF Continue, BatchInv, JobTypeOK, Ran
  <2>5. \A b \in Batches : b < current' \/ job' = "returned" => told'[b] # "none"
    BY <1>2, <2>2, LastAssumption DEF Continue, BatchInv, JobTypeOK, Batches
  <2> QED
    BY <1>2, <2>3, <2>4, <2>5 DEF Continue, BatchInv, Ran, external
<1>3. ASSUME NEW b \in Batches, Queue(b) PROVE BatchInv'
  BY <1>3, PollGivesNoResults DEF Queue, BatchInv, JobTypeOK, Ran
<1>4. ASSUME NEW b \in Batches, UploadFails(b) PROVE BatchInv'
  <2>1. org[b] = "none" /\ promise' = HandleError(b)
    BY <1>4 DEF UploadFails, BatchInv
  <2>2. /\ promise' \in [Batches -> {"pending", "null", "results"}]
        /\ \A c \in Batches : promise'[c] = "results" => promise[c] = "results"
    BY <2>1, ErrorsGiveNoResults DEF BatchInv
  <2>3. /\ library' = [library EXCEPT ![b] = "done"] /\ UNCHANGED <<job, current, poller, expired, told>>
        /\ org' \in {org, [org EXCEPT ![b] = "running"]}
    BY <1>4 DEF UploadFails
  <2>4. \A c \in Batches : org'[c] = org[c] \/ (c = b /\ org'[c] = "running")
    BY <2>3 DEF BatchInv, JobTypeOK
  <2>5. JobTypeOK'
    BY <2>2, <2>3 DEF BatchInv, JobTypeOK
  <2>6. \A c \in Batches : library'[c] \in {"idle", "uploading"} => org'[c] = "none"
    BY <2>3, <2>4 DEF BatchInv, JobTypeOK
  <2>7. /\ \A c \in Batches : promise'[c] = "results" => Ran(c)'
        /\ \A c \in Batches : told'[c] # "none" => Ran(c)' /\ (told'[c] = "ok" <=> org'[c] = "taken")
    BY <2>1, <2>2, <2>3, <2>4 DEF BatchInv, Ran
  <2> QED
    BY <2>3, <2>5, <2>6, <2>7 DEF BatchInv
<1>5. ASSUME NEW b \in Batches, CheckAnswered(b) PROVE BatchInv'
  BY <1>5 DEF CheckAnswered, BatchInv, JobTypeOK, Ran, external
<1>6. ASSUME NEW b \in Batches, CheckFails(b) PROVE BatchInv'
  BY <1>6, ErrorsGiveNoResults DEF CheckFails, BatchInv, JobTypeOK, Ran, external
<1>7. ASSUME NEW b \in Batches, Wake(b) PROVE BatchInv'
  BY <1>7, PollGivesNoResults DEF Wake, BatchInv, JobTypeOK, Ran, external
<1>8. ASSUME NEW b \in Batches, RunBatch(b) PROVE BatchInv'
  BY <1>8 DEF RunBatch, BatchInv, JobTypeOK, Ran
<1>9. ASSUME NEW b \in Batches, Response(b) PROVE BatchInv'
  BY <1>9 DEF Response, Finished, BatchInv, JobTypeOK, Ran
<1>10. ASSUME NEW b \in Batches, Error(b) PROVE BatchInv'
  BY <1>10, ErrorsGiveNoResults DEF Error, BatchInv, JobTypeOK, Ran
<1>11. ASSUME NEW b \in Batches, Expire(b) PROVE BatchInv'
  BY <1>11 DEF Expire, BatchInv, JobTypeOK, Ran, external
<1>12. CASE UNCHANGED jobVars
  BY <1>12 DEF jobVars, BatchInv, JobTypeOK, Ran
<1> QED
  BY <1>1, <1>2, <1>3, <1>4, <1>5, <1>6, <1>7, <1>8, <1>9, <1>10, <1>11, <1>12 DEF JobNext, Own

\* The variables of a job keep their types.
THEOREM JobTypeCorrect == JobSpec => []JobTypeOK
<1>1. BatchInv => JobTypeOK
  BY DEF BatchInv
<1> QED
  BY JobInitInv, JobStepInv, <1>1, PTL DEF JobSpec

-----------------------------------------------------------------------------
TakenBatches == {b \in Batches : org[b] = "taken"}
JobContractVars == <<TakenBatches, told, job>>
JobContractStep == JobContract!Work \/ JobContract!Return \/ JobContract!Throw

\* A job starts as the contract does.
LEMMA JobInitContract == JobInit => JobContract!ContractInit
  BY DEF JobInit, JobContract!ContractInit

\* A step that changes neither the call, the verdicts nor what the org took stutters.
LEMMA OtherSteps ==
  ASSUME NEW b \in Batches, BatchInv, Queue(b) \/ UploadFails(b)
  PROVE  UNCHANGED JobContractVars
  BY DEF Queue, UploadFails, BatchInv, JobTypeOK, JobContractVars, TakenBatches

\* Every step of a job is one the contract allows.
LEMMA JobStepContract == BatchInv /\ BatchInv' /\ [JobNext]_jobVars => [JobContractStep]_JobContractVars
<1> SUFFICES ASSUME BatchInv, BatchInv', [JobNext]_jobVars PROVE [JobContractStep]_JobContractVars
  OBVIOUS
<1>1. CASE Continue
  <2>1. UNCHANGED TakenBatches
    BY <1>1 DEF Continue, external, TakenBatches
  <2>2. JobContract!Honest'
    BY DEF BatchInv, JobContract!Honest, TakenBatches
  <2>3. told' \in [Batches -> {"none", "ok", "error"}]
    BY DEF BatchInv, JobTypeOK
  <2>4. CASE job' = "thrown"
    BY <1>1, <2>1, <2>4 DEF Continue, JobContractStep, JobContract!Throw, TakenBatches
  <2>5. CASE job' = "returned"
    <3>1. JobContract!Complete'
      BY <2>5 DEF BatchInv, JobContract!Complete, TakenBatches
    <3> QED
      BY <1>1, <2>1, <2>3, <2>5, <3>1 DEF Continue, JobContractStep, JobContract!Return, TakenBatches
  <2>6. CASE job' = "running"
    BY <1>1, <2>1, <2>2, <2>3, <2>6 DEF Continue, JobContractStep, JobContract!Work, TakenBatches
  <2> QED
    BY <2>4, <2>5, <2>6 DEF BatchInv, JobTypeOK
<1>2. ASSUME NEW b \in Batches, RunBatch(b) PROVE JobContractStep
  <2>1. job # "returned"
    BY <1>2 DEF RunBatch, BatchInv, Ran
  <2>2. TakenBatches \subseteq TakenBatches' /\ TakenBatches' \subseteq Batches
    BY <1>2 DEF RunBatch, BatchInv, JobTypeOK, TakenBatches
  <2>3. JobContract!Honest'
    BY DEF BatchInv, JobContract!Honest, TakenBatches
  <2> QED
    BY <1>2, <2>1, <2>2, <2>3 DEF RunBatch, JobContractStep, JobContract!Work, BatchInv, JobTypeOK, TakenBatches
<1>3. CASE StartBatch \/ UNCHANGED jobVars
  BY <1>3 DEF StartBatch, jobVars, JobContractVars, TakenBatches
<1>4. ASSUME NEW b \in Batches, Own(b) \/ Response(b) \/ Error(b) \/ Expire(b)
      PROVE UNCHANGED JobContractVars
  BY <1>4, OtherSteps DEF Own, CheckAnswered, CheckFails, Wake, Response, Error, Expire,
       external, JobContractVars, TakenBatches
<1> QED
  BY <1>1, <1>2, <1>3, <1>4 DEF JobNext

\* A Bulk API 1.0 job keeps the contract of a DML call, whichever of the library, the
\* engine's poller and the clock settles its batches.
THEOREM JobContractFulfilled == JobSpec => JobFulfilsContract
  BY JobInitInv, JobStepInv, JobInitContract, JobStepContract, PTL
     DEF JobSpec, JobFulfilsContract, JobContract!ContractSpec, JobContractStep, JobContractVars, TakenBatches
=============================================================================
