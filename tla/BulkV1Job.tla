------------------------------ MODULE BulkV1Job ------------------------------
(***************************************************************************)
(* A Bulk API 1.0 job of BulkApiV1Engine: _executeBulkV1Async sends its    *)
(* batches one after the other, each awaiting the promise of               *)
(* _executeBulkV1BatchAsync.  Three activities race to settle that         *)
(* promise: the jsforce batch with its events, the engine's own poller,    *)
(* which goes on for its own timeout, and time.  A promise settles once;   *)
(* what comes later is ignored, but the poller has still to stop.          *)
(*                                                                         *)
(* A batch is taken or refused as one record here: DmlCall treats records. *)
(***************************************************************************)
EXTENDS Integers

CONSTANT Last   \* the number of batches
ASSUME LastAssumption == Last \in Nat \ {0}
Batches == 1..Last

VARIABLES
  job,      \* _executeBulkV1Async: "running", "returned" or "thrown"
  current,  \* the batch it works on
  org,      \* external: what the org does with a batch
  library,  \* external: the jsforce batch, until it has emitted its last event
  poller,   \* pollAsync
  expired,  \* POLL_TIMEOUT has passed since the batch was created
  promise,  \* the promise of a batch: pending, or resolved with null or the results
  told      \* the error field of the records of a batch

jobVars == <<job, current, org, library, poller, expired, promise, told>>
external == <<org, library>>

JobInit ==
  /\ job = "running" /\ current = 1
  /\ org = [b \in Batches |-> "none"]
  /\ library = [b \in Batches |-> "idle"]
  /\ poller = [b \in Batches |-> "off"]
  /\ expired = [b \in Batches |-> FALSE]
  /\ promise = [b \in Batches |-> "pending"]
  /\ told = [b \in Batches |-> "none"]

\* finish: only the first result counts.
Finished(b, result) == [promise EXCEPT ![b] = IF @ = "pending" THEN result ELSE @]

\* Mutant: an error resolves to no results instead of to null.
HandleError_NoResults(b) == Finished(b, "results")
HandleError(b) == Finished(b, "null")

\* Mutant: the poller has no timeout of its own.
Poll_Forever(b) ==
  IF promise[b] # "pending"
  THEN poller' = [poller EXCEPT ![b] = "off"] /\ UNCHANGED promise
  ELSE poller' = [poller EXCEPT ![b] = "checking"] /\ UNCHANGED promise
\* pollAsync up to its request.
Poll(b) ==
  CASE promise[b] # "pending" -> poller' = [poller EXCEPT ![b] = "off"] /\ UNCHANGED promise
    [] promise[b] = "pending" /\ expired[b] -> poller' = [poller EXCEPT ![b] = "off"] /\ promise' = HandleError(b)
    [] OTHER -> poller' = [poller EXCEPT ![b] = "checking"] /\ UNCHANGED promise

-----------------------------------------------------------------------------
StartBatch ==
  /\ job = "running" /\ library[current] = "idle" /\ promise[current] = "pending"
  /\ library' = [library EXCEPT ![current] = "uploading"]
  /\ UNCHANGED <<job, current, org, poller, expired, promise, told>>

\* The 'queue' event: the library polls, and so does the engine.
Queue(b) ==
  /\ library[b] = "uploading"
  /\ library' = [library EXCEPT ![b] = "polling"]
  /\ org' = [org EXCEPT ![b] = "running"]
  /\ Poll(b)
  /\ UNCHANGED <<job, current, expired, told>>

\* The 'error' event of the upload, or a 'queue' event without a batch id; the org
\* may have got the batch all the same.
UploadFails(b) ==
  /\ library[b] = "uploading"
  /\ library' = [library EXCEPT ![b] = "done"]
  /\ org' \in {org, [org EXCEPT ![b] = "running"]}
  /\ promise' = HandleError(b)
  /\ UNCHANGED <<job, current, poller, expired, told>>

RunBatch(b) ==
  /\ org[b] = "running"
  /\ \E answer \in {"taken", "refused"} : org' = [org EXCEPT ![b] = answer]
  /\ UNCHANGED <<job, current, library, poller, expired, promise, told>>

\* The 'response' event, with the results of the batch.
Response(b) ==
  /\ library[b] = "polling" /\ org[b] \in {"taken", "refused"}
  /\ library' = [library EXCEPT ![b] = "done"]
  /\ promise' = Finished(b, "results")
  /\ UNCHANGED <<job, current, org, poller, expired, told>>

\* The 'error' event of the library's poll: a failed request or batch, or its timeout.
Error(b) ==
  /\ library[b] = "polling"
  /\ library' = [library EXCEPT ![b] = "done"]
  /\ promise' = HandleError(b)
  /\ UNCHANGED <<job, current, org, poller, expired, told>>

CheckAnswered(b) ==
  /\ poller[b] = "checking"
  /\ poller' = [poller EXCEPT ![b] = "sleeping"]
  /\ UNCHANGED <<job, current, external, expired, promise, told>>

\* Also when the batch is over meanwhile, which only the log then tells.
CheckFails(b) ==
  /\ poller[b] = "checking"
  /\ poller' = [poller EXCEPT ![b] = "off"]
  /\ promise' = HandleError(b)
  /\ UNCHANGED <<job, current, external, expired, told>>

Wake(b) ==
  /\ poller[b] = "sleeping"
  /\ Poll(b)
  /\ UNCHANGED <<job, current, external, expired, told>>

Expire(b) ==
  /\ library[b] # "idle" /\ ~expired[b]
  /\ expired' = [expired EXCEPT ![b] = TRUE]
  /\ UNCHANGED <<job, current, external, poller, promise, told>>

\* The awaiting loop goes on with the next batch, returns or throws.
Continue ==
  /\ job = "running" /\ promise[current] # "pending"
  /\ IF promise[current] = "null"
     THEN job' = "thrown" /\ UNCHANGED <<current, told>>
     ELSE /\ told' = [told EXCEPT ![current] = IF org[current] = "taken" THEN "ok" ELSE "error"]
          /\ IF current < Last THEN current' = current + 1 /\ UNCHANGED job
             ELSE job' = "returned" /\ UNCHANGED current
  /\ UNCHANGED <<external, poller, expired, promise>>

Own(b) == Queue(b) \/ UploadFails(b) \/ CheckAnswered(b) \/ CheckFails(b) \/ Wake(b)
JobNext ==
  \/ StartBatch \/ Continue
  \/ \E b \in Batches : Own(b) \/ RunBatch(b) \/ Response(b) \/ Error(b) \/ Expire(b)
JobSpec == JobInit /\ [][JobNext]_jobVars

\* The engine's own requests and timers come back, and time passes.  Nothing is
\* assumed of the library's polling, nor that the org ever runs the batch.
FairJobSpec ==
  /\ JobSpec /\ WF_jobVars(StartBatch) /\ WF_jobVars(Continue)
  /\ \A b \in Batches : WF_jobVars(Own(b)) /\ WF_jobVars(Expire(b))

-----------------------------------------------------------------------------
JobTypeOK ==
  /\ job \in {"running", "returned", "thrown"} /\ current \in Batches
  /\ org \in [Batches -> {"none", "running", "taken", "refused"}]
  /\ library \in [Batches -> {"idle", "uploading", "polling", "done"}]
  /\ poller \in [Batches -> {"off", "checking", "sleeping"}]
  /\ expired \in [Batches -> BOOLEAN]
  /\ promise \in [Batches -> {"pending", "null", "results"}]
  /\ told \in [Batches -> {"none", "ok", "error"}]

JobContract == INSTANCE DmlContract WITH
  Records <- Batches, verdict <- told, taken <- {b \in Batches : org[b] = "taken"}, outcome <- job

\* Whoever settles the promise of a batch, the job keeps the contract of a DML call:
\* if it returns, its verdicts tell what the org took, and nothing is still under way.
JobFulfilsContract == JobContract!ContractSpec

NoLateChecks ==
  [][\A b \in Batches : promise[b] # "pending" /\ poller[b] # "checking" => poller'[b] # "checking"]_jobVars

\* The job returns or throws, even if the library falls silent after the upload, and
\* a batch that is over is not polled any more, even while later ones run.
JobSettles == <>(job # "running") /\ NoLateChecks
=============================================================================
