----------------------------- MODULE DmlContract -----------------------------
(***************************************************************************)
(* What the update passes may expect of one DML call, whichever API        *)
(* engine carries it out: the org takes each record at most once; when     *)
(* the call returns, every record has a verdict and the verdicts tell      *)
(* exactly what the org took, which the call then no longer changes.  A    *)
(* call that throws promises nothing: some records were taken, and more    *)
(* may still be.                                                           *)
(***************************************************************************)
CONSTANT Records

VARIABLES
  taken,     \* the records on which the org carried out the operation
  verdict,   \* "none", "ok" or "error" for each record
  outcome    \* "running", "returned" or "thrown"

Honest == \A r \in Records : verdict[r] = "ok" => r \in taken
Complete == \A r \in Records : (verdict[r] = "ok" <=> r \in taken) /\ verdict[r] # "none"

ContractInit ==
  /\ taken = {} /\ verdict = [r \in Records |-> "none"]
  /\ outcome = "running"

\* The call goes on: the org takes more records, verdicts arrive.
Work ==
  /\ outcome \in {"running", "thrown"}
  /\ taken \subseteq taken' /\ taken' \subseteq Records
  /\ verdict' \in [Records -> {"none", "ok", "error"}] /\ Honest'
  /\ UNCHANGED outcome
Return ==
  /\ outcome = "running" /\ outcome' = "returned"
  /\ verdict' \in [Records -> {"none", "ok", "error"}] /\ Complete'
  /\ UNCHANGED taken
Throw ==
  /\ outcome = "running" /\ outcome' = "thrown"
  /\ UNCHANGED <<taken, verdict>>

ContractSpec ==
  ContractInit /\ [][Work \/ Return \/ Throw]_<<taken, verdict, outcome>>
=============================================================================
