--------------------------- MODULE ResultMatching ---------------------------
(***************************************************************************)
(* How BulkApiV2Engine._applyBulkV2Results gives the records of a Bulk API *)
(* 2.0 job their verdicts and new Ids.  The org answers with three lists,  *)
(* the rows it took, refused and left unprocessed, each in an order of its *)
(* own.  Rows are paired with records by Id, or for an insert by a 32-bit  *)
(* hash of the values; those with one key are paired in array order.       *)
(*                                                                         *)
(* A value is blank, a number or a text; numbers and texts are sequences   *)
(* of character codes.  The lists return the values that were sent.        *)
(***************************************************************************)
EXTENDS Integers, FiniteSets, FiniteSetsExt, Sequences, SequencesExt

CONSTANTS
  N,        \* how many records the job has
  Contents  \* what a record may hold: tuples of values, by field name

ASSUME MatchingAssumption == N \in Nat \ {0}

VARIABLES
  operation,\* "Insert" or "Update"
  records,  \* the contents of the job's records, in the order they were sent
  fate,     \* external: what the org does with each of them
  answer,   \* external: the results, each naming the record it is about
  verdict,  \* the error field of a record
  newId     \* the row a record was given the Id of; 0 for none

vars == <<operation, records, fate, answer, verdict, newId>>
Positions == 1..N
Fates == {"taken", "refused", "unprocessed"}

Blank == [kind |-> "blank", chars |-> <<>>]
Number(digits) == [kind |-> "number", chars |-> digits]
Text(chars) == [kind |-> "text", chars |-> chars]

-----------------------------------------------------------------------------
Zero == 48
Space == 32

\* getObjectHashcode turns a value into text: Number(null) and Number("") are 0.
Normalized(value) ==
  CASE value.kind = "blank" -> <<Zero>>
    [] value.kind = "number" -> value.chars
    [] OTHER -> SelectSeq(value.chars, LAMBDA c : c # Space)
\* getStringHashcode.  Named bound: the instances' texts are too short to overflow
\* its 32 bits.
StringHashcode(chars) == FoldLeft(LAMBDA hash, c : 31 * hash + c, 0, chars)
ObjectHashcode(content) ==
  StringHashcode(FlattenSeq([f \in DOMAIN content |-> Normalized(content[f])]))

\* arrayToMapByHashcode and arrayToMapByProperty: a key that is taken gets a counter.
Keyed(keys) ==
  [i \in DOMAIN keys |-> <<keys[i], Cardinality({j \in 1..i : keys[j] = keys[i]})>>]

\* Mutant: values are compared for every operation.
UseIdMapping_Never == FALSE
\* _shouldUseIdMapping: every record to update has its Id.
UseIdMapping == operation # "Insert"
Key(i) == IF UseIdMapping THEN i ELSE ObjectHashcode(records[i])

\* compareArraysByHashcode and compareArraysByProperty: a record's result, 0 for none.
ResultOf(i) ==
  LET recordKey == Keyed([j \in Positions |-> Key(j)])[i]
      resultKeys == Keyed([r \in DOMAIN answer |-> Key(answer[r])])
      found == {r \in DOMAIN answer : resultKeys[r] = recordKey}
  IN  IF found = {} THEN 0 ELSE answer[CHOOSE r \in found : TRUE]

\* invalidRecordMessage and _extractBulkV2Error.
ErrorOf(result) ==
  CASE result = 0 -> "notLocated"
    [] fate[result] = "taken" -> "ok"
    [] OTHER -> fate[result]

\* _resolveBulkV2ResultId: only a taken row has an Id.
IdOf(result) ==
  IF result # 0 /\ operation = "Insert" /\ fate[result] = "taken" THEN result ELSE 0

-----------------------------------------------------------------------------
Init ==
  /\ operation \in {"Insert", "Update"}
  /\ records \in [Positions -> Contents]
  /\ fate = [i \in Positions |-> "sent"]
  /\ answer = <<>>
  /\ verdict = [i \in Positions |-> "none"]
  /\ newId = [i \in Positions |-> 0]

\* The job runs; what it left when it ended stays unprocessed.
RunJob ==
  /\ \E i \in Positions : fate[i] = "sent"
  /\ fate' \in [Positions -> Fates]
  /\ UNCHANGED <<operation, records, answer, verdict, newId>>

Listed(f) == {i \in Positions : fate[i] = f}
\* getAllResults: the three lists, concatenated.
GetAllResults ==
  /\ answer = <<>> /\ \A i \in Positions : fate[i] # "sent"
  /\ \E taken \in SetToSeqs(Listed("taken")), refused \in SetToSeqs(Listed("refused")),
        unprocessed \in SetToSeqs(Listed("unprocessed")) :
       answer' = taken \o refused \o unprocessed
  /\ UNCHANGED <<operation, records, fate, verdict, newId>>

ApplyResults ==
  /\ answer # <<>> /\ \E i \in Positions : verdict[i] = "none"
  /\ verdict' = [i \in Positions |-> ErrorOf(ResultOf(i))]
  /\ newId' = [i \in Positions |-> IdOf(ResultOf(i))]
  /\ UNCHANGED <<operation, records, fate, answer>>

Next == RunJob \/ GetAllResults \/ ApplyResults
Spec == Init /\ [][Next]_vars

-----------------------------------------------------------------------------
Applied == \A i \in Positions : verdict[i] # "none"

NothingLost ==
  Applied =>
    /\ \A i \in Positions : verdict[i] # "notLocated"
    /\ Cardinality({i \in Positions : verdict[i] = "ok"}) = Cardinality(Listed("taken"))
    /\ operation = "Insert" =>
         /\ {newId[i] : i \in Positions} \ {0} = Listed("taken")
         /\ \A i, j \in Positions : newId[i] = newId[j] /\ newId[i] # 0 => i = j

Same(i, j) == IF operation = "Insert" THEN records[i] = records[j] ELSE i = j
OwnResults ==
  Applied =>
    \A i \in Positions :
      /\ \E j \in Positions : Same(i, j) /\ verdict[i] = IF fate[j] = "taken" THEN "ok" ELSE fate[j]
      /\ newId[i] # 0 => Same(i, newId[i])

ToldApart ==
  \/ operation # "Insert"
  \/ \A i, j \in Positions :
       ObjectHashcode(records[i]) = ObjectHashcode(records[j]) => records[i] = records[j]

\* However the rows are ordered and whatever hashes collide, the job's verdicts add
\* up: no row is lost, none is given to two records, and no more records are
\* reported as saved than the org took.  And a record is given the verdict and Id of
\* a row with its own values, for an update of the very row it was sent for, whenever
\* Ids or hashes tell the records apart.
ResultsAreRight == NothingLost /\ (ToldApart => OwnResults)
=============================================================================
