----------------------------- MODULE TaskQueries -----------------------------
(***************************************************************************)
(* The SOQL queries of a migration task (MigrationJobTask.createQuery,     *)
(* _createFilteredQueries): what is done to the query of the script before *)
(* an org sees it.                                                         *)
(*                                                                         *)
(* A query names its object, the conditions of its WHERE clause in their   *)
(* order, joined by AND, and its LIMIT, 0 for none.  A condition is on     *)
(* "Filter" (what the script asks of a record), "RecordsFilter" (the       *)
(* sourceRecordsFilter), "IsDeleted", or on a field with its IN values.    *)
(* OR and parentheses, ORDER BY, OFFSET and GROUP BY are left out.         *)
(***************************************************************************)
EXTENDS Integers, Sequences, FiniteSets, SequencesExt

Condition(on, values) == [on |-> on, values |-> values]
IsQuery(q) ==
  /\ q = [object |-> q.object, where |-> q.where, limit |-> q.limit] /\ q.limit \in Nat
  /\ q.where \in Seq({Condition("Filter", {}), Condition("IsDeleted", {})})

Merged(q, condition) == [q EXCEPT !.where = Append(@, condition)]
WithoutWhere(q) == [q EXCEPT !.where = <<>>]
WithoutLimits(q) == [q EXCEPT !.limit = 0]

\* _removeIsDeletedFromWhere walks down a chain of conditions; one on IsDeleted leaves the
\* chain together with all that follow it.
WithoutIsDeleted(q) ==
  LET OnIsDeleted(c) == c.on = "IsDeleted"
      first == SelectInSeq(Append(q.where, Condition("IsDeleted", {})), OnIsDeleted)
  IN  [q EXCEPT !.where = SubSeq(@, 1, first - 1)]

\* Mutant: the value that did not fit any more is lost.
WithValue_Lost(batches, v, room) ==
  IF batches = <<>> THEN <<{v}>>
  ELSE IF Cardinality(Last(batches)) + 1 > room THEN Append(batches, {})
  ELSE [batches EXCEPT ![Len(batches)] = @ \cup {v}]
\* One value more for the last query or, when it would make that too long, for a new one.
WithValue(batches, v, room) ==
  IF batches = <<>> \/ Cardinality(Last(batches)) + 1 > room THEN Append(batches, {v})
  ELSE [batches EXCEPT ![Len(batches)] = @ \cup {v}]
\* The values of an IN clause in queries that room values fit into; each has one at least.
Batches(values, room) ==
  LET done[i \in 0..Len(values)] == IF i = 0 THEN <<>> ELSE WithValue(done[i - 1], values[i], room)
  IN  done[Len(values)]
FilteredQueries(base, field, values, room) ==
  LET batches == Batches(values, room)
  IN  [i \in DOMAIN batches |-> Merged(base, Condition(field, batches[i]))]

\* What an org answers: all the rows that match, or some of them up to the limit.
AtMost(n, limit) == IF limit = 0 \/ n <= limit THEN n ELSE limit
Answers(q, matching) ==
  {rows \in SUBSET matching : Cardinality(rows) = AtMost(Cardinality(matching), q.limit)}
CountQuery(q) == WithoutLimits(q)
=============================================================================
