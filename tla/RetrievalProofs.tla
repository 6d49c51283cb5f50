--------------------------- MODULE RetrievalProofs ---------------------------
(***************************************************************************)
(* Proofs that the six passes read what they should, for every set of rows *)
(* and lookups, every script, every size of an IN clause and every choice  *)
(* of the rows that a query with a limit brings.                           *)
(***************************************************************************)
EXTENDS Retrieval, SequenceFacts, FunctionTheorems

(***************************************************************************)
(* The queries of a task.                                                  *)
(***************************************************************************)

\* The batches w hold v and what the batches b hold.
Extends(w, b, v) ==
  /\ \E k \in DOMAIN w : v \in w[k]
  /\ \A j \in DOMAIN b : \E k \in DOMAIN w : b[j] \subseteq w[k]

\* When a value is added to the batches nothing is lost.
LEMMA ValueAdded ==
  ASSUME NEW V, NEW b \in Seq(SUBSET V), NEW v \in V, NEW room
  PROVE  WithValue(b, v, room) \in Seq(SUBSET V) /\ Extends(WithValue(b, v, room), b, v)
<1> DEFINE w == WithValue(b, v, room)
<1>0. SUFFICES w \in Seq(SUBSET V) /\ Extends(w, b, v)
  OBVIOUS
<1>1. Len(b) \in Nat /\ DOMAIN b = 1..Len(b) /\ b \in [1..Len(b) -> SUBSET V]
  BY LenProperties
<1>2. CASE w = Append(b, {v})
  <2> HIDE DEF w
  <2>1. w \in Seq(SUBSET V) /\ Len(w) = Len(b) + 1 /\ (\A i \in 1..Len(b) : w[i] = b[i]) /\ w[Len(b) + 1] = {v}
    BY <1>2, AppendProperties
  <2>2. DOMAIN w = 1..(Len(b) + 1)
    BY <2>1, LenProperties
  <2>3. Len(b) + 1 \in DOMAIN w
    BY <2>2, <1>1
  <2>4. \A k \in DOMAIN w : k \in DOMAIN b \/ k = Len(b) + 1
    BY <2>2, <1>1
  <2>5. \A j \in DOMAIN b : j \in DOMAIN w
    BY <2>2, <1>1
  <2>6. QED
    BY <1>1, <2>1, <2>3, <2>4, <2>5 DEF Extends
<1>3. CASE w # Append(b, {v})
  <2>1. b # <<>> /\ w = [b EXCEPT ![Len(b)] = @ \cup {v}]
    BY <1>3 DEF WithValue
  <2>2. Len(b) \in 1..Len(b) /\ b[Len(b)] \cup {v} \in SUBSET V
    BY <2>1, <1>1, EmptySeq
  <2>3. w = [b EXCEPT ![Len(b)] = b[Len(b)] \cup {v}]
    BY <2>1
  <2> HIDE DEF w
  <2>4. w \in Seq(SUBSET V) /\ Len(w) = Len(b)
        /\ \A j \in 1..Len(b) : w[j] = IF j = Len(b) THEN b[Len(b)] \cup {v} ELSE b[j]
    BY <2>2, <2>3, ExceptSeq
  <2>5. DOMAIN w = 1..Len(b)
    BY <2>4, LenProperties
  <2>6. QED
    BY <1>1, <2>2, <2>4, <2>5 DEF Extends
<1>4. QED
  BY <1>2, <1>3

\* Batches of values hold all of them and nothing else.
LEMMA BatchesHoldValues ==
  ASSUME NEW V, NEW values \in Seq(V), NEW room
  PROVE  /\ Batches(values, room) \in Seq(SUBSET V)
         /\ \A i \in DOMAIN values : \E k \in DOMAIN Batches(values, room) : values[i] \in Batches(values, room)[k]
<1> DEFINE A == Seq(SUBSET V)
           n == Len(values)
           step == [p \in Nat \X A |-> IF p[1] \in 1..n THEN WithValue(p[2], values[p[1]], room) ELSE p[2]]
           done == CHOOSE f : f = [i \in 0..n |-> IF i = 0 THEN <<>> ELSE WithValue(f[i - 1], values[i], room)]
<1>1. n \in Nat /\ DOMAIN values = 1..n /\ \A i \in 1..n : values[i] \in V
  BY LenProperties, ElementOfSeq
<1>2. <<>> \in A
  BY EmptySeq
<1>3. step \in [Nat \X A -> A]
  <2>1. \A p \in Nat \X A : p[1] \in 1..n => WithValue(p[2], values[p[1]], room) \in A
    BY <1>1, ValueAdded
  <2>2. QED
    BY <2>1
<1>4. PICK f : Unfolds(f, n, A, <<>>, step)
  <2> HIDE DEF A, step, n
  <2>1. QED
    BY <1>1, <1>2, <1>3, Recursion
<1>5. f = [i \in 0..n |-> IF i = 0 THEN <<>> ELSE WithValue(f[i - 1], values[i], room)]
  <2>1. f \in [0..n -> A] /\ f[0] = <<>> /\ \A i \in 0..(n - 1) : f[i + 1] = step[<<i + 1, f[i]>>]
    BY <1>4 DEF Unfolds
  <2>2. ASSUME NEW i \in 1..n PROVE f[i] = WithValue(f[i - 1], values[i], room)
    <3>1. i - 1 \in 0..(n - 1) /\ (i - 1) + 1 = i /\ i - 1 \in 0..n /\ i \in Nat
      BY <1>1
    <3>2. f[i] = step[<<i, f[i - 1]>>] /\ f[i - 1] \in A
      BY <2>1, <3>1
    <3>3. QED
      BY <3>1, <3>2
  <2> HIDE DEF A, step
  <2>3. \A i \in 0..n : i = 0 \/ i \in 1..n
    BY <1>1
  <2>4. QED
    BY <2>1, <2>2, <2>3
<1>6. done = [i \in 0..n |-> IF i = 0 THEN <<>> ELSE WithValue(done[i - 1], values[i], room)]
  BY <1>5
<1>7. Batches(values, room) = done[n]
  BY DEF Batches
<1> HIDE DEF done
<1>8. done[0] = <<>> /\ \A i \in 1..n : done[i] = WithValue(done[i - 1], values[i], room)
  BY <1>1, <1>6
<1> DEFINE P == {i \in Nat : i <= n => /\ done[i] \in A
                                       /\ \A j \in 1..i : \E k \in DOMAIN done[i] : values[j] \in done[i][k]}
<1>9. 0 \in P
  <2>1. 1..0 = {} /\ done[0] \in A
    BY <1>2, <1>8
  <2>2. QED
    BY <2>1
<1>10. ASSUME NEW i \in Nat, i \in P PROVE i + 1 \in P
  <2> SUFFICES ASSUME i + 1 <= n
               PROVE  /\ done[i + 1] \in A
                      /\ \A j \in 1..(i + 1) : \E k \in DOMAIN done[i + 1] : values[j] \in done[i + 1][k]
    OBVIOUS
  <2>1. done[i] \in A /\ \A j \in 1..i : \E k \in DOMAIN done[i] : values[j] \in done[i][k]
    BY <1>10, <1>1
  <2>2. i + 1 \in 1..n /\ (i + 1) - 1 = i /\ values[i + 1] \in V
    BY <1>1
  <2>3. done[i + 1] = WithValue(done[i], values[i + 1], room)
    BY <1>8, <2>2
  <2>4. done[i + 1] \in A /\ Extends(done[i + 1], done[i], values[i + 1])
    BY <2>1, <2>2, <2>3, ValueAdded
  <2>5. \A j \in 1..(i + 1) : j \in 1..i \/ j = i + 1
    OBVIOUS
  <2>6. QED
    BY <2>1, <2>4, <2>5 DEF Extends
<1> HIDE DEF P
<1>11. n \in P
  BY <1>1, <1>9, <1>10, Induction
<1>12. QED
  BY <1>1, <1>7, <1>11 DEF P

-----------------------------------------------------------------------------
\* Sequences of a set and of sequences

\* A sequence made of a finite set has its elements.
LEMMA Enumerated ==
  ASSUME NEW S, IsFiniteSet(S)
  PROVE  /\ SetToSeq(S) \in Seq(S)
         /\ \A x \in S : \E i \in DOMAIN SetToSeq(S) : SetToSeq(S)[i] = x
<1> DEFINE n == Cardinality(S)
           s == SetToSeq(S)
<1>1. n \in Nat /\ ExistsBijection(1..n, S)
  BY FS_CardinalityType
<1>2. \E f \in [1..n -> S] : IsInjective(f)
  BY <1>1 DEF ExistsBijection, Bijection, Injection, IsInjective
<1>3. s \in [1..n -> S] /\ IsInjective(s)
  BY <1>2 DEF SetToSeq
<1> HIDE DEF s
<1>4. s \in Injection(1..n, S)
  BY <1>3 DEF Injection, IsInjective
<1>5. IsFiniteSet(1..n) /\ Cardinality(1..n) = n
  BY <1>1, FS_Interval
<1>6. s \in Surjection(1..n, S)
  BY <1>4, <1>5, FS_Injection
<1>7. s \in Seq(S) /\ DOMAIN s = 1..n
  BY <1>1, <1>3
<1>8. QED
  BY <1>6, <1>7 DEF Surjection, s

-----------------------------------------------------------------------------
\* What a narrowed query matches

\* The objects of finitely many rows are finitely many.
LEMMA ObjectsAreFinite == IsFiniteSet(Objects)
<1> DEFINE f == [r \in Rows |-> ObjectOf[r]]
<1>1. f \in Surjection(Rows, Objects)
  BY DEF Surjection, Objects
<1>2. QED
  BY <1>1, RowAssumption, FS_Surjection

\* A query with its parts, its conditions from C.
IsShaped(q, C) ==
  /\ q = [object |-> q.object, where |-> q.where, limit |-> q.limit]
  /\ q.where \in Seq(C) /\ q.limit \in Nat

\* A merged condition narrows a query and nothing else.
LEMMA MergedNarrows ==
  ASSUME NEW C, NEW q, IsShaped(q, C), NEW c, NEW side
  PROVE  /\ Merged(q, c).object = q.object /\ Merged(q, c).limit = q.limit
         /\ Merged(q, c) = [object |-> q.object, where |-> Append(q.where, c), limit |-> q.limit]
         /\ \A r : r \in Matching(Merged(q, c), side) <=> r \in Matching(q, side) /\ Passed(c, side, r)
<1> DEFINE w == q.where
           m == Merged(q, c)
<1>1. m = [object |-> q.object, where |-> Append(w, c), limit |-> q.limit]
  BY SMTT(30) DEF Merged, IsShaped
<1>2. m.object = q.object /\ m.limit = q.limit /\ m.where = Append(w, c)
  BY <1>1
<1>3. Len(w) \in Nat /\ DOMAIN w = 1..Len(w) /\ w \in Seq(C)
  BY LenProperties DEF IsShaped
<1>4. /\ Append(w, c) \in Seq(C \cup {c}) /\ Len(Append(w, c)) = Len(w) + 1
      /\ \A i \in 1..Len(w) : Append(w, c)[i] = w[i]
      /\ Append(w, c)[Len(w) + 1] = c
  <2>1. w \in Seq(C \cup {c}) /\ c \in C \cup {c}
    BY <1>3, SeqMonotonic
  <2>2. QED
    BY <2>1, AppendProperties
<1>5. DOMAIN Append(w, c) = 1..(Len(w) + 1)
  BY <1>4, LenProperties
<1> HIDE DEF m, w
<1>6. ASSUME NEW r
      PROVE  (\A i \in DOMAIN m.where : Passed(m.where[i], side, r))
             <=> (\A i \in DOMAIN w : Passed(w[i], side, r)) /\ Passed(c, side, r)
  <2>1. \A i \in 1..(Len(w) + 1) : i \in 1..Len(w) \/ i = Len(w) + 1
    BY <1>3
  <2>2. \A i \in 1..Len(w) : i \in 1..(Len(w) + 1)
    BY <1>3
  <2>3. Len(w) + 1 \in 1..(Len(w) + 1)
    BY <1>3
  <2>4. QED
    BY <1>2, <1>3, <1>4, <1>5, <2>1, <2>2, <2>3
<1>7. \A r : r \in Matching(m, side) <=> r \in Matching(q, side) /\ Passed(c, side, r)
  BY <1>2, <1>6 DEF Matching, w
<1>8. QED
  BY <1>1, <1>2, <1>7 DEF m, w

\* The conditions of a script's query
Given == {Condition("Filter", {}), Condition("IsDeleted", {})}

\* A condition merged into a query leaves its object and its limit alone.
LEMMA MergedQuery ==
  ASSUME NEW o, NEW where, NEW limit, NEW c, NEW q,
         q = [object |-> o, where |-> where, limit |-> limit]
  PROVE  Merged(q, c) = [object |-> o, where |-> Append(where, c), limit |-> limit]
<1>1. q.where = where
  OBVIOUS
<1>2. [q EXCEPT !.where = Append(where, c)] = [object |-> o, where |-> Append(where, c), limit |-> limit]
  OBVIOUS
<1>3. QED
  BY <1>1, <1>2 DEF Merged

\* The source query of an object has its name and its limit.
LEMMA SourceQueryShaped ==
  ASSUME script \in Scenarios, NEW o \in Objects
  PROVE  /\ IsShaped(SourceQuery(o), Given \cup {Condition("RecordsFilter", {})})
         /\ SourceQuery(o).object = o /\ SourceQuery(o).limit = script.query[o].limit
<1> DEFINE q == script.query[o]
           c == Condition("RecordsFilter", {})
           D == Given \cup {c}
<1>1. IsQuery(q) /\ q.object = o
  BY ScenarioAssumption DEF IsScenario
<1>2. q = [object |-> o, where |-> q.where, limit |-> q.limit] /\ q.limit \in Nat /\ q.where \in Seq(Given)
  BY <1>1 DEF IsQuery, Given
<1>3. q.where \in Seq(D)
  BY <1>2, SeqMonotonic
<1>4. Append(q.where, c) \in Seq(D)
  <2>1. c \in D
    OBVIOUS
  <2> HIDE DEF q, c, D
  <2>2. QED
    BY <1>3, <2>1, AppendProperties
<1> HIDE DEF q, D, c
<1>5. SourceQuery(o) = q \/ SourceQuery(o) = Merged(q, c)
  BY DEF SourceQuery, q, c
<1>6. CASE SourceQuery(o) = q
  BY <1>2, <1>3, <1>6 DEF IsShaped, D, q, c
<1>7. CASE SourceQuery(o) = Merged(q, c)
  <2>1. Merged(q, c) = [object |-> o, where |-> Append(q.where, c), limit |-> q.limit]
    BY <1>2, MergedQuery
  <2> DEFINE t == SourceQuery(o)
  <2>2. t = [object |-> o, where |-> Append(q.where, c), limit |-> q.limit]
    BY <1>7, <2>1
  <2> HIDE DEF t
  <2>3. t.object = o /\ t.where = Append(q.where, c) /\ t.limit = q.limit /\ q.limit \in Nat
    BY <1>2, <2>2
  <2>4. IsShaped(t, D)
    BY <1>4, <2>2, <2>3 DEF IsShaped
  <2>5. QED
    BY <2>3, <2>4 DEF D, q, c, t
<1>8. QED
  BY <1>5, <1>6, <1>7

\* WithoutIsDeleted keeps a beginning of the conditions, and none of them is on IsDeleted.
LEMMA WithoutIsDeletedKeeps ==
  ASSUME NEW q, IsShaped(q, Given)
  PROVE  /\ WithoutIsDeleted(q).object = q.object /\ WithoutIsDeleted(q).limit = q.limit
         /\ IsShaped(WithoutIsDeleted(q), Given)
         /\ \A i \in DOMAIN WithoutIsDeleted(q).where : WithoutIsDeleted(q).where[i].on = "Filter"
<1> DEFINE d == Condition("IsDeleted", {})
           w == Append(q.where, d)
           I == {i \in 1..Len(w) : w[i].on = "IsDeleted"}
           n == Len(q.where)
<1>1. n \in Nat /\ q.where \in Seq(Given) /\ d \in Given /\ DOMAIN q.where = 1..n
  BY LenProperties DEF IsShaped, Given
<1>2. w \in Seq(Given) /\ Len(w) = n + 1 /\ (\A i \in 1..n : w[i] = q.where[i]) /\ w[n + 1] = d
  <2> HIDE DEF d
  <2>1. QED
    BY <1>1, AppendProperties
<1>3. d.on = "IsDeleted"
  BY DEF Condition
<1>4. n + 1 \in I
  BY <1>1, <1>2, <1>3
<1>5. PICK m \in I : \A i \in I : m <= i
  <2>1. I \subseteq Nat /\ I # {}
    BY <1>4
  <2>2. QED
    BY <2>1, LeastNatural
<1>6. SelectInSeq(w, LAMBDA c : c.on = "IsDeleted") = m
  <2>1. \A k \in I : (\A i \in I : k <= i) => k = m
    BY <1>5
  <2>2. (CHOOSE k \in I : \A i \in I : k <= i) = m
    <3> HIDE DEF I
    <3>1. QED
      BY <1>5, <2>1
  <2>3. QED
    BY <1>4, <2>2 DEF SelectInSeq, Min
<1>7. WithoutIsDeleted(q) = [q EXCEPT !.where = SubSeq(@, 1, m - 1)]
  BY <1>6 DEF WithoutIsDeleted
<1>8. m - 1 \in 0..n /\ \A i \in 1..(m - 1) : w[i].on # "IsDeleted"
  BY <1>1, <1>2, <1>4, <1>5
<1> HIDE DEF I, w
<1> DEFINE s == SubSeq(q.where, 1, m - 1)
<1>9. s \in Seq(Given) /\ Len(s) = m - 1 /\ \A i \in 1..(m - 1) : s[i] = q.where[i]
  <2>1. \A i \in 1..(m - 1) : i \in 1..n /\ q.where[i] \in Given
    BY <1>1, <1>8, ElementOfSeq
  <2>2. s = [i \in 1..(m - 1) |-> q.where[i]]
    BY <1>1, <1>8
  <2> HIDE DEF s
  <2>3. s \in [1..(m - 1) -> Given] /\ m - 1 \in Nat
    BY <1>8, <2>1, <2>2
  <2>4. s \in Seq(Given) /\ Len(s) = m - 1
    BY <2>3
  <2>5. QED
    BY <2>2, <2>4
<1>10. \A i \in 1..(m - 1) : s[i].on = "Filter"
  <2>1. \A c \in Given : c.on = "Filter" \/ c.on = "IsDeleted"
    BY DEF Given, Condition
  <2>2. \A i \in 1..(m - 1) : i \in 1..n /\ q.where[i] \in Given
    BY <1>1, <1>8, ElementOfSeq
  <2> HIDE DEF s
  <2>3. QED
    BY <1>2, <1>8, <1>9, <2>1, <2>2
<1> HIDE DEF s
<1>11. WithoutIsDeleted(q) = [object |-> q.object, where |-> s, limit |-> q.limit]
  BY <1>7 DEF IsShaped, s
<1>12. DOMAIN s = 1..(m - 1)
  BY <1>9, LenProperties
<1>13. q.limit \in Nat
  BY DEF IsShaped
<1>14. QED
  BY <1>9, <1>10, <1>11, <1>12, <1>13 DEF IsShaped

\* The target query has its object, and its limit unless it asks for everything; it brings
\* every row of the filter.
LEMMA TargetQueryShaped ==
  ASSUME script \in Scenarios, NEW o \in Objects
  PROVE  /\ IsShaped(TargetQuery(o), Given) /\ TargetQuery(o).object = o
         /\ TargetQuery(o).limit = IF IgnoresFilter(o) THEN 0 ELSE script.query[o].limit
         /\ \A r \in InTarget : (ObjectOf[r] = o /\ (IgnoresFilter(o) \/ r \in TargetScope))
              => r \in Matching(TargetQuery(o), "target")
<1> DEFINE q == script.query[o]
           t == TargetQuery(o)
<1>1. IsQuery(q) /\ q.object = o
  BY ScenarioAssumption DEF IsScenario
<1>2. q = [object |-> o, where |-> q.where, limit |-> q.limit] /\ IsShaped(q, Given)
  BY <1>1 DEF IsQuery, Given, IsShaped
<1>3. CASE IgnoresFilter(o)
  <2>1. t = [object |-> o, where |-> <<>>, limit |-> 0]
    <3>1. t = WithoutLimits(WithoutWhere(q))
      BY <1>3 DEF TargetQuery, IgnoresFilter
    <3> HIDE DEF t, q
    <3>2. WithoutWhere(q) = [object |-> o, where |-> <<>>, limit |-> q.limit]
      BY <1>2 DEF WithoutWhere
    <3>3. QED
      BY <3>1, <3>2 DEF WithoutLimits
  <2>2. <<>> \in Seq(Given) /\ DOMAIN <<>> = {}
    BY EmptySeq
  <2>3. t.object = o /\ t.where = <<>> /\ t.limit = 0
    BY <2>1
  <2> HIDE DEF t
  <2>4. \A r \in InTarget : ObjectOf[r] = o => r \in Matching(t, "target")
    BY <2>2, <2>3 DEF Matching, Of
  <2>5. QED
    BY <1>3, <2>1, <2>2, <2>3, <2>4 DEF IsShaped, t
<1>4. CASE ~IgnoresFilter(o)
  <2>1. t = WithoutIsDeleted(q)
    BY <1>4 DEF TargetQuery, IgnoresFilter
  <2>2. /\ WithoutIsDeleted(q).object = q.object /\ WithoutIsDeleted(q).limit = q.limit
        /\ IsShaped(WithoutIsDeleted(q), Given)
        /\ \A i \in DOMAIN WithoutIsDeleted(q).where : WithoutIsDeleted(q).where[i].on = "Filter"
    <3> HIDE DEF q
    <3>1. QED
      BY <1>2, WithoutIsDeletedKeeps
  <2> HIDE DEF t
  <2>3. \A r \in TargetScope : \A c : c.on = "Filter" => Passed(c, "target", r)
    BY DEF Passed
  <2>4. \A r \in InTarget : (ObjectOf[r] = o /\ r \in TargetScope) => r \in Matching(t, "target")
    BY <1>1, <2>1, <2>2, <2>3 DEF Matching, Of
  <2>5. QED
    BY <1>1, <1>4, <2>1, <2>2, <2>4 DEF t
<1>5. QED
  BY <1>3, <1>4

-----------------------------------------------------------------------------
\* What queries bring

\* The results of queries, one after the other
LEMMA ResultsUnfold ==
  ASSUME NEW Q, NEW queries \in Seq(Q), NEW side
  PROVE  \E found \in [0..Len(queries) -> SUBSET SUBSET Rows] :
           /\ found[0] = {{}} /\ Results(queries, side) = found[Len(queries)]
           /\ \A i \in 1..Len(queries) : found[i] = Joined(found[i - 1], queries[i], side)
<1> DEFINE A == SUBSET SUBSET Rows
           n == Len(queries)
           step == [p \in Nat \X A |-> IF p[1] \in 1..n THEN Joined(p[2], queries[p[1]], side) ELSE p[2]]
           done == CHOOSE f : f = [i \in 0..n |-> IF i = 0 THEN {{}} ELSE Joined(f[i - 1], queries[i], side)]
<1>1. n \in Nat
  BY LenProperties
<1>2. step \in [Nat \X A -> A]
  <2>1. \A q : Matching(q, side) \subseteq Rows
    BY RowAssumption DEF Matching, Of
  <2>2. \A q, x : x \in A => Joined(x, q, side) \in A
    BY <2>1 DEF Joined, Answers
  <2>3. QED
    BY <2>2
<1>3. {{}} \in A
  OBVIOUS
<1>4. PICK f : Unfolds(f, n, A, {{}}, step)
  <2> HIDE DEF A, step, n
  <2>1. QED
    BY <1>1, <1>2, <1>3, Recursion
<1>5. f \in [0..n -> A] /\ f[0] = {{}} /\ \A i \in 0..(n - 1) : f[i + 1] = step[<<i + 1, f[i]>>]
  BY <1>4 DEF Unfolds
<1>6. ASSUME NEW i \in 1..n PROVE f[i] = Joined(f[i - 1], queries[i], side)
  <2>1. i - 1 \in 0..(n - 1) /\ (i - 1) + 1 = i /\ i - 1 \in 0..n /\ i \in Nat
    BY <1>1
  <2>2. f[i] = step[<<i, f[i - 1]>>] /\ f[i - 1] \in A
    BY <1>5, <2>1
  <2>3. QED
    BY <2>1, <2>2
<1> HIDE DEF A, step
<1>7. f = [i \in 0..n |-> IF i = 0 THEN {{}} ELSE Joined(f[i - 1], queries[i], side)]
  <2>1. \A i \in 0..n : i = 0 \/ i \in 1..n
    BY <1>1
  <2>2. f = [i \in 0..n |-> f[i]]
    BY <1>5
  <2>3. QED
    BY <1>5, <1>6, <2>1, <2>2
<1>8. done = [i \in 0..n |-> IF i = 0 THEN {{}} ELSE Joined(done[i - 1], queries[i], side)]
  BY <1>7
<1>9. Results(queries, side) = done[n]
  BY DEF Results
<1> HIDE DEF done, n
<1>11. done[0] = {{}} /\ \A i \in 1..n : done[i] = Joined(done[i - 1], queries[i], side)
  <2>1. 0 \in 0..n /\ \A i \in 1..n : i \in 0..n /\ i # 0
    BY <1>1
  <2>2. QED
    BY <1>8, <2>1
<1> DEFINE P == {i \in Nat : i <= n => done[i] = f[i]}
<1>12. 0 \in P
  BY <1>5, <1>11
<1>13. ASSUME NEW i \in Nat, i \in P PROVE i + 1 \in P
  <2> SUFFICES ASSUME i + 1 <= n PROVE done[i + 1] = f[i + 1]
    OBVIOUS
  <2>1. done[i] = f[i]
    BY <1>1, <1>13
  <2>2. i + 1 \in 1..n /\ (i + 1) - 1 = i
    BY <1>1
  <2>3. QED
    BY <1>6, <1>11, <2>1, <2>2
<1> HIDE DEF P
<1>14. \A i \in Nat : i \in P
  BY <1>12, <1>13, Induction
<1>15. done[n] = f[n]
  BY <1>1, <1>14 DEF P
<1>16. f \in [0..n -> SUBSET SUBSET Rows]
  BY <1>5 DEF A
<1>17. QED
  BY <1>5, <1>6, <1>9, <1>15, <1>16 DEF n

\* One query brings one of its answers.
LEMMA OneResult ==
  ASSUME NEW q, NEW side, NEW rows \in Results(<<q>>, side)
  PROVE  rows \in Answers(q, Matching(q, side))
<1> DEFINE s == <<q>>
<1>1. s \in Seq({q}) /\ Len(s) = 1 /\ s[1] = q /\ rows \in Results(s, side)
  OBVIOUS
<1> HIDE DEF s
<1>2. PICK found \in [0..Len(s) -> SUBSET SUBSET Rows] :
        /\ found[0] = {{}} /\ Results(s, side) = found[Len(s)]
        /\ \A i \in 1..Len(s) : found[i] = Joined(found[i - 1], s[i], side)
  BY <1>1, ResultsUnfold
<1>3. 1 \in 1..1 /\ 1 - 1 = 0
  OBVIOUS
<1>4. rows \in Joined({{}}, q, side)
  BY <1>1, <1>2, <1>3
<1>5. QED
  BY <1>4 DEF Joined

\* Rows that queries bring match one of them; without a limit a query brings all it matches.
LEMMA ResultsMatch ==
  ASSUME NEW Q, NEW queries \in Seq(Q), NEW side, NEW rows \in Results(queries, side)
  PROVE  /\ rows \subseteq Rows
         /\ \A r \in rows : \E i \in DOMAIN queries : r \in Matching(queries[i], side)
         /\ \A i \in DOMAIN queries : queries[i].limit = 0 => Matching(queries[i], side) \subseteq rows
<1> DEFINE n == Len(queries)
           M(i) == Matching(queries[i], side)
<1>1. n \in Nat /\ DOMAIN queries = 1..n
  BY LenProperties
<1>2. PICK found \in [0..n -> SUBSET SUBSET Rows] :
        found[0] = {{}} /\ Results(queries, side) = found[n] /\ \A i \in 1..n : found[i] = Joined(found[i - 1], queries[i], side)
  BY ResultsUnfold
<1> DEFINE Fine(x, i) ==
             /\ \A r \in x : \E k \in 1..i : r \in M(k)
             /\ \A k \in 1..i : queries[k].limit = 0 => M(k) \subseteq x
           P == {i \in Nat : i <= n => \A x \in found[i] : Fine(x, i)}
<1>3. 0 \in P
  <2>1. 1..0 = {} /\ found[0] = {{}}
    BY <1>2
  <2>2. Fine({}, 0)
    BY <2>1
  <2> HIDE DEF Fine
  <2>3. QED
    BY <2>1, <2>2
<1>4. ASSUME NEW i \in Nat, i \in P PROVE i + 1 \in P
  <2> SUFFICES ASSUME i + 1 <= n, NEW x \in found[i + 1] PROVE Fine(x, i + 1)
    OBVIOUS
  <2>1. i + 1 \in 1..n /\ (i + 1) - 1 = i
    BY <1>1
  <2>2. found[i + 1] = Joined(found[i], queries[i + 1], side)
    BY <1>2, <2>1
  <2>3. PICK y \in found[i], z \in Answers(queries[i + 1], M(i + 1)) : x = y \cup z
    BY <2>2 DEF Joined
  <2>4. Fine(y, i)
    BY <1>1, <1>4
  <2>5. z \subseteq M(i + 1) /\ Cardinality(z) = AtMost(Cardinality(M(i + 1)), queries[i + 1].limit)
    BY <2>3 DEF Answers
  <2>6. queries[i + 1].limit = 0 => z = M(i + 1)
    <3>1. M(i + 1) \in SUBSET Rows
      BY RowAssumption DEF Matching, Of
    <3>2. IsFiniteSet(M(i + 1))
      BY <3>1, RowAssumption, FS_Subset
    <3>3. queries[i + 1].limit = 0 => Cardinality(z) = Cardinality(M(i + 1))
      BY <2>5 DEF AtMost
    <3> HIDE DEF M
    <3>4. QED
      BY <2>5, <3>2, <3>3, FS_Subset
  <2>7. \A k \in 1..(i + 1) : k \in 1..i \/ k = i + 1
    OBVIOUS
  <2>8. \A k \in 1..i : k \in 1..(i + 1)
    OBVIOUS
  <2>9. i + 1 \in 1..(i + 1)
    OBVIOUS
  <2> HIDE DEF M
  <2>10. QED
    BY <2>3, <2>4, <2>5, <2>6, <2>7, <2>8, <2>9
<1> HIDE DEF P
<1>5. n \in P
  BY <1>1, <1>3, <1>4, Induction
<1>6. Fine(rows, n)
  BY <1>1, <1>2, <1>5 DEF P
<1>7. rows \subseteq Rows
  BY <1>1, <1>2
<1>8. QED
  BY <1>1, <1>6, <1>7

\* The query of an object narrowed to values of a field
Narrowed(o, side, f, batch) == Merged(QueryFor(o, side), Condition(f, batch))
\* The values of a field
ValuesOf(values, f) == {v[2] : v \in {w \in values : w[1] = f}}
\* The queries for values of a field, and for values of several fields
NarrowedTo(o, side, f, V) == {Narrowed(o, side, f, batch) : batch \in SUBSET V}
NarrowedQueries(o, side, values) == UNION {NarrowedTo(o, side, f, ValuesOf(values, f)) : f \in {v[1] : v \in values}}

\* The queries for the values of one field
LEMMA FilteredQueriesAre ==
  ASSUME NEW o, NEW side, NEW f, NEW V, NEW values \in Seq(V), NEW room
  PROVE  /\ FilteredQueries(QueryFor(o, side), f, values, room) \in Seq(NarrowedTo(o, side, f, V))
         /\ \A i \in DOMAIN values : \E k \in DOMAIN FilteredQueries(QueryFor(o, side), f, values, room), batch \in SUBSET V :
              /\ values[i] \in batch
              /\ FilteredQueries(QueryFor(o, side), f, values, room)[k] = Narrowed(o, side, f, batch)
<1> DEFINE b == Batches(values, room)
           q == FilteredQueries(QueryFor(o, side), f, values, room)
<1>1. b \in Seq(SUBSET V) /\ \A i \in DOMAIN values : \E k \in DOMAIN b : values[i] \in b[k]
  BY BatchesHoldValues
<1>2. q = [k \in DOMAIN b |-> Narrowed(o, side, f, b[k])]
  BY DEF FilteredQueries, Narrowed
<1> HIDE DEF b, q
<1>3. Len(b) \in Nat /\ DOMAIN b = 1..Len(b) /\ \A k \in 1..Len(b) : b[k] \in SUBSET V
  BY <1>1, LenProperties, ElementOfSeq
<1>4. \A k \in 1..Len(b) : Narrowed(o, side, f, b[k]) \in NarrowedTo(o, side, f, V)
  BY <1>3 DEF NarrowedTo
<1>5. q \in Seq(NarrowedTo(o, side, f, V))
  BY <1>2, <1>3, <1>4
<1>6. ASSUME NEW i \in DOMAIN values
      PROVE  \E k \in DOMAIN q, batch \in SUBSET V : values[i] \in batch /\ q[k] = Narrowed(o, side, f, batch)
  <2>1. PICK k \in DOMAIN b : values[i] \in b[k]
    BY <1>1
  <2>2. k \in DOMAIN q /\ q[k] = Narrowed(o, side, f, b[k]) /\ b[k] \in SUBSET V
    BY <1>2, <1>3
  <2>3. QED
    BY <2>1, <2>2
<1>7. QED
  BY <1>5, <1>6 DEF q

\* The queries for values ask for these values and no other, and for each of them.
LEMMA InQueriesAre ==
  ASSUME NEW o, NEW side, NEW values, IsFiniteSet(values)
  PROVE  /\ InQueries(o, values, side) \in Seq(NarrowedQueries(o, side, values))
         /\ \A v \in values : \E j \in DOMAIN InQueries(o, values, side), batch \in SUBSET ValuesOf(values, v[1]) :
              v[2] \in batch /\ InQueries(o, values, side)[j] = Narrowed(o, side, v[1], batch)
<1> DEFINE F == {v[1] : v \in values}
           fields == SetToSeq(F)
           Q == NarrowedQueries(o, side, values)
           seqs == [i \in DOMAIN fields |->
                      FilteredQueries(QueryFor(o, side), fields[i], SetToSeq(ValuesOf(values, fields[i])), script.room)]
<1>1. InQueries(o, values, side) = FlattenSeq(seqs)
  BY DEF InQueries, ValuesOf
<1>2. IsFiniteSet(F)
  <2> DEFINE g == [v \in values |-> v[1]]
  <2>1. g \in Surjection(values, F)
    BY DEF Surjection
  <2>2. QED
    BY <2>1, FS_Surjection
<1>3. ASSUME NEW f PROVE IsFiniteSet(ValuesOf(values, f))
  <2> DEFINE W == {w \in values : w[1] = f}
             g == [v \in W |-> v[2]]
  <2>1. IsFiniteSet(W)
    BY FS_Subset
  <2>2. g \in Surjection(W, ValuesOf(values, f))
    BY DEF Surjection, ValuesOf
  <2> HIDE DEF g, W
  <2>3. QED
    BY <2>1, <2>2, FS_Surjection
<1>4. fields \in Seq(F) /\ \A f \in F : \E i \in DOMAIN fields : fields[i] = f
  BY <1>2, Enumerated
<1> HIDE DEF fields
<1>5. ASSUME NEW f \in F
      PROVE  /\ FilteredQueries(QueryFor(o, side), f, SetToSeq(ValuesOf(values, f)), script.room) \in Seq(Q)
             /\ \A x \in ValuesOf(values, f) :
                  \E k \in DOMAIN FilteredQueries(QueryFor(o, side), f, SetToSeq(ValuesOf(values, f)), script.room),
                     batch \in SUBSET ValuesOf(values, f) :
                    x \in batch /\ FilteredQueries(QueryFor(o, side), f, SetToSeq(ValuesOf(values, f)), script.room)[k]
                                   = Narrowed(o, side, f, batch)
  <2> DEFINE V == ValuesOf(values, f)
             s == SetToSeq(V)
             q == FilteredQueries(QueryFor(o, side), f, s, script.room)
             N == NarrowedTo(o, side, f, V)
  <2>1. s \in Seq(V) /\ \A x \in V : \E i \in DOMAIN s : s[i] = x
    BY <1>3, Enumerated
  <2> HIDE DEF V, s
  <2>2. /\ q \in Seq(N)
        /\ \A i \in DOMAIN s : \E k \in DOMAIN q, batch \in SUBSET V : s[i] \in batch /\ q[k] = Narrowed(o, side, f, batch)
    BY <2>1, FilteredQueriesAre
  <2> HIDE DEF q
  <2>3. N \subseteq Q
    BY DEF NarrowedQueries, V
  <2> HIDE DEF N, Q
  <2>4. q \in Seq(Q)
    BY <2>2, <2>3, SeqMonotonic
  <2>5. \A x \in V : \E k \in DOMAIN q, batch \in SUBSET V : x \in batch /\ q[k] = Narrowed(o, side, f, batch)
    BY <2>1, <2>2
  <2>6. QED
    BY <2>4, <2>5 DEF V, s, q
<1> HIDE DEF Q
<1>6. seqs \in Seq(Seq(Q))
  <2>1. Len(fields) \in Nat /\ DOMAIN fields = 1..Len(fields) /\ \A i \in 1..Len(fields) : fields[i] \in F
    BY <1>4, LenProperties, ElementOfSeq
  <2>2. \A i \in 1..Len(fields) : seqs[i] \in Seq(Q)
    BY <1>5, <2>1
  <2>3. seqs = [i \in 1..Len(fields) |-> seqs[i]]
    BY <2>1
  <2> HIDE DEF seqs
  <2>4. seqs \in [1..Len(fields) -> Seq(Q)]
    BY <2>2, <2>3
  <2>5. QED
    BY <2>1, <2>4
<1>7. /\ FlattenSeq(seqs) \in Seq(Q)
      /\ \A i \in DOMAIN seqs : \A k \in DOMAIN seqs[i] : \E j \in DOMAIN FlattenSeq(seqs) : FlattenSeq(seqs)[j] = seqs[i][k]
  <2> HIDE DEF seqs
  <2>1. QED
    BY <1>6, Flattened
<1>8. ASSUME NEW v \in values
      PROVE  \E j \in DOMAIN FlattenSeq(seqs), batch \in SUBSET ValuesOf(values, v[1]) :
               v[2] \in batch /\ FlattenSeq(seqs)[j] = Narrowed(o, side, v[1], batch)
  <2>1. v[1] \in F /\ v[2] \in ValuesOf(values, v[1])
    BY DEF ValuesOf
  <2>2. PICK i \in DOMAIN fields : fields[i] = v[1]
    BY <1>4, <2>1
  <2>3. seqs[i] = FilteredQueries(QueryFor(o, side), v[1], SetToSeq(ValuesOf(values, v[1])), script.room) /\ i \in DOMAIN seqs
    BY <2>2
  <2> HIDE DEF seqs, F
  <2>4. PICK k \in DOMAIN seqs[i], batch \in SUBSET ValuesOf(values, v[1]) :
          v[2] \in batch /\ seqs[i][k] = Narrowed(o, side, v[1], batch)
    BY <1>5, <2>1, <2>3
  <2>5. QED
    BY <1>7, <2>3, <2>4
<1> HIDE DEF seqs, F
<1>9. QED
  BY <1>1, <1>7, <1>8 DEF Q

-----------------------------------------------------------------------------
(***************************************************************************)
(* The inductive invariant.  Its parts say what is true of a task once a   *)
(* pass is done with it, and of a row since the pass that read it.         *)
(***************************************************************************)

\* The objects that have a task
Tasked == ToSet(script.tasks)
\* Pass p is done with o.
Visited(p, o) == pass > p \/ (pass = p /\ \E k \in 1..(at - 1) : TasksOf(p)[k] = o)

\* Types; the passes end with 7.
TypeOK ==
  /\ script \in Scenarios
  /\ link \subseteq {l \in Rows \X Rows : <<ObjectOf[l[1]], ObjectOf[l[2]]>> \in script.lookups}
  /\ scope \subseteq Rows
  /\ pass \in 0..7 /\ (pass = 7 \/ at \in 1..Len(TasksOf(pass)))
  /\ counts \in [Objects -> [Sides -> Nat]]
  /\ source \subseteq Rows /\ target \subseteq Rows
  /\ first \in [Rows -> 0..6]

\* What is read are rows of tasks that match the query of their object.
SourceMatches ==
  \A r \in source : LET o == ObjectOf[r] IN
    o \in Tasked /\ ~HasNoSource(o) /\ (o \notin script.csv => r \in Matching(SourceQuery(o), "source"))
\* So are the rows of the target.
TargetMatches ==
  \A r \in target : LET o == ObjectOf[r] IN o \in Tasked /\ r \in Matching(TargetQuery(o), "target")

\* A set of source rows that holds those read on their own and all that are linked with
\* one of its rows is the whole source.
Roots == {r \in source : ProcessAllSource(ObjectOf[r]) \/ ObjectOf[r] \in script.csv}
Connected == \A rows \in SUBSET source : (Roots \subseteq rows /\ Neighbours(rows) \subseteq rows) => source \subseteq rows

\* The first pass reads the objects processed in full; no later one adds to them.
SourceInFull ==
  \A o \in Tasked \ script.csv : (ProcessAllSource(o) /\ ~HasNoSource(o)) =>
    IF Visited(1, o) THEN Of(o, source) \in Answers(SourceQuery(o), Matching(SourceQuery(o), "source"))
    ELSE Of(o, source) = {}
\* It reads the files, too.
FilesRead == \A o \in Tasked \cap script.csv : (Visited(1, o) /\ ~HasNoSource(o)) => FileRows(o) \subseteq source
\* The last pass reads the target in full, and no other does.
TargetInFull ==
  \A o \in Tasked :
    IF Visited(6, o)
    THEN (FullTarget(o) /\ ~HasNoTarget(o)) =>
           Of(o, target) \in Answers(TargetQuery(o), Matching(TargetQuery(o), "target"))
    ELSE Of(o, target) = {}

\* A count that did not fail is that of the query, in every state after it was taken.
CountsTaken ==
  \A o \in Objects, side \in Sides :
    IF o \in Tasked /\ Visited(0, o)
    THEN <<o, side>> \notin failed => counts[o][side] = Counted(o, side, FALSE)
    ELSE counts[o][side] = 0

\* External ids are asked for by the last pass only.
ExternalIdsCached == \A c \in cache : c[2] = "ExternalId" => c[1] \in Tasked /\ Visited(6, c[1])
\* A cached value has brought what it stands for: the row with this Id,
IdsCached == \A c \in cache : (c[2] = "Id" /\ ObjectOf[c[3]] = c[1] /\ IsWanted(c[3])) => c[3] \in source
\* or the children of this parent.
ParentsCached ==
  \A c \in cache : c[2] \in Objects =>
    \A r \in Of(c[1], Rows) : (<<r, c[3]>> \in link /\ IsWanted(r)) => r \in source

\* The source rows whose copies the job has to find, and the copies found
ToFind(r) ==
  LET o == ObjectOf[r]
  IN /\ ~HasNoTarget(o)
     /\ IgnoresFilter(o) \/ (Unlimited(o) /\ r \in TargetScope)
     /\ ~(o \in script.byId /\ script.operation[o] = "DeleteHierarchy")
\* They are asked for in full or by external ids; for other objects nothing is asked.
IsAsked(o) == KeyIsSimple(o) \/ FullTarget(o)
TargetFound ==
  \A r \in source \cap InTarget : (Visited(6, ObjectOf[r]) /\ ToFind(r) /\ IsAsked(ObjectOf[r])) => r \in target

\* A row is in the source since the pass noted for it.
FirstRead == \A r \in Rows : (first[r] > 0 <=> r \in source) /\ first[r] <= pass
\* A reversed pass leaves no parent behind of a row read by an earlier pass,
ParentsRead ==
  \A l \in link, p \in 4..5 :
    (IsWanted(l[2]) /\ Visited(p, ObjectOf[l[2]]) /\ first[l[1]] \in 1..(p - 1)) => first[l[2]] \in 1..p
\* the second backward pass no child of a row read by the first two.
ChildrenRead ==
  \A l \in link :
    (/\ Visited(3, ObjectOf[l[1]]) /\ first[l[2]] \in 1..2 /\ IsWanted(l[1])
     /\ IndexOf(ObjectOf[l[2]]) < IndexOf(ObjectOf[l[1]]) /\ ObjectOf[l[2]] \notin script.special
     /\ MayNarrow(<<ObjectOf[l[1]], ObjectOf[l[2]]>>)) => l[1] \in source

\* A value of an IN clause that a row meets: a parent by its lookup, or the row itself
Meets(v, r) == IF v[1] \in Objects THEN <<r, v[2]>> \in link ELSE r = v[2]
Fields == Objects \cup {"Id", "ExternalId"}

\* An IN clause holds for the rows that meet one of its values.
LEMMA PassedByValue ==
  ASSUME NEW f \in Fields, NEW batch, NEW side, NEW r
  PROVE  Passed(Condition(f, batch), side, r) <=> \E v \in batch : Meets(<<f, v>>, r)
<1> DEFINE c == Condition(f, batch)
<1>1. c.on = f /\ c.values = batch
  BY DEF Condition
<1>2. c.on \notin {"Filter", "RecordsFilter", "IsDeleted"}
  BY <1>1, NameAssumption DEF Fields
<1>3. CASE f \in Objects
  <2>1. f \notin {"Id", "ExternalId"}
    BY <1>3, NameAssumption
  <2> HIDE DEF c
  <2>2. Passed(c, side, r) <=> \E v \in batch : <<r, v>> \in link
    BY <1>1, <1>2, <2>1 DEF Passed
  <2>3. \A v : Meets(<<f, v>>, r) <=> <<r, v>> \in link
    BY <1>3 DEF Meets
  <2>4. QED
    BY <2>2, <2>3 DEF c
<1>4. CASE f \notin Objects
  <2>1. f \in {"Id", "ExternalId"}
    BY <1>4 DEF Fields
  <2> HIDE DEF c
  <2>2. Passed(c, side, r) <=> r \in batch
    BY <1>1, <1>2, <2>1 DEF Passed
  <2>3. \A v : Meets(<<f, v>>, r) <=> r = v
    BY <1>4 DEF Meets
  <2>4. QED
    BY <2>2, <2>3 DEF c
<1>5. QED
  BY <1>3, <1>4

\* What the IN clauses for some values bring: rows that meet one of them, and without a
\* limit all of these that match the query of the object.
LEMMA InQueriesBring ==
  ASSUME script \in Scenarios, NEW o \in Objects, NEW side \in Sides, NEW values \in SUBSET (Fields \X Rows),
         NEW rows \in Results(InQueries(o, values, side), side)
  PROVE  /\ \A r \in rows : /\ r \in Rows /\ ObjectOf[r] = o /\ r \in Matching(QueryFor(o, side), side)
                            /\ \E v \in values : Meets(v, r)
         /\ QueryFor(o, side).limit = 0 =>
              \A v \in values, r \in Matching(QueryFor(o, side), side) : Meets(v, r) => r \in rows
<1> DEFINE q == QueryFor(o, side)
           queries == InQueries(o, values, side)
           N == NarrowedQueries(o, side, values)
<1>1. IsFiniteSet(values)
  <2>1. IsFiniteSet({"Id", "ExternalId"})
    <3>1. IsFiniteSet({"Id"}) /\ {"Id", "ExternalId"} = {"Id"} \cup {"ExternalId"}
      BY FS_Singleton
    <3>2. QED
      BY <3>1, FS_AddElement
  <2>2. IsFiniteSet(Fields)
    BY <2>1, ObjectsAreFinite, FS_Union DEF Fields
  <2>3. IsFiniteSet(Fields \X Rows)
    BY <2>2, RowAssumption, FS_Product
  <2>4. QED
    BY <2>3, FS_Subset
<1>2. \E C : IsShaped(q, C) /\ q.object = o
  BY SourceQueryShaped, TargetQueryShaped DEF QueryFor, Sides
<1>3. ASSUME NEW f, NEW batch
      PROVE  /\ Narrowed(o, side, f, batch).limit = q.limit
             /\ \A r : r \in Matching(Narrowed(o, side, f, batch), side)
                       <=> r \in Matching(q, side) /\ Passed(Condition(f, batch), side, r)
  <2> HIDE DEF q
  <2>1. PICK C : IsShaped(q, C)
    BY <1>2
  <2>2. QED
    BY <2>1, MergedNarrows DEF Narrowed, q
<1>4. /\ queries \in Seq(N)
      /\ \A v \in values : \E j \in DOMAIN queries, batch \in SUBSET ValuesOf(values, v[1]) :
           v[2] \in batch /\ queries[j] = Narrowed(o, side, v[1], batch)
  BY <1>1, InQueriesAre
<1> HIDE DEF queries, N, q
<1>5. /\ rows \subseteq Rows
      /\ \A r \in rows : \E i \in DOMAIN queries : r \in Matching(queries[i], side)
      /\ \A i \in DOMAIN queries : queries[i].limit = 0 => Matching(queries[i], side) \subseteq rows
  BY <1>4, ResultsMatch DEF queries
<1>6. \A v \in values : v[1] \in Fields /\ v[2] \in Rows /\ v = <<v[1], v[2]>>
  OBVIOUS
<1>7. ASSUME NEW r \in rows
      PROVE  r \in Matching(q, side) /\ \E v \in values : Meets(v, r)
  <2>1. PICK i \in DOMAIN queries : r \in Matching(queries[i], side)
    BY <1>5
  <2>2. queries[i] \in N
    BY <1>4, <2>1, LenProperties, ElementOfSeq
  <2>3. PICK f \in {v[1] : v \in values} : \E batch \in SUBSET ValuesOf(values, f) : queries[i] = Narrowed(o, side, f, batch)
    BY <2>2 DEF N, NarrowedQueries, NarrowedTo
  <2>4. PICK batch \in SUBSET ValuesOf(values, f) : queries[i] = Narrowed(o, side, f, batch)
    BY <2>3
  <2>5. r \in Matching(q, side) /\ Passed(Condition(f, batch), side, r)
    BY <1>3, <2>1, <2>4
  <2>6. f \in Fields
    BY <1>6, <2>3
  <2>7. PICK x \in batch : Meets(<<f, x>>, r)
    BY <2>5, <2>6, PassedByValue
  <2>8. <<f, x>> \in values
    BY <1>6, <2>4, <2>7 DEF ValuesOf
  <2>9. QED
    BY <2>5, <2>7, <2>8
<1>8. ASSUME q.limit = 0, NEW v \in values, NEW r \in Matching(q, side), Meets(v, r)
      PROVE  r \in rows
  <2>1. PICK j \in DOMAIN queries, batch \in SUBSET ValuesOf(values, v[1]) :
          v[2] \in batch /\ queries[j] = Narrowed(o, side, v[1], batch)
    BY <1>4
  <2>2. v[1] \in Fields /\ Meets(<<v[1], v[2]>>, r)
    BY <1>6, <1>8
  <2>3. Passed(Condition(v[1], batch), side, r)
    BY <2>1, <2>2, PassedByValue
  <2>4. queries[j].limit = 0 /\ r \in Matching(queries[j], side)
    BY <1>3, <1>8, <2>1, <2>3
  <2>5. QED
    BY <1>5, <2>1, <2>4
<1>9. \A r \in rows : r \in Rows /\ ObjectOf[r] = o
  BY <1>2, <1>5, <1>7 DEF Matching, Of
<1>10. QED
  BY <1>7, <1>8, <1>9 DEF q

\* The values asked for are rows, for fields.
LEMMA NewValuesTyped ==
  ASSUME TypeOK, NEW o \in Objects
  PROVE  NewValues(o) \in SUBSET (Fields \X Rows)
<1>1. link \subseteq Rows \X Rows /\ source \subseteq Rows
  BY DEF TypeOK
<1>2. ParentValues(o) \subseteq Fields \X Rows
  BY <1>1 DEF ParentValues, Fields
<1>3. ChildValues(o) \subseteq Fields \X Rows
  BY <1>1 DEF ChildValues, Fields
<1>4. ExternalIdValues(o) \subseteq Fields \X Rows
  <2>1. {ExternalIdField(o)} \X Of(o, source) \subseteq Fields \X Rows
    BY <1>1 DEF ExternalIdField, Fields, Of
  <2>2. QED
    BY <2>1 DEF ExternalIdValues
<1>5. QED
  BY <1>2, <1>3, <1>4 DEF NewValues, FilterValues

\* What a query of records that refer to themselves adds
Followed(o, rows, more) ==
  /\ \A r \in more : /\ r \in Rows /\ ObjectOf[r] = o /\ r \in Matching(SourceQuery(o), "source")
                     /\ \E q \in source \cup rows : <<q, r>> \in link
  /\ ProcessAllSource(o) => more = {}
\* A task reads rows and more rows these refer to.
Reads(o, rows, more) ==
  /\ \A r \in rows : r \in Rows /\ ObjectOf[r] = o
  /\ Followed(o, rows, more)
  /\ Register(rows \cup more)

\* The source is read together with the records that its records refer to.
LEMMA SourceIsRead ==
  ASSUME TypeOK, NEW o \in Objects, NEW found, RetrieveSource(o, found),
         \A rows \in found : \A r \in rows : r \in Rows /\ ObjectOf[r] = o
  PROVE  \E rows \in found : \E more : Reads(o, rows, more)
<1>1. PICK rows \in found : \E more \in Results(SelfReferences(o, source \cup rows), "source") : Register(rows \cup more)
  BY DEF RetrieveSource
<1>2. PICK more \in Results(SelfReferences(o, source \cup rows), "source") : Register(rows \cup more)
  BY <1>1
<1> DEFINE K == {k \in link : k[1] \in Of(o, source \cup rows) /\ ObjectOf[k[2]] = o}
           values == {<<"Id", l[2]>> : l \in K}
           refers == Mode \in {"forwards", "reversed"} /\ ~ProcessAllSource(o) /\ <<o, o>> \in script.lookups
<1>3. CASE refers
  <2>1. more \in Results(InQueries(o, values, "source"), "source")
    BY <1>2, <1>3 DEF SelfReferences
  <2>2. values \in SUBSET (Fields \X Rows)
    <3>1. link \subseteq Rows \X Rows
      BY DEF TypeOK
    <3>2. QED
      BY <3>1 DEF Fields
  <2>3. script \in Scenarios /\ "source" \in Sides
    BY DEF TypeOK, Sides
  <2> HIDE DEF values
  <2>4. \A r \in more : /\ r \in Rows /\ ObjectOf[r] = o /\ r \in Matching(QueryFor(o, "source"), "source")
                        /\ \E v \in values : Meets(v, r)
    BY <2>1, <2>2, <2>3, InQueriesBring
  <2>5. ASSUME NEW v \in values, NEW r, Meets(v, r) PROVE \E q \in source \cup rows : <<q, r>> \in link
    <3>1. PICK l \in K : v = <<"Id", l[2]>>
      BY DEF values
    <3>2. "Id" \notin Objects /\ v[1] = "Id" /\ v[2] = l[2]
      BY <3>1, NameAssumption
    <3>3. r = l[2]
      BY <2>5, <3>2 DEF Meets
    <3>4. link \subseteq Rows \X Rows
      BY DEF TypeOK
    <3>5. l \in link /\ l[1] \in source \cup rows
      BY <3>1 DEF Of
    <3>6. l = <<l[1], l[2]>>
      BY <3>4, <3>5
    <3>7. QED
      BY <3>3, <3>5, <3>6
  <2>6. Followed(o, rows, more)
    BY <1>3, <2>4, <2>5 DEF Followed, QueryFor
  <2>7. QED
    BY <1>2, <2>6 DEF Reads
<1>4. CASE ~refers
  <2>1. more \in Results(<<>>, "source")
    BY <1>2, <1>4 DEF SelfReferences
  <2>2. <<>> \in Seq({}) /\ DOMAIN <<>> = {}
    BY EmptySeq
  <2>3. more = {}
    BY <2>1, <2>2, ResultsMatch
  <2>4. QED
    BY <1>2, <2>3 DEF Reads, Followed
<1>5. QED
  BY <1>3, <1>4

-----------------------------------------------------------------------------
\* The passes

\* The tasks of every pass are the same, each once.
LEMMA TasksTyped ==
  ASSUME script \in Scenarios, NEW p \in Nat
  PROVE  /\ TasksOf(p) \in Seq(Objects) /\ Len(TasksOf(p)) \in Nat \ {0}
         /\ DOMAIN TasksOf(p) = 1..Len(TasksOf(p))
         /\ \A i, j \in DOMAIN TasksOf(p) : TasksOf(p)[i] = TasksOf(p)[j] => i = j
         /\ Tasked = {TasksOf(p)[i] : i \in DOMAIN TasksOf(p)} /\ Tasked \subseteq Objects
<1>1. IsScenario(script)
  BY ScenarioAssumption
<1>2. /\ script.tasks \in Seq(Objects) \ {<<>>} /\ script.queryTasks \in Seq(Objects) \ {<<>>}
      /\ IsInjective(script.tasks) /\ IsInjective(script.queryTasks) /\ ToSet(script.tasks) = ToSet(script.queryTasks)
  BY <1>1 DEF IsScenario
<1> DEFINE s == TasksOf(p)
<1>3. s \in Seq(Objects) \ {<<>>} /\ IsInjective(s) /\ ToSet(s) = Tasked
  BY <1>2 DEF TasksOf, Tasked
<1> HIDE DEF s
<1>4. Len(s) \in Nat \ {0} /\ DOMAIN s = 1..Len(s)
  BY <1>3, EmptySeq, LenProperties
<1>5. \A i, j \in DOMAIN s : s[i] = s[j] => i = j
  BY <1>3 DEF IsInjective
<1>6. Tasked = {s[i] : i \in DOMAIN s}
  BY <1>3 DEF ToSet
<1>7. Tasked \subseteq Objects
  BY <1>3, <1>4, <1>6, ElementOfSeq
<1>8. QED
  BY <1>3, <1>4, <1>5, <1>6, <1>7 DEF s

\* The task that is next has not been visited; the step to the next one adds it.
LEMMA VisitedNext ==
  ASSUME TypeOK, pass # 7, NextTask
  PROVE  /\ pass \in 0..6 /\ pass' \in 0..7 /\ (pass' = 7 \/ at' \in 1..Len(TasksOf(pass)'))
         /\ pass <= pass' /\ Task \in Tasked /\ Task \in Objects
         /\ \A p \in 0..6, o \in Tasked : Visited(p, o)' <=> Visited(p, o) \/ (p = pass /\ o = Task)
         /\ \A p \in 0..6, o \in Tasked : Visited(p, o) => p <= pass /\ ~(p = pass /\ o = Task)
         /\ \A p \in 0..6, o \in Tasked : p < pass => Visited(p, o)
<1> DEFINE s == TasksOf(pass)
           n == Len(s)
<1>1. script \in Scenarios /\ pass \in 0..6 /\ pass \in Nat /\ at \in 1..n
  BY DEF TypeOK
<1>2. /\ n \in Nat \ {0} /\ DOMAIN s = 1..n /\ Tasked \subseteq Objects
      /\ \A i, j \in 1..n : s[i] = s[j] => i = j
      /\ \A o \in Tasked : \E k \in 1..n : s[k] = o
      /\ \A k \in 1..n : s[k] \in Tasked
  <2> HIDE DEF s
  <2>1. s = TasksOf(pass)
    BY DEF s
  <2>2. /\ n \in Nat \ {0} /\ DOMAIN s = 1..n /\ Tasked = {s[i] : i \in DOMAIN s} /\ Tasked \subseteq Objects
        /\ \A i, j \in DOMAIN s : s[i] = s[j] => i = j
    BY <1>1, <2>1, TasksTyped
  <2>3. QED
    BY <2>2
<1>3. script' = script
  BY DEF NextTask, given
<1>4. \A p : TasksOf(p)' = TasksOf(p)
  BY <1>3 DEF TasksOf
<1>5. Task = s[at] /\ Task \in Tasked
  BY <1>1, <1>2 DEF Task
<1> DEFINE Before(j, o) == \E k \in 1..(j - 1) : s[k] = o
<1>6. \A o : Visited(pass, o) <=> Before(at, o)
  BY <1>1 DEF Visited
<1>7. ~Before(at, Task)
  <2>1. \A k \in 1..(at - 1) : k \in 1..n /\ k # at
    BY <1>1, <1>2
  <2> HIDE DEF s
  <2>2. QED
    BY <1>1, <1>2, <1>5, <2>1
<1>8. \A p \in 0..6, o \in Tasked : Visited(p, o) => p <= pass /\ ~(p = pass /\ o = Task)
  <2>1. \A p, o : Visited(p, o) => pass > p \/ pass = p
    BY DEF Visited
  <2> HIDE DEF s, Before
  <2>2. QED
    BY <1>1, <1>6, <1>7, <2>1
<1>9. CASE at < n
  <2>1. at' = at + 1 /\ pass' = pass
    BY <1>9 DEF NextTask
  <2>2. TasksOf(pass)' = s
    BY <1>3, <2>1 DEF TasksOf
  <2>3. ASSUME NEW p \in 0..6, NEW o \in Tasked
        PROVE  Visited(p, o)' <=> Visited(p, o) \/ (p = pass /\ o = Task)
    <3>1. CASE p = pass
      <4>1. Visited(p, o)' <=> \E k \in 1..((at + 1) - 1) : s[k] = o
        BY <1>1, <1>4, <2>1, <3>1 DEF Visited
      <4>2. \A k : k \in 1..((at + 1) - 1) <=> k \in 1..(at - 1) \/ k = at
        BY <1>1, <1>2
      <4> HIDE DEF s
      <4>3. QED
        BY <1>5, <1>6, <3>1, <4>1, <4>2
    <3>2. CASE p # pass
      BY <1>1, <2>1, <3>2 DEF Visited
    <3>3. QED
      BY <3>1, <3>2
  <2>4. at' \in 1..Len(TasksOf(pass)')
    BY <1>1, <1>2, <1>9, <2>1, <2>2
  <2>5. pass' \in 0..7 /\ pass <= pass'
    BY <1>1, <2>1
  <2>6. \A p \in 0..6, o \in Tasked : p < pass => Visited(p, o)
    BY <1>1 DEF Visited
  <2>7. QED
    BY <1>1, <1>2, <1>5, <1>8, <2>3, <2>4, <2>5, <2>6
<1>10. CASE at = n
  <2>1. at' = 1 /\ pass' = pass + 1
    BY <1>10, <1>2 DEF NextTask
  <2>2. ASSUME NEW p \in 0..6, NEW o \in Tasked
        PROVE  Visited(p, o)' <=> Visited(p, o) \/ (p = pass /\ o = Task)
    <3>0. 1..(1 - 1) = {}
      OBVIOUS
    <3>1. Visited(p, o)' <=> pass + 1 > p
      BY <3>0, <1>1, <2>1 DEF Visited
    <3>2. CASE p = pass
      <4>1. PICK k \in 1..n : s[k] = o
        BY <1>2
      <4> HIDE DEF s, n
      <4>2. k \in 1..(at - 1) \/ k = at
        BY <1>1, <1>2, <1>10
      <4>3. Visited(p, o) \/ o = Task
        BY <1>5, <1>6, <3>2, <4>1, <4>2
      <4>4. QED
        BY <1>1, <3>1, <3>2, <4>3
    <3>3. CASE p # pass
      BY <1>1, <3>1, <3>3 DEF Visited
    <3>4. QED
      BY <3>2, <3>3
  <2>3. pass' = 7 \/ at' \in 1..Len(TasksOf(pass)')
    <3>1. pass' \in Nat
      BY <1>1, <2>1
    <3> DEFINE p == pass'
               t == TasksOf(p)
    <3>2. Len(t) \in Nat \ {0}
      <4> HIDE DEF p
      <4>1. p \in Nat
        BY <3>1 DEF p
      <4>2. QED
        BY <1>1, <4>1, TasksTyped
    <3>3. TasksOf(pass)' = t
      BY <1>3 DEF TasksOf
    <3> HIDE DEF t
    <3>4. QED
      BY <2>1, <3>2, <3>3
  <2>4. pass' \in 0..7 /\ pass <= pass'
    BY <1>1, <2>1
  <2>5. \A p \in 0..6, o \in Tasked : p < pass => Visited(p, o)
    BY <1>1 DEF Visited
  <2>6. QED
    BY <1>1, <1>2, <1>5, <1>8, <2>2, <2>3, <2>4, <2>5
<1>11. at < n \/ at = n
  <2> HIDE DEF n
  <2>1. QED
    BY <1>1, <1>2
<1> HIDE DEF n
<1>12. QED
  BY <1>9, <1>10, <1>11

\* What does not change while the script, the lookups and the filter stay the same
LEMMA FixedByGiven ==
  ASSUME UNCHANGED given
  PROVE  /\ script' = script /\ link' = link /\ scope' = scope /\ Tasked' = Tasked
         /\ \A o : /\ HasNoSource(o)' = HasNoSource(o) /\ HasNoTarget(o)' = HasNoTarget(o)
                   /\ ProcessAllSource(o)' = ProcessAllSource(o) /\ IgnoresFilter(o)' = IgnoresFilter(o)
                   /\ Unlimited(o)' = Unlimited(o) /\ IsCountedByQuery(o, "target")' = IsCountedByQuery(o, "target")
                   /\ SourceQuery(o)' = SourceQuery(o) /\ TargetQuery(o)' = TargetQuery(o)
                   /\ FileRows(o)' = FileRows(o) /\ IndexOf(o)' = IndexOf(o)
         /\ \A q, side : Matching(q, side)' = Matching(q, side)
         /\ \A o : Matching(SourceQuery(o), "source")' = Matching(SourceQuery(o), "source")
         /\ \A o : Matching(TargetQuery(o), "target")' = Matching(TargetQuery(o), "target")
         /\ \A o, side : Matching(CountQuery(QueryFor(o, side)), side)' = Matching(CountQuery(QueryFor(o, side)), side)
         /\ \A r : IsWanted(r)' = IsWanted(r) /\ ToFind(r)' = ToFind(r)
         /\ \A o, p : MayNarrow(<<o, p>>)' = MayNarrow(<<o, p>>)
<1>1. script' = script /\ link' = link /\ scope' = scope
  BY DEF given
<1>2. /\ Tasked' = Tasked
      /\ \A o : /\ HasNoSource(o)' = HasNoSource(o) /\ HasNoTarget(o)' = HasNoTarget(o)
                /\ IgnoresFilter(o)' = IgnoresFilter(o)
                /\ Unlimited(o)' = Unlimited(o) /\ IsCountedByQuery(o, "target")' = IsCountedByQuery(o, "target")
  BY <1>1 DEF Tasked, HasNoSource, HasNoTarget, CanQueryTarget, IgnoresFilter, Unlimited, IsCountedByQuery
<1>3. \A o : ProcessAllSource(o)' = ProcessAllSource(o)
  BY <1>1 DEF ProcessAllSource
<1>4. \A o : SourceQuery(o)' = SourceQuery(o) /\ TargetQuery(o)' = TargetQuery(o)
  BY <1>1 DEF SourceQuery, TargetQuery
<1>5. \A o : FileRows(o)' = FileRows(o)
  BY <1>1 DEF FileRows, Of
<1>6. \A o : IndexOf(o)' = IndexOf(o)
  BY <1>1 DEF IndexOf
<1>7. \A c, side, r : Passed(c, side, r)' = Passed(c, side, r)
  BY <1>1 DEF Passed
<1>8. \A q, side : Matching(q, side)' = Matching(q, side)
  BY <1>7 DEF Matching
<1>9. \A o : Matching(SourceQuery(o), "source")' = Matching(SourceQuery(o), "source")
  BY <1>4, <1>7 DEF Matching
<1>10. \A o : Matching(TargetQuery(o), "target")' = Matching(TargetQuery(o), "target")
  BY <1>4, <1>7 DEF Matching
<1>11. \A o, side : Matching(CountQuery(QueryFor(o, side)), side)' = Matching(CountQuery(QueryFor(o, side)), side)
  BY <1>4, <1>7 DEF Matching, QueryFor
<1>12. \A r : IsWanted(r)' = IsWanted(r)
  BY <1>1, <1>2, <1>5, <1>9 DEF IsWanted
<1>13. \A r : ToFind(r)' = ToFind(r)
  BY <1>1, <1>2 DEF ToFind
<1>14. \A o, p : MayNarrow(<<o, p>>)' = MayNarrow(<<o, p>>)
  BY <1>1 DEF MayNarrow
<1>15. QED
  BY <1>1, <1>2, <1>3, <1>4, <1>5, <1>6, <1>8, <1>9, <1>10, <1>11, <1>12, <1>13, <1>14

-----------------------------------------------------------------------------
\* The steps, as the invariant needs them

\* The modes of the passes
LEMMA Modes ==
  ASSUME pass \in 0..7
  PROVE  /\ Done <=> pass = 7
         /\ pass \in 1..6 => /\ Mode = "forwards" <=> pass = 1
                             /\ Mode = "backwards" <=> pass \in 2..3
                             /\ Mode = "reversed" <=> pass \in 4..5
                             /\ Mode = "target" <=> pass = 6
<1>1. Len(Passes) = 6
  BY DEF Passes
<1>2. /\ Passes[1] = "forwards" /\ Passes[2] = "backwards" /\ Passes[3] = "backwards"
      /\ Passes[4] = "reversed" /\ Passes[5] = "reversed" /\ Passes[6] = "target"
  BY DEF Passes
<1>3. Done <=> pass = 7
  BY <1>1 DEF Done
<1>4. ASSUME pass \in 1..6
      PROVE  \/ pass = 1 /\ Mode = "forwards"
             \/ pass = 2 /\ Mode = "backwards"
             \/ pass = 3 /\ Mode = "backwards"
             \/ pass = 4 /\ Mode = "reversed"
             \/ pass = 5 /\ Mode = "reversed"
             \/ pass = 6 /\ Mode = "target"
  BY <1>2, <1>4 DEF Mode
<1>5. QED
  BY <1>3, <1>4

\* What the IN clauses of a task bring
Brings(o, rows) ==
  /\ \A r \in rows : r \in Matching(SourceQuery(o), "source") /\ \E v \in NewValues(o) : Meets(v, r)
  /\ Unlimited(o) => \A v \in NewValues(o), r \in Matching(SourceQuery(o), "source") : Meets(v, r) => r \in rows

\* A task reads from the source: its file, its query, or its query with IN clauses.
SourceStep(o, rows, more) ==
  /\ o = Task /\ o \in Objects /\ pass \in 1..5 /\ ~HasNoSource(o) /\ Reads(o, rows, more)
  /\ NextTask /\ UNCHANGED <<counts, failed, target>>
  /\ \/ o \in script.csv /\ pass = 1 /\ rows = FileRows(o) /\ cache' = cache
     \/ /\ o \notin script.csv /\ pass = 1 /\ ProcessAllSource(o) /\ cache' = cache
        /\ rows \in Answers(SourceQuery(o), Matching(SourceQuery(o), "source"))
     \/ /\ ~(pass = 1 /\ o \in script.csv) /\ ~ProcessAllSource(o)
        /\ Brings(o, rows) /\ cache' = Asked(o)

\* A task reads from the target.
TargetStep(o, rows) ==
  /\ o = Task /\ o \in Objects /\ pass = 6 /\ ~HasNoTarget(o) /\ target' = target \cup rows
  /\ NextTask /\ UNCHANGED <<counts, failed, source, first>>
  /\ rows \subseteq Matching(TargetQuery(o), "target")
  /\ IF FullTarget(o)
     THEN rows \in Answers(TargetQuery(o), Matching(TargetQuery(o), "target")) /\ cache' = cache
     ELSE /\ cache' = Asked(o)
          /\ TargetQuery(o).limit = 0 =>
               \A v \in NewValues(o), r \in Matching(TargetQuery(o), "target") : Meets(v, r) => r \in rows

\* A task reads nothing.
SkipStep ==
  /\ \/ pass = 6 /\ HasNoTarget(Task)
     \/ pass \in 1..5 /\ (HasNoSource(Task) \/ (ProcessAllSource(Task) /\ pass # 1))
  /\ NextTask /\ UNCHANGED <<counts, failed, source, target, cache, first>>

\* A row that matches a query is one of its object.
LEMMA MatchingTyped ==
  ASSUME script \in Scenarios, NEW o \in Objects
  PROVE  /\ \A r \in Matching(SourceQuery(o), "source") : r \in Rows /\ ObjectOf[r] = o
         /\ \A r \in Matching(TargetQuery(o), "target") : r \in InTarget /\ r \in Rows /\ ObjectOf[r] = o
<1>1. SourceQuery(o).object = o /\ TargetQuery(o).object = o
  BY SourceQueryShaped, TargetQueryShaped
<1>2. QED
  BY <1>1, RowAssumption DEF Matching, Of

\* The steps of the passes
LEMMA PassStep ==
  ASSUME TypeOK, pass \in 1..6, RetrieveCsv \/ RetrieveAll \/ RetrieveFiltered \/ RetrieveTarget \/ SkipTask
  PROVE  \/ \E rows, more : SourceStep(Task, rows, more)
         \/ \E rows : TargetStep(Task, rows)
         \/ SkipStep
<1> DEFINE o == Task
           q == SourceQuery(o)
           t == TargetQuery(o)
<1>1. /\ Mode = "forwards" <=> pass = 1
      /\ Mode = "target" <=> pass = 6
      /\ pass \in 1..5 \/ pass = 6
  BY Modes
<1>2. script \in Scenarios /\ script.query[o].limit = q.limit /\ o \in Objects /\ "source" \in Sides /\ "target" \in Sides
  <2>1. script \in Scenarios /\ pass \in Nat /\ at \in 1..Len(TasksOf(pass))
    BY DEF TypeOK
  <2>2. o \in Objects
    BY <2>1, TasksTyped, ElementOfSeq DEF Task
  <2>3. QED
    BY <2>1, <2>2, SourceQueryShaped DEF Sides
<1>3. NewValues(o) \in SUBSET (Fields \X Rows)
  BY <1>2, NewValuesTyped
<1>4. /\ \A r \in Matching(q, "source") : r \in Rows /\ ObjectOf[r] = o
      /\ \A r \in Matching(t, "target") : r \in Rows /\ ObjectOf[r] = o
  BY <1>2, MatchingTyped
<1>5. CASE RetrieveCsv
  <2>1. pass = 1 /\ o \in script.csv /\ ~HasNoSource(o) /\ RetrieveSource(o, {FileRows(o)})
        /\ NextTask /\ UNCHANGED <<counts, failed, target, cache>>
    BY <1>1, <1>5 DEF RetrieveCsv
  <2>2. \A r \in FileRows(o) : r \in Rows /\ ObjectOf[r] = o
    BY DEF FileRows, Of, TypeOK
  <2> HIDE DEF o
  <2>3. \E rows \in {FileRows(o)} : \E more : Reads(o, rows, more)
    BY <1>2, <2>1, <2>2, SourceIsRead
  <2>4. PICK more : Reads(o, FileRows(o), more)
    BY <2>3
  <2>5. SourceStep(o, FileRows(o), more)
    BY <1>2, <2>1, <2>4 DEF SourceStep, o
  <2>6. QED
    BY <2>5 DEF o
<1>6. CASE RetrieveAll
  <2>1. pass = 1 /\ o \notin script.csv /\ ProcessAllSource(o) /\ ~HasNoSource(o) /\ RetrieveSource(o, Results(<<q>>, "source"))
        /\ NextTask /\ UNCHANGED <<counts, failed, target, cache>>
    BY <1>1, <1>6 DEF RetrieveAll
  <2> HIDE DEF o, q
  <2>2. \A rows \in Results(<<q>>, "source") : rows \in Answers(q, Matching(q, "source"))
    BY OneResult
  <2>3. \A rows \in Results(<<q>>, "source") : \A r \in rows : r \in Rows /\ ObjectOf[r] = o
    BY <1>4, <2>2 DEF Answers
  <2>4. PICK rows \in Results(<<q>>, "source") : \E more : Reads(o, rows, more)
    BY <1>2, <2>1, <2>3, SourceIsRead
  <2>5. PICK more : Reads(o, rows, more)
    BY <2>4
  <2>6. SourceStep(o, rows, more)
    BY <1>2, <2>1, <2>2, <2>5 DEF SourceStep, o, q
  <2>7. QED
    BY <2>6 DEF o
<1>7. CASE RetrieveFiltered
  <2>1. pass # 6 /\ ~(pass = 1 /\ o \in script.csv) /\ ~ProcessAllSource(o) /\ ~HasNoSource(o)
        /\ RetrieveSource(o, Results(InQueries(o, NewValues(o), "source"), "source")) /\ cache' = Asked(o)
        /\ NextTask /\ UNCHANGED <<counts, failed, target>>
    BY <1>1, <1>7 DEF RetrieveFiltered
  <2> DEFINE found == Results(InQueries(o, NewValues(o), "source"), "source")
  <2> HIDE DEF o
  <2>2. QueryFor(o, "source") = q
    BY DEF QueryFor
  <2>3. ASSUME NEW rows \in found
        PROVE  Brings(o, rows) /\ \A r \in rows : r \in Rows /\ ObjectOf[r] = o
    <3>1. /\ \A r \in rows : /\ r \in Rows /\ ObjectOf[r] = o /\ r \in Matching(QueryFor(o, "source"), "source")
                             /\ \E v \in NewValues(o) : Meets(v, r)
          /\ QueryFor(o, "source").limit = 0 =>
               \A v \in NewValues(o), r \in Matching(QueryFor(o, "source"), "source") : Meets(v, r) => r \in rows
      BY <1>2, <1>3, <2>3, InQueriesBring
    <3>2. QED
      BY <1>2, <2>2, <3>1 DEF Brings, Unlimited
  <2> HIDE DEF found
  <2>4. PICK rows \in found : \E more : Reads(o, rows, more)
    BY <1>2, <2>1, <2>3, SourceIsRead DEF found
  <2>5. PICK more : Reads(o, rows, more)
    BY <2>4
  <2>6. SourceStep(o, rows, more)
    BY <1>1, <1>2, <2>1, <2>3, <2>5 DEF SourceStep, o
  <2>7. QED
    BY <2>6 DEF o
<1>8. CASE RetrieveTarget
  <2> DEFINE full == FullTarget(o)
             queries == IF full THEN <<t>> ELSE InQueries(o, NewValues(o), "target")
  <2>1. pass = 6 /\ ~HasNoTarget(o) /\ NextTask /\ UNCHANGED <<counts, failed, source, first>>
        /\ cache' = IF full THEN cache ELSE Asked(o)
    BY <1>1, <1>8 DEF RetrieveTarget
  <2>2. PICK rows \in Results(queries, "target") : target' = target \cup rows
    BY <1>8 DEF RetrieveTarget
  <2>3. full <=> FullTarget(o)
    OBVIOUS
  <2> HIDE DEF o, full, t
  <2>4. CASE full
    <3>1. rows \in Answers(t, Matching(t, "target"))
      BY <2>2, <2>4, OneResult
    <3>2. TargetStep(o, rows)
      BY <1>2, <2>1, <2>2, <2>3, <2>4, <3>1 DEF TargetStep, Answers, o, t
    <3>3. QED
      BY <3>2 DEF o
  <2>5. CASE ~full
    <3>1. QueryFor(o, "target") = t
      BY DEF QueryFor, t
    <3>2. rows \in Results(InQueries(o, NewValues(o), "target"), "target")
      BY <2>2, <2>5
    <3>3. /\ \A r \in rows : /\ r \in Rows /\ ObjectOf[r] = o /\ r \in Matching(QueryFor(o, "target"), "target")
                             /\ \E v \in NewValues(o) : Meets(v, r)
          /\ QueryFor(o, "target").limit = 0 =>
               \A v \in NewValues(o), r \in Matching(QueryFor(o, "target"), "target") : Meets(v, r) => r \in rows
      BY <1>2, <1>3, <3>2, InQueriesBring
    <3>4. TargetStep(o, rows)
      BY <1>2, <2>1, <2>2, <2>3, <2>5, <3>1, <3>3 DEF TargetStep, o, t
    <3>5. QED
      BY <3>4 DEF o
  <2>6. QED
    BY <2>4, <2>5
<1>9. CASE SkipTask
  BY <1>1, <1>9 DEF SkipTask, SkipStep
<1>10. QED
  BY <1>5, <1>6, <1>7, <1>8, <1>9

\* The steps of a job that counts and reads
LEMMA NextIs ==
  ASSUME TypeOK, [Next]_vars
  PROVE  \/ UNCHANGED vars
         \/ pass = 0 /\ CountRecords
         \/ \E rows, more : SourceStep(Task, rows, more)
         \/ \E rows : TargetStep(Task, rows)
         \/ SkipStep
<1>1. pass \in 0..7 /\ (Done <=> pass = 7)
  BY Modes DEF TypeOK
<1>2. CASE CountRecords
  BY <1>2 DEF CountRecords
<1>3. CASE pass > 0 /\ ~Done /\ (RetrieveCsv \/ RetrieveAll \/ RetrieveFiltered \/ RetrieveTarget \/ SkipTask)
  <2>1. pass \in 1..6
    BY <1>1, <1>3
  <2>2. QED
    BY <1>3, <2>1, PassStep
<1>4. CASE Retrieved
  BY <1>4 DEF Retrieved
<1>5. QED
  BY <1>2, <1>3, <1>4 DEF Next

\* What a reading step does to the source and its history
LEMMA SourceStepIs ==
  ASSUME TypeOK, NEW o, NEW rows, NEW more, SourceStep(o, rows, more)
  PROVE  /\ source' = source \cup rows \cup more /\ source' \subseteq Rows
         /\ \A r \in rows \cup more : ObjectOf[r] = o
         /\ \A r \in Rows : first'[r] = IF r \in source' /\ r \notin source THEN pass ELSE first[r]
         /\ first' \in [Rows -> 0..6]
<1>1. source' = source \cup rows \cup more /\ source \subseteq Rows /\ first \in [Rows -> 0..6] /\ pass \in 0..6
  BY DEF SourceStep, Reads, Register, TypeOK
<1>2. \A r \in rows \cup more : r \in Rows /\ ObjectOf[r] = o
  BY DEF SourceStep, Reads, Followed
<1>3. first' = [r \in Rows |-> IF r \in (rows \cup more) \ source THEN pass ELSE first[r]]
  BY DEF SourceStep, Reads, Register
<1>4. QED
  BY <1>1, <1>2, <1>3

-----------------------------------------------------------------------------
\* What no step changes

\* The script, the lookups and the filter stay the same in every step.
LEMMA GivenStays ==
  ASSUME TypeOK, [Next]_vars
  PROVE  UNCHANGED given
<1>1. CASE UNCHANGED vars
  BY <1>1 DEF vars, given
<1>2. NextTask => UNCHANGED given
  BY DEF NextTask
<1>3. QED
  BY <1>1, <1>2, NextIs DEF CountRecords, SourceStep, TargetStep, SkipStep

\* Before the first step nothing is done.
LEMMA NothingVisited ==
  ASSUME Init
  PROVE  /\ pass = 0 /\ source = {} /\ target = {} /\ cache = {} /\ script \in Scenarios
         /\ \A p \in 0..6 : \A o : ~Visited(p, o)
<1>1. pass = 0 /\ at = 1 /\ source = {} /\ target = {} /\ cache = {} /\ script \in Scenarios
  BY DEF Init
<1>2. 1..(1 - 1) = {}
  OBVIOUS
<1>3. ASSUME NEW p \in 0..6, NEW o PROVE ~Visited(p, o)
  BY <1>1, <1>2 DEF Visited
<1>4. QED
  BY <1>1, <1>3

-----------------------------------------------------------------------------
\* Types

\* Counts are naturals.
LEMMA CountedTyped ==
  ASSUME script \in Scenarios, scope \subseteq Rows, NEW o \in Objects, NEW side, NEW fails
  PROVE  Counted(o, side, fails) \in Nat
<1>1. IsFiniteSet(Of(o, scope)) /\ Cardinality(Of(o, scope)) \in Nat
  <2>1. Of(o, scope) \in SUBSET Rows
    BY DEF Of
  <2>2. QED
    BY <2>1, RowAssumption, FS_Subset, FS_CardinalityType
<1> DEFINE M == Matching(CountQuery(QueryFor(o, side)), side)
<1>2. Cardinality(M) \in Nat
  <2>1. M \in SUBSET Rows
    BY RowAssumption DEF Matching, Of
  <2> HIDE DEF M
  <2>2. QED
    BY <2>1, RowAssumption, FS_Subset, FS_CardinalityType
<1>3. script.query[o].limit \in Nat
  <2>1. IsQuery(script.query[o])
    BY ScenarioAssumption DEF IsScenario
  <2>2. QED
    BY <2>1 DEF IsQuery
<1>4. Uncounted(o, side) \in Nat
  BY <1>1 DEF Uncounted
<1>5. AtMost(Cardinality(M), script.query[o].limit) \in Nat
  BY <1>2, <1>3 DEF AtMost
<1> HIDE DEF M
<1>6. \/ Counted(o, side, fails) = Uncounted(o, side)
      \/ Counted(o, side, fails) = script.query[o].limit
      \/ Counted(o, side, fails) = AtMost(Cardinality(M), script.query[o].limit)
  BY DEF Counted, M
<1>7. QED
  BY <1>3, <1>4, <1>5, <1>6

\* Every state has the right types.
LEMMA TypesStart == Init => TypeOK
<1> SUFFICES ASSUME Init PROVE TypeOK
  OBVIOUS
<1>1. /\ script \in Scenarios /\ pass = 0 /\ at = 1 /\ scope \subseteq Rows
      /\ counts = [o \in Objects |-> [side \in Sides |-> 0]] /\ source = {} /\ target = {} /\ first = [r \in Rows |-> 0]
      /\ link \subseteq {l \in Rows \X Rows : <<ObjectOf[l[1]], ObjectOf[l[2]]>> \in script.lookups}
  BY DEF Init
<1>2. Len(TasksOf(0)) \in Nat \ {0}
  BY <1>1, TasksTyped
<1>3. at \in 1..Len(TasksOf(pass))
  BY <1>1, <1>2
<1>4. counts \in [Objects -> [Sides -> Nat]] /\ first \in [Rows -> 0..6]
  BY <1>1
<1>5. QED
  BY <1>1, <1>3, <1>4 DEF TypeOK

\* Every step keeps them.
LEMMA TypesStay == TypeOK /\ [Next]_vars => TypeOK'
<1> SUFFICES ASSUME TypeOK, [Next]_vars PROVE TypeOK'
  OBVIOUS
<1>1. UNCHANGED given /\ script' = script /\ link' = link /\ scope' = scope
  BY GivenStays DEF given
<1> DEFINE Typed == {l \in Rows \X Rows : <<ObjectOf[l[1]], ObjectOf[l[2]]>> \in script.lookups}
<1>2. script' \in Scenarios /\ link' \subseteq Typed' /\ scope' \subseteq Rows
  BY <1>1 DEF TypeOK
<1>3. ASSUME pass' \in 0..7, pass' = 7 \/ at' \in 1..Len(TasksOf(pass)'), counts' \in [Objects -> [Sides -> Nat]],
             source' \subseteq Rows, target' \subseteq Rows, first' \in [Rows -> 0..6]
      PROVE  TypeOK'
  BY <1>2, <1>3 DEF TypeOK
<1>4. CASE UNCHANGED vars
  BY <1>4 DEF vars, TypeOK, TasksOf
<1>5. /\ counts \in [Objects -> [Sides -> Nat]] /\ source \subseteq Rows /\ target \subseteq Rows
      /\ first \in [Rows -> 0..6] /\ script \in Scenarios /\ scope \subseteq Rows
  BY DEF TypeOK
<1>6. CASE pass = 0 /\ CountRecords
  <2>1. NextTask /\ UNCHANGED <<source, target, cache, first>>
    BY <1>6 DEF CountRecords
  <2>2. pass' \in 0..7 /\ (pass' = 7 \/ at' \in 1..Len(TasksOf(pass)')) /\ Task \in Objects
    BY <1>6, <2>1, VisitedNext
  <2>3. PICK fails : counts' = [counts EXCEPT ![Task] = [side \in Sides |-> Counted(Task, side, side \in fails)]]
    BY <1>6 DEF CountRecords
  <2>4. \A side \in Sides : Counted(Task, side, side \in fails) \in Nat
    BY <1>5, <2>2, CountedTyped
  <2>5. counts' \in [Objects -> [Sides -> Nat]]
    BY <1>5, <2>3, <2>4
  <2>6. QED
    BY <1>3, <1>5, <2>1, <2>2, <2>5
<1>7. ASSUME NEW rows, NEW more, SourceStep(Task, rows, more) PROVE TypeOK'
  <2>1. NextTask /\ pass # 7 /\ UNCHANGED <<counts, target>>
    BY <1>7 DEF SourceStep
  <2>2. source' \subseteq Rows /\ first' \in [Rows -> 0..6]
    BY <1>7, SourceStepIs
  <2>3. QED
    BY <1>3, <1>5, <2>1, <2>2, VisitedNext
<1>8. ASSUME NEW rows, TargetStep(Task, rows) PROVE TypeOK'
  <2>1. NextTask /\ pass # 7 /\ UNCHANGED <<counts, source, first>> /\ target' = target \cup rows
        /\ rows \subseteq Matching(TargetQuery(Task), "target")
    BY <1>8 DEF TargetStep
  <2>2. target' \subseteq Rows
    BY <1>5, <2>1, RowAssumption DEF Matching, Of
  <2>3. QED
    BY <1>3, <1>5, <2>1, <2>2, VisitedNext
<1>9. CASE SkipStep
  <2>1. NextTask /\ pass # 7 /\ UNCHANGED <<counts, source, target, first>>
    BY <1>9 DEF SkipStep
  <2>2. QED
    BY <1>3, <1>5, <2>1, VisitedNext
<1>10. QED
  BY <1>4, <1>6, <1>7, <1>8, <1>9, NextIs

\* Lookups are pairs of rows.
LEMMA LinksArePairs ==
  ASSUME TypeOK
  PROVE  \A l \in link : l = <<l[1], l[2]>> /\ l[1] \in Rows /\ l[2] \in Rows
                        /\ <<ObjectOf[l[1]], ObjectOf[l[2]]>> \in script.lookups
BY DEF TypeOK

-----------------------------------------------------------------------------
\* What is read matches.

\* Source rows match.
LEMMA SourceMatchesStays == TypeOK /\ SourceMatches /\ [Next]_vars => SourceMatches'
<1> SUFFICES ASSUME TypeOK, SourceMatches, [Next]_vars PROVE SourceMatches'
  OBVIOUS
<1>1. UNCHANGED given
  BY GivenStays
<1>2. /\ Tasked' = Tasked /\ script' = script /\ \A o : HasNoSource(o)' = HasNoSource(o)
      /\ \A o : Matching(SourceQuery(o), "source")' = Matching(SourceQuery(o), "source")
  BY <1>1, FixedByGiven
<1> DEFINE Fine(r) == LET o == ObjectOf[r] IN
             o \in Tasked /\ ~HasNoSource(o) /\ (o \notin script.csv => r \in Matching(SourceQuery(o), "source"))
<1>3. \A r : Fine(r)' <=> Fine(r)
  BY <1>2
<1>4. (\A r \in source : Fine(r)) /\ (SourceMatches' <=> \A r \in source' : Fine(r)')
  BY DEF SourceMatches
<1>5. CASE source' = source
  <2> HIDE DEF Fine
  <2>1. QED
    BY <1>3, <1>4, <1>5
<1>6. ASSUME NEW rows, NEW more, SourceStep(Task, rows, more) PROVE SourceMatches'
  <2>1. source' = source \cup rows \cup more /\ \A r \in rows \cup more : ObjectOf[r] = Task
    BY <1>6, SourceStepIs
  <2>2. Task \in Tasked /\ ~HasNoSource(Task)
    BY <1>6, VisitedNext DEF SourceStep
  <2>3. Task \notin script.csv => \A r \in rows \cup more : r \in Matching(SourceQuery(Task), "source")
    BY <1>6 DEF SourceStep, Reads, Followed, Answers, Brings
  <2>4. \A r \in rows \cup more : Fine(r)
    BY <2>1, <2>2, <2>3
  <2> HIDE DEF Fine
  <2>5. QED
    BY <1>3, <1>4, <2>1, <2>4
<1>7. QED
  BY <1>5, <1>6, NextIs DEF vars, CountRecords, TargetStep, SkipStep

\* Target rows match.
LEMMA TargetMatchesStays == TypeOK /\ TargetMatches /\ [Next]_vars => TargetMatches'
<1> SUFFICES ASSUME TypeOK, TargetMatches, [Next]_vars PROVE TargetMatches'
  OBVIOUS
<1>1. UNCHANGED given
  BY GivenStays
<1>2. Tasked' = Tasked /\ \A o : Matching(TargetQuery(o), "target")' = Matching(TargetQuery(o), "target")
  BY <1>1, FixedByGiven
<1> DEFINE Fine(r) == LET o == ObjectOf[r] IN o \in Tasked /\ r \in Matching(TargetQuery(o), "target")
<1>3. \A r : Fine(r)' <=> Fine(r)
  BY <1>2
<1>4. (\A r \in target : Fine(r)) /\ (TargetMatches' <=> \A r \in target' : Fine(r)')
  BY DEF TargetMatches
<1>5. CASE target' = target
  <2> HIDE DEF Fine
  <2>1. QED
    BY <1>3, <1>4, <1>5
<1>6. ASSUME NEW rows, TargetStep(Task, rows) PROVE TargetMatches'
  <2>1. target' = target \cup rows /\ rows \subseteq Matching(TargetQuery(Task), "target")
    BY <1>6 DEF TargetStep
  <2>2. Task \in Tasked /\ Task \in Objects
    BY <1>6, VisitedNext DEF TargetStep
  <2>3. \A r \in rows : ObjectOf[r] = Task
    BY <2>1, <2>2, MatchingTyped DEF TypeOK
  <2>4. \A r \in rows : Fine(r)
    BY <2>1, <2>2, <2>3
  <2> HIDE DEF Fine
  <2>5. QED
    BY <1>3, <1>4, <2>1, <2>4
<1>7. QED
  BY <1>5, <1>6, NextIs DEF vars, CountRecords, SourceStep, SkipStep

-----------------------------------------------------------------------------
\* Nothing is read that is not required.

\* A set with the roots and all neighbours stays the whole source.
LEMMA ConnectedStays == TypeOK /\ Connected /\ [Next]_vars => Connected'
<1> SUFFICES ASSUME TypeOK, Connected, [Next]_vars PROVE Connected'
  OBVIOUS
<1>1. UNCHANGED given
  BY GivenStays
<1>2. script' = script /\ link' = link /\ \A o : ProcessAllSource(o)' = ProcessAllSource(o)
  BY <1>1, FixedByGiven
<1>3. Roots' = {r \in source' : ProcessAllSource(ObjectOf[r]) \/ ObjectOf[r] \in script.csv}
  BY <1>2 DEF Roots
<1>4. \A rows : Neighbours(rows)' = {r \in source' : \E q \in rows : <<r, q>> \in link \/ <<q, r>> \in link}
  BY <1>2 DEF Neighbours
<1>5. CASE source' = source
  <2>1. Roots' = Roots
    BY <1>3, <1>5 DEF Roots
  <2>2. \A rows : Neighbours(rows)' = Neighbours(rows)
    BY <1>4, <1>5 DEF Neighbours
  <2>3. QED
    BY <1>5, <2>1, <2>2 DEF Connected
<1>6. ASSUME NEW rows, NEW more, SourceStep(Task, rows, more) PROVE Connected'
  <2>1. source' = source \cup rows \cup more /\ \A r \in rows \cup more : ObjectOf[r] = Task
    BY <1>6, SourceStepIs
  <2> SUFFICES ASSUME NEW s \in SUBSET source', Roots' \subseteq s, Neighbours(s)' \subseteq s PROVE source' \subseteq s
    BY DEF Connected
  <2>2. source \subseteq s
    <3>1. Roots \subseteq s \cap source
      BY <1>3, <2>1 DEF Roots
    <3>2. Neighbours(s \cap source) \subseteq s \cap source
      BY <1>4, <2>1 DEF Neighbours
    <3>3. QED
      BY <3>1, <3>2 DEF Connected
  <2>3. rows \subseteq s
    <3>1. CASE ProcessAllSource(Task) \/ Task \in script.csv
      BY <1>3, <2>1, <3>1
    <3>2. CASE ~(ProcessAllSource(Task) \/ Task \in script.csv)
      <4>1. Brings(Task, rows) /\ Task \in Objects
        BY <1>6, <3>2 DEF SourceStep
      <4>2. ASSUME NEW r \in rows PROVE \E q \in source : <<r, q>> \in link \/ <<q, r>> \in link
        <5>1. PICK v \in NewValues(Task) : Meets(v, r)
          BY <4>1 DEF Brings
        <5>2. Mode # "target"
          BY <1>6, Modes DEF SourceStep
        <5>3. v \in ParentValues(Task) \/ v \in ChildValues(Task)
          BY <5>1, <5>2 DEF NewValues, FilterValues
        <5>4. CASE v \in ParentValues(Task)
          BY <5>1, <5>4 DEF ParentValues, Meets
        <5>5. CASE v \in ChildValues(Task)
          <6>1. PICK l \in link : l[1] \in source /\ v = <<"Id", l[2]>>
            BY <5>5 DEF ChildValues
          <6>2. v[1] \notin Objects /\ v[2] = l[2]
            BY <6>1, NameAssumption
          <6>3. r = l[2]
            BY <5>1, <6>2 DEF Meets
          <6>4. l = <<l[1], l[2]>>
            BY <6>1, LinksArePairs
          <6>5. QED
            BY <6>1, <6>3, <6>4
        <5>6. QED
          BY <5>3, <5>4, <5>5
      <4>3. QED
        BY <1>4, <2>1, <2>2, <4>2
    <3>3. QED
      BY <3>1, <3>2
  <2>4. more \subseteq s
    <3>1. \A r \in more : \E q \in source \cup rows : <<q, r>> \in link
      BY <1>6 DEF SourceStep, Reads, Followed
    <3>2. QED
      BY <1>4, <2>1, <2>2, <2>3, <3>1
  <2>5. QED
    BY <2>1, <2>2, <2>3, <2>4
<1>7. QED
  BY <1>5, <1>6, NextIs DEF vars, CountRecords, TargetStep, SkipStep

-----------------------------------------------------------------------------
\* Required rows

\* The rows that are required in n steps are found by recursion.
LEMMA RequiredIs ==
  ASSUME TypeOK
  PROVE  /\ Required[0] = Roots /\ Cardinality(Rows) \in Nat
         /\ \A n \in 1..Cardinality(Rows) : Required[n] = Required[n - 1] \cup Neighbours(Required[n - 1])
<1> DEFINE A == SUBSET source
           N == Cardinality(Rows)
           step == [p \in Nat \X A |-> p[2] \cup Neighbours(p[2])]
<1>1. N \in Nat
  BY RowAssumption, FS_CardinalityType
<1>2. step \in [Nat \X A -> A] /\ Roots \in A
  BY DEF Neighbours, Roots
<1>3. PICK f : Unfolds(f, N, A, Roots, step)
  <2> HIDE DEF A, step, N
  <2>1. QED
    BY <1>1, <1>2, Recursion
<1>4. f \in [0..N -> A] /\ f[0] = Roots /\ \A i \in 0..(N - 1) : f[i + 1] = step[<<i + 1, f[i]>>]
  BY <1>3 DEF Unfolds
<1>5. ASSUME NEW i \in 1..N PROVE f[i] = f[i - 1] \cup Neighbours(f[i - 1])
  <2>1. i - 1 \in 0..(N - 1) /\ (i - 1) + 1 = i /\ i - 1 \in 0..N /\ i \in Nat
    BY <1>1
  <2>2. f[i] = step[<<i, f[i - 1]>>] /\ f[i - 1] \in A
    BY <1>4, <2>1
  <2>3. QED
    BY <2>1, <2>2
<1> HIDE DEF A, step
<1>6. f = [n \in 0..N |-> IF n = 0 THEN Roots ELSE f[n - 1] \cup Neighbours(f[n - 1])]
  <2>1. \A i \in 0..N : i = 0 \/ i \in 1..N
    BY <1>1
  <2>2. QED
    BY <1>4, <1>5, <2>1
<1>7. Required = CHOOSE g : g = [n \in 0..N |-> IF n = 0 THEN Roots ELSE g[n - 1] \cup Neighbours(g[n - 1])]
  BY DEF Required, Roots
<1>8. Required = [n \in 0..N |-> IF n = 0 THEN Roots ELSE Required[n - 1] \cup Neighbours(Required[n - 1])]
  BY <1>6, <1>7
<1>9. 0 \in 0..N /\ \A i \in 1..N : i \in 0..N /\ i # 0
  BY <1>1
<1> HIDE DEF N
<1>10. Required[0] = Roots /\ \A n \in 1..N : Required[n] = Required[n - 1] \cup Neighbours(Required[n - 1])
  BY <1>8, <1>9
<1>11. QED
  BY <1>1, <1>10 DEF N

\* After as many steps as there are rows no row is added.
LEMMA RequiredIsClosed ==
  ASSUME TypeOK
  PROVE  LET all == Required[Cardinality(Rows)]
         IN  all \in SUBSET source /\ Roots \subseteq all /\ Neighbours(all) \subseteq all
<1> DEFINE N == Cardinality(Rows)
           R(n) == Required[n]
           P == {n \in Nat : n <= N => /\ R(n) \in SUBSET source /\ Roots \subseteq R(n)
                                       /\ n <= Cardinality(R(n)) \/ Neighbours(R(n)) \subseteq R(n)}
<1>1. R(0) = Roots /\ N \in Nat /\ \A n \in 1..N : R(n) = R(n - 1) \cup Neighbours(R(n - 1))
  BY RequiredIs
<1> HIDE DEF R, N
<1>2. ASSUME NEW s \in SUBSET source PROVE IsFiniteSet(s) /\ Cardinality(s) \in Nat /\ s \subseteq Rows
  <2>1. s \in SUBSET Rows
    BY DEF TypeOK
  <2>2. QED
    BY <2>1, RowAssumption, FS_Subset, FS_CardinalityType
<1>3. 0 \in P
  <2>1. Roots \in SUBSET source
    BY DEF Roots
  <2>2. 0 <= Cardinality(Roots)
    BY <1>2, <2>1
  <2>3. QED
    BY <1>1, <2>1, <2>2
<1>4. ASSUME NEW n \in Nat, n \in P PROVE n + 1 \in P
  <2> SUFFICES ASSUME n + 1 <= N
               PROVE  /\ R(n + 1) \in SUBSET source /\ Roots \subseteq R(n + 1)
                      /\ n + 1 <= Cardinality(R(n + 1)) \/ Neighbours(R(n + 1)) \subseteq R(n + 1)
    OBVIOUS
  <2>1. R(n) \in SUBSET source /\ Roots \subseteq R(n) /\ (n <= Cardinality(R(n)) \/ Neighbours(R(n)) \subseteq R(n))
    BY <1>1, <1>4
  <2>2. n + 1 \in 1..N /\ (n + 1) - 1 = n
    BY <1>1
  <2>3. R(n + 1) = R(n) \cup Neighbours(R(n))
    BY <1>1, <2>2
  <2>4. R(n + 1) \in SUBSET source
    BY <2>1, <2>3 DEF Neighbours
  <2>5. CASE Neighbours(R(n)) \subseteq R(n)
    <3>1. R(n + 1) = R(n)
      BY <2>3, <2>5
    <3>2. QED
      BY <2>1, <2>5, <3>1
  <2>6. CASE ~(Neighbours(R(n)) \subseteq R(n))
    <3>1. R(n) \subseteq R(n + 1) /\ R(n) # R(n + 1)
      BY <2>3, <2>6
    <3>2. Cardinality(R(n)) <= Cardinality(R(n + 1)) /\ Cardinality(R(n)) # Cardinality(R(n + 1))
      BY <1>2, <2>4, <3>1, FS_Subset
    <3>3. Cardinality(R(n)) \in Nat /\ Cardinality(R(n + 1)) \in Nat
      BY <1>2, <2>1, <2>4
    <3>4. n + 1 <= Cardinality(R(n + 1))
      BY <2>1, <2>6, <3>2, <3>3
    <3>5. QED
      BY <2>1, <2>4, <3>1, <3>4
  <2>7. QED
    BY <2>5, <2>6
<1> HIDE DEF P
<1>5. N \in P
  BY <1>1, <1>3, <1>4, Induction
<1>6. R(N) \in SUBSET source /\ Roots \subseteq R(N) /\ (N <= Cardinality(R(N)) \/ Neighbours(R(N)) \subseteq R(N))
  BY <1>1, <1>5 DEF P
<1>7. Neighbours(R(N)) \subseteq R(N)
  <2>1. CASE N <= Cardinality(R(N))
    <3>1. R(N) \in SUBSET Rows /\ Cardinality(R(N)) <= N
      <4>1. R(N) \in SUBSET Rows
        BY <1>2, <1>6
      <4>2. QED
        BY <4>1, RowAssumption, FS_Subset DEF N
    <3>2. Cardinality(R(N)) = Cardinality(Rows)
      BY <1>1, <1>2, <1>6, <2>1, <3>1 DEF N
    <3>3. R(N) = Rows
      BY <3>1, <3>2, RowAssumption, FS_Subset
    <3>4. QED
      BY <3>3 DEF Neighbours, TypeOK
  <2>2. QED
    BY <1>6, <2>1
<1>8. QED
  BY <1>6, <1>7 DEF R, N

\* A connected source is required.
LEMMA ConnectedIsRequired == TypeOK /\ Connected => OnlyRequired
<1> SUFFICES ASSUME TypeOK, Connected PROVE OnlyRequired
  OBVIOUS
<1> DEFINE all == Required[Cardinality(Rows)]
<1>1. all \in SUBSET source /\ Roots \subseteq all /\ Neighbours(all) \subseteq all
  BY RequiredIsClosed
<1> HIDE DEF all
<1>2. source \subseteq all
  BY <1>1 DEF Connected
<1>3. QED
  BY <1>2 DEF OnlyRequired, all

\* Nothing is read that no relationship requires: through rows that were read, every row that
\* was read is linked with one of an object read in full or of a file.  The passes put rows in
\* IN clauses only to find rows linked with them.
THEOREM RetrieveOnlyRequired == Spec => []OnlyRequired
<1>1. Init => TypeOK /\ Connected
  BY TypesStart DEF Init, Connected
<1>2. TypeOK /\ Connected /\ [Next]_vars => TypeOK' /\ Connected'
  BY TypesStay, ConnectedStays
<1>3. TypeOK /\ Connected => OnlyRequired
  BY ConnectedIsRequired
<1>4. QED
  BY <1>1, <1>2, <1>3, PTL DEF Spec

\* A step that changes nothing visits nothing.
LEMMA NothingVisitedAnew ==
  ASSUME UNCHANGED vars
  PROVE  \A p, o : Visited(p, o)' <=> Visited(p, o)
BY DEF vars, Visited, TasksOf

-----------------------------------------------------------------------------
\* The objects read in full

\* The first pass reads the objects in full and no other pass reads them again.
LEMMA SourceInFullStays == TypeOK /\ SourceInFull /\ [Next]_vars => SourceInFull'
<1> SUFFICES ASSUME TypeOK, SourceInFull, [Next]_vars PROVE SourceInFull'
  OBVIOUS
<1>1. UNCHANGED given
  BY GivenStays
<1>2. /\ Tasked' = Tasked /\ script' = script
      /\ \A o : /\ HasNoSource(o)' = HasNoSource(o) /\ ProcessAllSource(o)' = ProcessAllSource(o)
                /\ SourceQuery(o)' = SourceQuery(o)
                /\ Matching(SourceQuery(o), "source")' = Matching(SourceQuery(o), "source")
  BY <1>1, FixedByGiven
<1> DEFINE All(o) == Answers(SourceQuery(o), Matching(SourceQuery(o), "source"))
<1>3. \A o : All(o)' = All(o)
  BY <1>2
<1> HIDE DEF All
<1> SUFFICES ASSUME NEW o \in Tasked \ script.csv, ProcessAllSource(o), ~HasNoSource(o)
             PROVE  IF Visited(1, o)' THEN Of(o, source') \in All(o) ELSE Of(o, source') = {}
  <2>1. SourceInFull' <=> \A o \in Tasked \ script.csv : (ProcessAllSource(o) /\ ~HasNoSource(o)) =>
                            IF Visited(1, o)' THEN Of(o, source') \in All(o) ELSE Of(o, source') = {}
    BY <1>2, <1>3 DEF SourceInFull, Of, All
  <2>2. QED
    BY <2>1
<1>4. IF Visited(1, o) THEN Of(o, source) \in All(o) ELSE Of(o, source) = {}
  BY DEF SourceInFull, All
<1>5. CASE UNCHANGED vars
  <2>1. source' = source /\ (Visited(1, o)' <=> Visited(1, o))
    BY <1>5, NothingVisitedAnew DEF vars
  <2>2. QED
    BY <1>4, <2>1
<1>6. ASSUME NextTask, source' = source, pass # 7, ~(pass = 1 /\ o = Task)
      PROVE  IF Visited(1, o)' THEN Of(o, source') \in All(o) ELSE Of(o, source') = {}
  <2>1. Visited(1, o)' <=> Visited(1, o)
    BY <1>6, VisitedNext
  <2>2. QED
    BY <1>4, <1>6, <2>1
<1>7. CASE pass = 0 /\ CountRecords
  BY <1>6, <1>7 DEF CountRecords
<1>8. ASSUME NEW rows, NEW more, SourceStep(Task, rows, more)
      PROVE  IF Visited(1, o)' THEN Of(o, source') \in All(o) ELSE Of(o, source') = {}
  <2>1. source' = source \cup rows \cup more /\ \A r \in rows \cup more : ObjectOf[r] = Task
    BY <1>8, SourceStepIs
  <2>2. NextTask /\ pass # 7
    BY <1>8 DEF SourceStep
  <2>3. CASE o # Task
    <3>1. Visited(1, o)' <=> Visited(1, o)
      BY <2>2, <2>3, VisitedNext
    <3>2. Of(o, source') = Of(o, source)
      BY <2>1, <2>3 DEF Of
    <3>3. QED
      BY <1>4, <3>1, <3>2
  <2>4. CASE o = Task
    <3>1. pass = 1 /\ rows \in All(o) /\ more = {}
      BY <1>8, <2>4 DEF SourceStep, Reads, Followed, All
    <3>2. Visited(1, o)' /\ ~Visited(1, o)
      BY <2>2, <2>4, <3>1, VisitedNext
    <3>3. Of(o, source') = rows
      BY <1>4, <2>1, <2>4, <3>1, <3>2 DEF Of
    <3>4. QED
      BY <3>1, <3>2, <3>3
  <2>5. QED
    BY <2>3, <2>4
<1>9. ASSUME NEW rows, TargetStep(Task, rows)
      PROVE  IF Visited(1, o)' THEN Of(o, source') \in All(o) ELSE Of(o, source') = {}
  BY <1>6, <1>9 DEF TargetStep
<1>10. CASE SkipStep
  BY <1>6, <1>10 DEF SkipStep
<1>11. QED
  BY <1>5, <1>7, <1>8, <1>9, <1>10, NextIs

\* The first pass reads the files.
LEMMA FilesReadStays == TypeOK /\ FilesRead /\ [Next]_vars => FilesRead'
<1> SUFFICES ASSUME TypeOK, FilesRead, [Next]_vars PROVE FilesRead'
  OBVIOUS
<1>1. UNCHANGED given
  BY GivenStays
<1>2. Tasked' = Tasked /\ script' = script /\ \A o : HasNoSource(o)' = HasNoSource(o) /\ FileRows(o)' = FileRows(o)
  BY <1>1, FixedByGiven
<1> SUFFICES ASSUME NEW o \in Tasked, o \in script.csv, Visited(1, o)', ~HasNoSource(o)
             PROVE  FileRows(o) \subseteq source'
  BY <1>2 DEF FilesRead
<1>3. Visited(1, o) => FileRows(o) \subseteq source
  BY DEF FilesRead
<1>4. CASE UNCHANGED vars
  <2>1. source' = source /\ Visited(1, o)
    BY <1>4, NothingVisitedAnew DEF vars
  <2>2. QED
    BY <1>3, <2>1
<1>5. ASSUME NextTask, source \subseteq source', pass # 7, ~(pass = 1 /\ o = Task) PROVE FileRows(o) \subseteq source'
  BY <1>3, <1>5, VisitedNext
<1>6. CASE pass = 0 /\ CountRecords
  BY <1>5, <1>6 DEF CountRecords
<1>7. ASSUME NEW rows, NEW more, SourceStep(Task, rows, more) PROVE FileRows(o) \subseteq source'
  <2>1. source' = source \cup rows \cup more
    BY <1>7, SourceStepIs
  <2>2. NextTask /\ pass # 7 /\ (pass = 1 /\ o = Task => rows = FileRows(o))
    BY <1>7 DEF SourceStep
  <2>3. QED
    BY <1>5, <2>1, <2>2
<1>8. ASSUME NEW rows, TargetStep(Task, rows) PROVE FileRows(o) \subseteq source'
  BY <1>5, <1>8 DEF TargetStep
<1>9. CASE SkipStep
  BY <1>5, <1>9 DEF SkipStep
<1>10. QED
  BY <1>4, <1>6, <1>7, <1>8, <1>9, NextIs

\* The counts stay once the passes run.
LEMMA FullTargetStays ==
  ASSUME TypeOK, [Next]_vars, pass # 0
  PROVE  counts' = counts /\ failed' = failed /\ \A o : FullTarget(o)' = FullTarget(o) /\ IsAsked(o)' = IsAsked(o)
<1>1. script' = script
  BY GivenStays DEF given
<1>2. counts' = counts /\ failed' = failed
  BY NextIs DEF vars, SourceStep, TargetStep, SkipStep
<1>3. \A o : FullTarget(o)' = FullTarget(o)
  BY <1>1, <1>2 DEF FullTarget, ProcessAllTarget
<1>4. \A o : IsAsked(o)' = IsAsked(o)
  BY <1>1, <1>3 DEF IsAsked, KeyIsSimple
<1>5. QED
  BY <1>2, <1>3, <1>4

\* The target pass reads each object once.
LEMMA TargetInFullStays == TypeOK /\ TargetInFull /\ [Next]_vars => TargetInFull'
<1> SUFFICES ASSUME TypeOK, TargetInFull, [Next]_vars PROVE TargetInFull'
  OBVIOUS
<1>1. UNCHANGED given
  BY GivenStays
<1>2. /\ Tasked' = Tasked
      /\ \A o : /\ HasNoTarget(o)' = HasNoTarget(o) /\ TargetQuery(o)' = TargetQuery(o)
                /\ Matching(TargetQuery(o), "target")' = Matching(TargetQuery(o), "target")
  BY <1>1, FixedByGiven
<1> DEFINE All(o) == Answers(TargetQuery(o), Matching(TargetQuery(o), "target"))
           Fine(o) == IF Visited(6, o)' THEN (FullTarget(o)' /\ ~HasNoTarget(o)) => Of(o, target') \in All(o)
                      ELSE Of(o, target') = {}
<1>3. \A o : All(o)' = All(o)
  BY <1>2
<1> HIDE DEF All
<1> SUFFICES ASSUME NEW o \in Tasked PROVE Fine(o)
  <2>1. TargetInFull' <=> \A o \in Tasked : Fine(o)
    BY <1>2, <1>3 DEF TargetInFull, Of, All
  <2> HIDE DEF Fine
  <2>2. QED
    BY <2>1
<1>4. IF Visited(6, o) THEN (FullTarget(o) /\ ~HasNoTarget(o)) => Of(o, target) \in All(o) ELSE Of(o, target) = {}
  BY DEF TargetInFull, All
<1>5. pass \in 0..7
  BY DEF TypeOK
<1>6. CASE UNCHANGED vars
  <2>1. target' = target /\ (Visited(6, o)' <=> Visited(6, o))
    BY <1>6, NothingVisitedAnew DEF vars
  <2>2. FullTarget(o)' <=> FullTarget(o)
    BY <1>6 DEF vars, FullTarget, ProcessAllTarget
  <2>3. QED
    BY <1>4, <2>1, <2>2
<1>7. CASE pass = 0 /\ CountRecords
  <2>1. NextTask /\ target' = target
    BY <1>7 DEF CountRecords
  <2>2. ~Visited(6, o)' /\ ~Visited(6, o)
    BY <1>7, <2>1, VisitedNext
  <2>3. QED
    BY <1>4, <2>1, <2>2
<1>8. ASSUME NextTask, target' = target, pass # 7, pass # 0, ~(pass = 6 /\ o = Task /\ ~HasNoTarget(o)) PROVE Fine(o)
  <2>1. Visited(6, o)' <=> Visited(6, o) \/ (pass = 6 /\ o = Task)
    BY <1>8, VisitedNext
  <2>2. FullTarget(o)' <=> FullTarget(o)
    BY <1>8, FullTargetStays
  <2>3. QED
    BY <1>4, <1>8, <2>1, <2>2
<1>9. ASSUME NEW rows, NEW more, SourceStep(Task, rows, more) PROVE Fine(o)
  BY <1>8, <1>9 DEF SourceStep
<1>10. ASSUME NEW rows, TargetStep(Task, rows) PROVE Fine(o)
  <2>1. NextTask /\ pass = 6 /\ target' = target \cup rows /\ Task \in Objects
        /\ rows \subseteq Matching(TargetQuery(Task), "target")
    BY <1>10 DEF TargetStep
  <2>2. \A r \in rows : ObjectOf[r] = Task
    BY <2>1, MatchingTyped DEF TypeOK
  <2>3. FullTarget(o)' <=> FullTarget(o)
    BY <2>1, FullTargetStays
  <2>4. CASE o # Task
    <3>1. Visited(6, o)' <=> Visited(6, o)
      BY <2>1, <2>4, VisitedNext
    <3>2. Of(o, target') = Of(o, target)
      BY <2>1, <2>2, <2>4 DEF Of
    <3>3. QED
      BY <1>4, <2>3, <3>1, <3>2
  <2>5. CASE o = Task
    <3>1. Visited(6, o)' /\ ~Visited(6, o)
      BY <2>1, <2>5, VisitedNext
    <3>2. Of(o, target') = rows
      BY <1>4, <2>1, <2>2, <2>5, <3>1 DEF Of
    <3>3. FullTarget(o) => rows \in All(o)
      BY <1>10, <2>5 DEF TargetStep, All
    <3>4. QED
      BY <2>3, <3>1, <3>2, <3>3
  <2>6. QED
    BY <2>4, <2>5
<1>11. CASE SkipStep
  <2>1. NextTask /\ target' = target /\ pass # 7 /\ pass # 0 /\ (pass = 6 => HasNoTarget(Task))
    BY <1>11 DEF SkipStep
  <2>2. QED
    BY <1>8, <2>1
<1>12. QED
  BY <1>6, <1>7, <1>9, <1>10, <1>11, NextIs

\* The counts are taken before the first pass.
LEMMA CountsTakenStay == TypeOK /\ CountsTaken /\ [Next]_vars => CountsTaken'
<1> SUFFICES ASSUME TypeOK, CountsTaken, [Next]_vars PROVE CountsTaken'
  OBVIOUS
<1>1. UNCHANGED given
  BY GivenStays
<1>2. /\ Tasked' = Tasked /\ script' = script /\ scope' = scope
      /\ \A o : IsCountedByQuery(o, "target")' = IsCountedByQuery(o, "target")
      /\ \A o, side : Matching(CountQuery(QueryFor(o, side)), side)' = Matching(CountQuery(QueryFor(o, side)), side)
  BY <1>1, FixedByGiven
<1>3. \A o : \A side \in Sides : Counted(o, side, FALSE)' = Counted(o, side, FALSE)
  BY <1>2 DEF Counted, Uncounted, IsCountedByQuery, CanQueryTarget, Of, Sides
<1> SUFFICES ASSUME NEW o \in Objects, NEW side \in Sides
             PROVE  IF o \in Tasked /\ Visited(0, o)'
                    THEN <<o, side>> \notin failed' => counts'[o][side] = Counted(o, side, FALSE)
                    ELSE counts'[o][side] = 0
  BY <1>2, <1>3 DEF CountsTaken
<1>4. IF o \in Tasked /\ Visited(0, o) THEN <<o, side>> \notin failed => counts[o][side] = Counted(o, side, FALSE)
      ELSE counts[o][side] = 0
  BY DEF CountsTaken
<1>5. CASE UNCHANGED vars
  <2>1. counts' = counts /\ failed' = failed /\ (Visited(0, o)' <=> Visited(0, o))
    BY <1>5, NothingVisitedAnew DEF vars
  <2>2. QED
    BY <1>4, <2>1
<1>6. CASE pass # 0 /\ NextTask /\ pass # 7
  <2>1. counts' = counts /\ failed' = failed
    BY <1>6, FullTargetStays
  <2>2. o \in Tasked => (Visited(0, o)' <=> Visited(0, o))
    BY <1>6, VisitedNext
  <2>3. QED
    BY <1>4, <2>1, <2>2
<1>7. CASE pass = 0 /\ CountRecords
  <2>1. NextTask
    BY <1>7 DEF CountRecords
  <2>2. PICK fails :
          /\ counts' = [counts EXCEPT ![Task] = [s \in Sides |-> Counted(Task, s, s \in fails)]]
          /\ failed' = failed \cup {Task} \X fails
    BY <1>7 DEF CountRecords
  <2>3. Task \in Objects /\ Task \in Tasked
    BY <1>7, <2>1, VisitedNext
  <2>4. counts \in [Objects -> [Sides -> Nat]]
    BY DEF TypeOK
  <2>5. o \in Tasked => (Visited(0, o)' <=> Visited(0, o) \/ o = Task)
    BY <1>7, <2>1, VisitedNext
  <2>6. CASE o # Task
    <3>1. counts'[o] = counts[o]
      BY <2>2, <2>4, <2>6
    <3>2. <<o, side>> \notin failed' => <<o, side>> \notin failed
      BY <2>2
    <3>3. QED
      BY <1>4, <2>5, <2>6, <3>1, <3>2
  <2>7. CASE o = Task
    <3>1. counts'[o][side] = Counted(o, side, side \in fails)
      BY <2>2, <2>3, <2>4, <2>7
    <3>2. <<o, side>> \notin failed' => side \notin fails
      BY <2>2, <2>7
    <3>3. side \notin fails => Counted(o, side, side \in fails) = Counted(o, side, FALSE)
      BY DEF Counted
    <3>4. QED
      BY <2>3, <2>5, <2>7, <3>1, <3>2, <3>3
  <2>8. QED
    BY <2>6, <2>7
<1>8. ASSUME NEW rows, NEW more, SourceStep(Task, rows, more) PROVE pass # 0 /\ pass # 7 /\ NextTask
  BY <1>8 DEF SourceStep
<1>9. ASSUME NEW rows, TargetStep(Task, rows) PROVE pass # 0 /\ pass # 7 /\ NextTask
  BY <1>9 DEF TargetStep
<1>10. SkipStep => pass # 0 /\ pass # 7 /\ NextTask
  BY DEF SkipStep
<1>11. QED
  BY <1>5, <1>6, <1>7, <1>8, <1>9, <1>10, NextIs

\* Subsets of rows have a size, and the smaller a subset the smaller its size.
LEMMA SizesOfRows ==
  ASSUME NEW M \in SUBSET Rows, NEW rows \in SUBSET M
  PROVE  Cardinality(M) \in Nat /\ Cardinality(rows) \in Nat /\ Cardinality(rows) <= Cardinality(M)
<1>1. IsFiniteSet(M)
  BY RowAssumption, FS_Subset
<1>2. IsFiniteSet(rows) /\ Cardinality(rows) <= Cardinality(M)
  BY <1>1, FS_Subset
<1>3. QED
  BY <1>1, <1>2, FS_CardinalityType

\* A count does not look at the limit of the query, nor does what matches it.
LEMMA CountMatches ==
  ASSUME NEW C, NEW q, IsShaped(q, C), NEW side
  PROVE  Matching(CountQuery(q), side) = Matching(q, side)
<1>1. CountQuery(q) = [object |-> q.object, where |-> q.where, limit |-> 0]
  BY DEF IsShaped, CountQuery, WithoutLimits
<1>2. CountQuery(q).object = q.object /\ CountQuery(q).where = q.where
  BY <1>1
<1>3. QED
  BY <1>2 DEF Matching

\* When the source and the target are read the counts tell how many rows that brought.
LEMMA CountsAreRight ==
  TypeOK /\ SourceMatches /\ TargetMatches /\ SourceInFull /\ TargetInFull /\ CountsTaken => CountsRight
<1> SUFFICES ASSUME TypeOK, SourceMatches, TargetMatches, SourceInFull, TargetInFull, CountsTaken, Done, NEW o \in Objects
    PROVE  /\ (o \notin script.csv /\ ~HasNoSource(o) /\ <<o, "source">> \notin failed) =>
                LET n == Cardinality(Of(o, source)) count == counts[o]["source"]
                IN IF ProcessAllSource(o) THEN n = count ELSE Unlimited(o) => n <= count
           /\ (~HasNoTarget(o) /\ <<o, "target">> \notin failed /\ ~IgnoresFilter(o)) =>
                LET n == Cardinality(Of(o, target)) count == counts[o]["target"]
                IN IF ProcessAllTarget(o) THEN n = count ELSE Unlimited(o) => n <= count
  BY DEF CountsRight
<1>1. pass = 7 /\ script \in Scenarios
  BY Modes DEF TypeOK
<1>2. Visited(0, o) /\ Visited(1, o) /\ Visited(6, o)
  BY <1>1 DEF Visited
<1>3. CASE o \notin Tasked
  <2>1. Of(o, source) = {} /\ Of(o, target) = {}
    BY <1>3 DEF SourceMatches, TargetMatches, Of
  <2>2. counts[o]["source"] = 0 /\ counts[o]["target"] = 0
    BY <1>3 DEF CountsTaken, Sides
  <2>3. Cardinality({}) = 0
    BY FS_EmptySet
  <2>4. QED
    BY <2>1, <2>2, <2>3
<1>4. CASE o \in Tasked
  <2>1. ASSUME o \notin script.csv, ~HasNoSource(o), <<o, "source">> \notin failed
        PROVE  IF ProcessAllSource(o) THEN Cardinality(Of(o, source)) = counts[o]["source"]
               ELSE Unlimited(o) => Cardinality(Of(o, source)) <= counts[o]["source"]
    <3> DEFINE q == SourceQuery(o)
               M == Matching(q, "source")
    <3>1. counts[o]["source"] = Counted(o, "source", FALSE)
      BY <1>2, <1>4, <2>1 DEF CountsTaken, Sides
    <3>2. Matching(CountQuery(QueryFor(o, "source")), "source") = M /\ q.limit = script.query[o].limit
      BY <1>1, SourceQueryShaped, CountMatches DEF QueryFor
    <3>3. Counted(o, "source", FALSE) = AtMost(Cardinality(M), q.limit)
      BY <2>1, <3>2 DEF Counted, IsCountedByQuery
    <3>4. M \in SUBSET Rows
      BY RowAssumption DEF Matching, Of
    <3>5. CASE ProcessAllSource(o)
      BY <1>2, <1>4, <2>1, <3>1, <3>3, <3>5 DEF SourceInFull, Answers
    <3>6. CASE ~ProcessAllSource(o) /\ Unlimited(o)
      <4>1. Of(o, source) \in SUBSET M
        BY <2>1 DEF SourceMatches, Of
      <4> HIDE DEF M
      <4>2. Cardinality(Of(o, source)) <= Cardinality(M)
        BY <3>4, <4>1, SizesOfRows
      <4>3. AtMost(Cardinality(M), q.limit) = Cardinality(M)
        BY <3>2, <3>6 DEF AtMost, Unlimited
      <4>4. QED
        BY <3>1, <3>3, <3>6, <4>2, <4>3
    <3>7. QED
      BY <3>5, <3>6
  <2>2. ASSUME ~HasNoTarget(o), <<o, "target">> \notin failed, ~IgnoresFilter(o)
        PROVE  IF ProcessAllTarget(o) THEN Cardinality(Of(o, target)) = counts[o]["target"]
               ELSE Unlimited(o) => Cardinality(Of(o, target)) <= counts[o]["target"]
    <3> DEFINE q == TargetQuery(o)
               M == Matching(q, "target")
    <3>1. counts[o]["target"] = Counted(o, "target", FALSE)
      BY <1>2, <1>4, <2>2 DEF CountsTaken, Sides
    <3>2. Matching(CountQuery(QueryFor(o, "target")), "target") = M /\ q.limit = script.query[o].limit
      BY <1>1, <2>2, TargetQueryShaped, CountMatches DEF QueryFor
    <3>3. Counted(o, "target", FALSE) = AtMost(Cardinality(M), q.limit)
      BY <2>2, <3>2 DEF Counted, IsCountedByQuery, HasNoTarget
    <3>4. M \in SUBSET Rows
      BY RowAssumption DEF Matching, Of
    <3>5. CASE ProcessAllTarget(o)
      <4>1. FullTarget(o)
        BY <2>2, <3>5 DEF FullTarget, IgnoresFilter
      <4>2. QED
        BY <1>2, <1>4, <2>2, <3>1, <3>3, <3>5, <4>1 DEF TargetInFull, Answers
    <3>6. CASE ~ProcessAllTarget(o) /\ Unlimited(o)
      <4>1. Of(o, target) \in SUBSET M
        BY DEF TargetMatches, Of
      <4> HIDE DEF M
      <4>2. Cardinality(Of(o, target)) <= Cardinality(M)
        BY <3>4, <4>1, SizesOfRows
      <4>3. AtMost(Cardinality(M), q.limit) = Cardinality(M)
        BY <3>2, <3>6 DEF AtMost, Unlimited
      <4>4. QED
        BY <3>1, <3>3, <3>6, <4>2, <4>3
    <3>7. QED
      BY <3>5, <3>6
  <2>3. QED
    BY <2>1, <2>2
<1>5. QED
  BY <1>3, <1>4

\* Nothing has been counted or read at the start.
LEMMA CountingStarts == Init => SourceMatches /\ TargetMatches /\ SourceInFull /\ TargetInFull /\ CountsTaken /\ FilesRead
<1> SUFFICES ASSUME Init PROVE SourceMatches /\ TargetMatches /\ SourceInFull /\ TargetInFull /\ CountsTaken /\ FilesRead
  OBVIOUS
<1>1. source = {} /\ target = {} /\ \A p \in 0..6 : \A o : ~Visited(p, o)
  BY NothingVisited
<1>2. SourceMatches /\ TargetMatches
  BY <1>1 DEF SourceMatches, TargetMatches
<1>3. SourceInFull /\ TargetInFull /\ FilesRead
  BY <1>1 DEF SourceInFull, TargetInFull, FilesRead, Of
<1>4. CountsTaken
  <2>1. \A o \in Objects, side \in Sides : counts[o][side] = 0
    BY DEF Init
  <2>2. \A o : ~Visited(0, o)
    BY <1>1
  <2>3. QED
    BY <2>1, <2>2 DEF CountsTaken
<1>5. QED
  BY <1>2, <1>3, <1>4

\* The counts tell what is read: exactly for an object read in full, whatever its filters and
\* its limit, and never too few for one read through lookups, unless the count failed.
THEOREM RetrieveCountsRight == Spec => []CountsRight
<1> DEFINE Inv == TypeOK /\ SourceMatches /\ TargetMatches /\ SourceInFull /\ TargetInFull /\ CountsTaken
<1>1. Init => Inv
  BY TypesStart, CountingStarts
<1>2. Inv /\ [Next]_vars => Inv'
  BY TypesStay, SourceMatchesStays, TargetMatchesStays, SourceInFullStays, TargetInFullStays, CountsTakenStay
<1>3. Inv => CountsRight
  BY CountsAreRight
<1>4. QED
  BY <1>1, <1>2, <1>3, PTL DEF Spec

-----------------------------------------------------------------------------
\* The target of what was read

\* External ids are asked for in the target pass only.
LEMMA ExternalIdsCachedStay == TypeOK /\ ExternalIdsCached /\ [Next]_vars => ExternalIdsCached'
<1> SUFFICES ASSUME TypeOK, ExternalIdsCached, [Next]_vars PROVE ExternalIdsCached'
  OBVIOUS
<1>1. Tasked' = Tasked
  BY GivenStays, FixedByGiven
<1> SUFFICES ASSUME NEW c \in cache', c[2] = "ExternalId" PROVE c[1] \in Tasked /\ Visited(6, c[1])'
  BY <1>1 DEF ExternalIdsCached
<1>2. c \in cache => c[1] \in Tasked /\ Visited(6, c[1])
  BY DEF ExternalIdsCached
<1>3. CASE UNCHANGED vars
  <2>1. c \in cache
    BY <1>3 DEF vars
  <2>2. QED
    BY <1>2, <1>3, <2>1, NothingVisitedAnew
<1>4. ASSUME c \in cache, NextTask, pass # 7 PROVE c[1] \in Tasked /\ Visited(6, c[1])'
  BY <1>2, <1>4, VisitedNext
<1>5. ASSUME NEW rows, NEW more, SourceStep(Task, rows, more) PROVE c[1] \in Tasked /\ Visited(6, c[1])'
  <2>1. NextTask /\ pass # 7 /\ pass \in 1..5 /\ (cache' = cache \/ cache' = Asked(Task))
    BY <1>5 DEF SourceStep
  <2>2. Mode # "target"
    BY <2>1, Modes
  <2>3. \A v \in NewValues(Task) : v[1] # "ExternalId"
    BY <2>2, NameAssumption DEF NewValues, FilterValues, ParentValues, ChildValues
  <2>4. \A a \in Asked(Task) : a[2] = "ExternalId" => a \in cache
    BY <2>3 DEF Asked
  <2>5. c \in cache
    BY <2>1, <2>4
  <2>6. QED
    BY <1>4, <2>1, <2>5
<1>6. ASSUME NEW rows, TargetStep(Task, rows) PROVE c[1] \in Tasked /\ Visited(6, c[1])'
  <2>1. NextTask /\ pass = 6 /\ (cache' = cache \/ cache' = Asked(Task))
    BY <1>6 DEF TargetStep
  <2>2. \A a \in Asked(Task) : a \in cache \/ a[1] = Task
    BY DEF Asked
  <2>3. Task \in Tasked
    BY <2>1, VisitedNext
  <2>4. CASE c \in cache
    BY <1>4, <2>1, <2>4
  <2>5. CASE c \notin cache
    <3>1. c[1] = Task
      BY <2>1, <2>2, <2>5
    <3>2. c[1] \in Tasked /\ c[1] = Task /\ pass = 6
      BY <2>1, <2>3, <3>1
    <3>3. Visited(6, c[1])'
      BY <2>1, <3>2, VisitedNext
    <3>4. QED
      BY <3>2, <3>3
  <2>6. QED
    BY <2>4, <2>5
<1>7. CASE pass = 0 /\ CountRecords
  BY <1>4, <1>7 DEF CountRecords
<1>8. CASE SkipStep
  BY <1>4, <1>8 DEF SkipStep
<1>9. QED
  BY <1>3, <1>5, <1>6, <1>7, <1>8, NextIs

\* A query without a limit that is answered in full brings all that matches.
LEMMA AllAnswered ==
  ASSUME NEW q, NEW side, q.limit = 0, NEW rows \in Answers(q, Matching(q, side))
  PROVE  rows = Matching(q, side)
<1> DEFINE M == Matching(q, side)
<1>1. M \in SUBSET Rows
  BY RowAssumption DEF Matching, Of
<1>2. rows \in SUBSET M /\ Cardinality(rows) = Cardinality(M)
  BY DEF Answers, AtMost
<1> HIDE DEF M
<1>3. IsFiniteSet(M)
  BY <1>1, RowAssumption, FS_Subset
<1>4. rows = M
  BY <1>2, <1>3, FS_Subset
<1>5. QED
  BY <1>4 DEF M

\* The target pass finds what it has to.
LEMMA TargetFoundStays ==
  TypeOK /\ SourceMatches /\ ExternalIdsCached /\ TargetFound /\ [Next]_vars => TargetFound'
<1> SUFFICES ASSUME TypeOK, SourceMatches, ExternalIdsCached, TargetFound, [Next]_vars PROVE TargetFound'
  OBVIOUS
<1>1. UNCHANGED given
  BY GivenStays
<1>2. Tasked' = Tasked /\ \A r : ToFind(r)' <=> ToFind(r)
  BY <1>1, FixedByGiven
<1> SUFFICES ASSUME NEW r \in source' \cap InTarget, Visited(6, ObjectOf[r])', ToFind(r), IsAsked(ObjectOf[r])'
             PROVE  r \in target'
  BY <1>2 DEF TargetFound
<1> DEFINE o == ObjectOf[r]
<1>3. o \in Tasked
  BY <1>2, SourceMatchesStays DEF SourceMatches
<1>4. r \in source /\ Visited(6, o) /\ IsAsked(o) => r \in target
  BY DEF TargetFound
<1>5. CASE UNCHANGED vars
  <2>1. source' = source /\ target' = target /\ Visited(6, o)
    BY <1>5, NothingVisitedAnew DEF vars
  <2>2. IsAsked(o)
    BY <1>5 DEF vars, IsAsked, KeyIsSimple, FullTarget, ProcessAllTarget
  <2>3. QED
    BY <1>4, <2>1, <2>2
<1>6. ASSUME NextTask, source' = source, target \subseteq target', pass # 7, pass # 0, ~(pass = 6 /\ o = Task)
      PROVE  r \in target'
  <2>1. Visited(6, o)
    BY <1>3, <1>6, VisitedNext
  <2>2. IsAsked(o)
    BY <1>6, FullTargetStays
  <2>3. QED
    BY <1>4, <1>6, <2>1, <2>2
<1>7. CASE pass = 0 /\ CountRecords
  <2>1. NextTask
    BY <1>7 DEF CountRecords
  <2>2. ~Visited(6, o)'
    BY <1>3, <1>7, <2>1, VisitedNext
  <2>3. QED
    BY <2>2
<1>8. ASSUME NEW rows, NEW more, SourceStep(Task, rows, more) PROVE r \in target'
  <2>1. NextTask /\ pass \in 1..5
    BY <1>8 DEF SourceStep
  <2>2. ~Visited(6, o)'
    BY <1>3, <2>1, VisitedNext
  <2>3. QED
    BY <2>2
<1>9. ASSUME NEW rows, TargetStep(Task, rows) PROVE r \in target'
  <2>1. NextTask /\ source' = source /\ target' = target \cup rows /\ pass = 6 /\ Task \in Objects
    BY <1>9 DEF TargetStep
  <2>2. CASE o = Task
    <3> DEFINE q == TargetQuery(o)
    <3>1. /\ q.limit = IF IgnoresFilter(o) THEN 0 ELSE script.query[o].limit
          /\ (IgnoresFilter(o) \/ r \in TargetScope) => r \in Matching(q, "target")
      BY <2>1, <2>2, TargetQueryShaped DEF TypeOK
    <3>2. /\ ~HasNoTarget(o) /\ (IgnoresFilter(o) \/ (Unlimited(o) /\ r \in TargetScope))
          /\ ~(o \in script.byId /\ script.operation[o] = "DeleteHierarchy")
      BY DEF ToFind
    <3>3. q.limit = 0 /\ r \in Matching(q, "target")
      BY <3>1, <3>2 DEF Unlimited
    <3> HIDE DEF q
    <3>4. CASE FullTarget(o)
      <4>1. rows \in Answers(q, Matching(q, "target"))
        BY <1>9, <2>2, <3>4 DEF TargetStep, q
      <4>2. rows = Matching(q, "target")
        BY <3>3, <4>1, AllAnswered
      <4>3. QED
        BY <2>1, <3>3, <4>2
    <3>5. CASE ~FullTarget(o)
      <4>1. \A v \in NewValues(o), x \in Matching(q, "target") : Meets(v, x) => x \in rows
        BY <1>9, <2>2, <3>3, <3>5 DEF TargetStep, q
      <4>2. o \notin script.byId
        BY <3>2, <3>5 DEF FullTarget, ProcessAllTarget
      <4> DEFINE v == <<"ExternalId", r>>
      <4>3. Mode = "target"
        BY <2>1, Modes
      <4>4. v \in FilterValues(o)
        <5>1. KeyIsSimple(o)
          BY <2>1, <3>5, FullTargetStays DEF IsAsked
        <5>2. QED
          BY <2>1, <4>2, <4>3, <5>1 DEF FilterValues, ExternalIdValues, ExternalIdField, Of
      <4>5. <<o, "ExternalId", r>> \notin cache
        <5>1. ~Visited(6, o)
          BY <1>3, <2>1, <2>2, VisitedNext
        <5> DEFINE c == <<o, "ExternalId", r>>
        <5>2. c[1] = o /\ c[2] = "ExternalId"
          OBVIOUS
        <5> HIDE DEF c, o
        <5>3. c \notin cache
          BY <5>1, <5>2 DEF ExternalIdsCached
        <5>4. QED
          BY <5>3 DEF c
      <4>6. v \in NewValues(o)
        BY <4>4, <4>5 DEF NewValues
      <4>7. Meets(v, r)
        BY NameAssumption DEF Meets
      <4>8. r \in rows
        BY <3>3, <4>1, <4>6, <4>7
      <4>9. QED
        BY <2>1, <4>8
    <3>6. QED
      BY <3>4, <3>5
  <2>3. CASE o # Task
    BY <1>6, <2>1, <2>3
  <2>4. QED
    BY <2>2, <2>3
<1>10. CASE SkipStep
  <2>1. NextTask /\ source' = source /\ target' = target /\ pass # 7 /\ pass # 0 /\ (pass = 6 => HasNoTarget(Task))
    BY <1>10 DEF SkipStep
  <2>2. ~HasNoTarget(o)
    BY DEF ToFind
  <2>3. QED
    BY <1>6, <2>1, <2>2
<1>11. QED
  BY <1>5, <1>7, <1>8, <1>9, <1>10, NextIs

\* Whichever way the target is read, in full or by external ids in as many queries as they
\* need, every target record that matches the filter and has the external id of a retrieved
\* source record is found; excepted are a LIMIT, deleting by hierarchy what is matched by
\* Id, and a composite or lookup external id where the target is not read in full: there
\* the job asks for nothing.
THEOREM RetrieveTargetComplete == Spec => []TargetComplete
<1> DEFINE Inv == TypeOK /\ SourceMatches /\ ExternalIdsCached /\ TargetFound
<1>1. Init => Inv
  BY TypesStart, CountingStarts, NothingVisited DEF ExternalIdsCached, TargetFound
<1>2. Inv /\ [Next]_vars => Inv'
  BY TypesStay, SourceMatchesStays, ExternalIdsCachedStay, TargetFoundStays
<1>3. Inv => TargetComplete
  <2> SUFFICES ASSUME Inv, Done, NEW r \in source \cap InTarget, ToFind(r), IsAsked(ObjectOf[r]) PROVE r \in target
    BY DEF TargetComplete, ToFind, IsAsked
  <2>1. pass = 7
    BY Modes DEF TypeOK
  <2>2. Visited(6, ObjectOf[r])
    BY <2>1 DEF Visited
  <2>3. QED
    BY <2>2 DEF TargetFound
<1>4. QED
  BY <1>1, <1>2, <1>3, PTL DEF Spec

-----------------------------------------------------------------------------
\* The relatives of what was read

\* A row is read first by the pass that is noted for it.
LEMMA FirstReadStays == TypeOK /\ FirstRead /\ [Next]_vars => FirstRead'
<1> SUFFICES ASSUME TypeOK, FirstRead, [Next]_vars, NEW r \in Rows
             PROVE  (first'[r] > 0 <=> r \in source') /\ first'[r] <= pass'
  BY DEF FirstRead
<1>1. (first[r] > 0 <=> r \in source) /\ first[r] <= pass /\ pass \in 0..7 /\ first[r] \in 0..6
  BY DEF FirstRead, TypeOK
<1>2. CASE UNCHANGED vars
  BY <1>1, <1>2 DEF vars
<1>3. ASSUME NextTask, UNCHANGED <<source, first>>, pass # 7 PROVE (first'[r] > 0 <=> r \in source') /\ first'[r] <= pass'
  <2>1. pass <= pass' /\ pass' \in 0..7
    BY <1>3, VisitedNext
  <2>2. QED
    BY <1>1, <1>3, <2>1
<1>4. ASSUME NEW rows, NEW more, SourceStep(Task, rows, more) PROVE (first'[r] > 0 <=> r \in source') /\ first'[r] <= pass'
  <2>1. NextTask /\ pass \in 1..5
    BY <1>4 DEF SourceStep
  <2>2. pass <= pass' /\ pass' \in 0..7
    BY <2>1, VisitedNext
  <2>3. source \subseteq source' /\ first'[r] = IF r \in source' /\ r \notin source THEN pass ELSE first[r]
    BY <1>4, SourceStepIs
  <2>4. QED
    BY <1>1, <2>1, <2>2, <2>3
<1>5. CASE pass = 0 /\ CountRecords
  BY <1>3, <1>5 DEF CountRecords
<1>6. ASSUME NEW rows, TargetStep(Task, rows) PROVE (first'[r] > 0 <=> r \in source') /\ first'[r] <= pass'
  BY <1>3, <1>6 DEF TargetStep
<1>7. CASE SkipStep
  BY <1>3, <1>7 DEF SkipStep
<1>8. QED
  BY <1>2, <1>4, <1>5, <1>6, <1>7, NextIs

\* No step forgets a row of the source.
LEMMA SourceGrows ==
  ASSUME TypeOK, [Next]_vars
  PROVE  source \subseteq source'
<1>1. ASSUME NEW rows, NEW more, SourceStep(Task, rows, more) PROVE source \subseteq source'
  BY <1>1, SourceStepIs
<1>2. QED
  BY <1>1, NextIs DEF vars, CountRecords, TargetStep, SkipStep

\* A wanted row that meets a value in an IN clause is read.
LEMMA WantedIsRead ==
  ASSUME TypeOK, NEW rows, NEW more, SourceStep(Task, rows, more), cache' # cache,
         NEW v \in NewValues(Task), NEW r, ObjectOf[r] = Task, IsWanted(r), Meets(v, r)
  PROVE  r \in source'
<1>1. Brings(Task, rows)
  BY DEF SourceStep
<1>2. Unlimited(Task) /\ r \in Matching(SourceQuery(Task), "source")
  BY DEF IsWanted
<1>3. r \in rows
  BY <1>1, <1>2 DEF Brings
<1>4. QED
  BY <1>3, SourceStepIs

\* The values of an IN clause are parents or, as Id, rows themselves.
LEMMA ValuesOfModes ==
  ASSUME TypeOK, pass \in 1..6, NEW o \in Objects, NEW v \in FilterValues(o)
  PROVE  /\ pass \in 1..5 => v[1] \in Objects \/ v[1] = "Id"
         /\ pass = 6 => v[1] \notin Objects /\ v[2] \in source
<1>1. (Mode = "target" <=> pass = 6) /\ (Mode = "reversed" <=> pass \in 4..5)
  BY Modes
<1>2. pass \in 1..5 => v \in ParentValues(o) \/ v \in ChildValues(o)
  BY <1>1 DEF FilterValues
<1>3. pass = 6 => v \in ExternalIdValues(o)
  BY <1>1 DEF FilterValues
<1>4. v \in ExternalIdValues(o) => v[1] \notin Objects /\ v[2] \in source
  BY NameAssumption DEF ExternalIdValues, ExternalIdField, Of
<1>5. QED
  BY <1>2, <1>3, <1>4 DEF ParentValues, ChildValues

\* Rows asked for by their Id are read.
LEMMA IdsCachedStay == TypeOK /\ IdsCached /\ [Next]_vars => IdsCached'
<1> SUFFICES ASSUME TypeOK, IdsCached, [Next]_vars PROVE IdsCached'
  OBVIOUS
<1>1. \A r : IsWanted(r)' <=> IsWanted(r)
  BY GivenStays, FixedByGiven
<1> SUFFICES ASSUME NEW c \in cache', c[2] = "Id", ObjectOf[c[3]] = c[1], IsWanted(c[3]) PROVE c[3] \in source'
  BY <1>1 DEF IdsCached
<1>2. c \in cache => c[3] \in source'
  BY SourceGrows DEF IdsCached
<1>3. ASSUME c \notin cache, cache' = Asked(Task)
      PROVE  \E v \in NewValues(Task) : c[1] = Task /\ c[2] = v[1] /\ c[3] = v[2]
  BY <1>3 DEF Asked
<1>4. ASSUME NEW rows, NEW more, SourceStep(Task, rows, more), c \notin cache PROVE c[3] \in source'
  <2>1. cache' = Asked(Task) /\ cache' # cache
    BY <1>4 DEF SourceStep
  <2>2. PICK v \in NewValues(Task) : c[1] = Task /\ c[2] = v[1] /\ c[3] = v[2]
    BY <1>3, <1>4, <2>1
  <2>3. Meets(v, c[3])
    BY <2>2, NameAssumption DEF Meets
  <2>4. QED
    BY <1>4, <2>1, <2>2, <2>3, WantedIsRead
<1>5. ASSUME NEW rows, TargetStep(Task, rows), c \notin cache PROVE c[3] \in source'
  <2>1. cache' = Asked(Task) /\ pass = 6 /\ source' = source /\ Task \in Objects
    BY <1>5 DEF TargetStep
  <2>2. PICK v \in NewValues(Task) : c[1] = Task /\ c[2] = v[1] /\ c[3] = v[2]
    BY <1>3, <1>5, <2>1
  <2>3. v[2] \in source
    BY <2>1, <2>2, ValuesOfModes DEF NewValues
  <2>4. QED
    BY <2>1, <2>2, <2>3
<1>6. QED
  BY <1>2, <1>4, <1>5, NextIs DEF vars, CountRecords, SkipStep

\* The children of parents asked for are read.
LEMMA ParentsCachedStay == TypeOK /\ ParentsCached /\ [Next]_vars => ParentsCached'
<1> SUFFICES ASSUME TypeOK, ParentsCached, [Next]_vars PROVE ParentsCached'
  OBVIOUS
<1>1. link' = link /\ \A r : IsWanted(r)' <=> IsWanted(r)
  BY GivenStays, FixedByGiven
<1> SUFFICES ASSUME NEW c \in cache', c[2] \in Objects, NEW r \in Of(c[1], Rows), <<r, c[3]>> \in link, IsWanted(r)
             PROVE  r \in source'
  BY <1>1 DEF ParentsCached, Of
<1>2. c \in cache => r \in source'
  BY SourceGrows DEF ParentsCached
<1>3. ASSUME c \notin cache, cache' = Asked(Task)
      PROVE  \E v \in NewValues(Task) : c[1] = Task /\ c[2] = v[1] /\ c[3] = v[2]
  BY <1>3 DEF Asked
<1>4. ASSUME NEW rows, NEW more, SourceStep(Task, rows, more), c \notin cache PROVE r \in source'
  <2>1. cache' = Asked(Task) /\ cache' # cache
    BY <1>4 DEF SourceStep
  <2>2. PICK v \in NewValues(Task) : c[1] = Task /\ c[2] = v[1] /\ c[3] = v[2]
    BY <1>3, <1>4, <2>1
  <2>3. Meets(v, r) /\ ObjectOf[r] = Task
    BY <2>2 DEF Meets, Of
  <2>4. QED
    BY <1>4, <2>1, <2>2, <2>3, WantedIsRead
<1>5. ASSUME NEW rows, TargetStep(Task, rows), c \notin cache PROVE FALSE
  <2>1. cache' = Asked(Task) /\ pass = 6 /\ Task \in Objects
    BY <1>5 DEF TargetStep
  <2>2. PICK v \in NewValues(Task) : c[1] = Task /\ c[2] = v[1] /\ c[3] = v[2]
    BY <1>3, <1>5, <2>1
  <2>3. v[1] \notin Objects
    BY <2>1, <2>2, ValuesOfModes DEF NewValues
  <2>4. QED
    BY <2>2, <2>3
<1>6. QED
  BY <1>2, <1>4, <1>5, NextIs DEF vars, CountRecords, SkipStep

\* What the first pass reads in full, or from a file, is there from then on.
LEMMA ReadByFirstPass ==
  ASSUME TypeOK, SourceInFull, FilesRead, NEW r \in Rows, IsWanted(r), ObjectOf[r] \in Tasked, Visited(1, ObjectOf[r]),
         ProcessAllSource(ObjectOf[r]) \/ ObjectOf[r] \in script.csv
  PROVE  r \in source
<1> DEFINE o == ObjectOf[r]
           q == SourceQuery(o)
<1>1. ~HasNoSource(o) /\ Unlimited(o) /\ r \in Matching(q, "source") /\ (o \in script.csv => r \in FileRows(o))
  BY DEF IsWanted
<1>2. CASE o \in script.csv
  BY <1>1, <1>2 DEF FilesRead
<1>3. CASE o \notin script.csv
  <2>1. Of(o, source) \in Answers(q, Matching(q, "source"))
    BY <1>1, <1>3 DEF SourceInFull
  <2>2. q.limit = 0
    <3>1. o \in Objects
      BY DEF Objects
    <3>2. QED
      BY <1>1, <3>1, SourceQueryShaped DEF TypeOK, Unlimited
  <2> HIDE DEF q
  <2>3. Of(o, source) = Matching(q, "source")
    BY <2>1, <2>2, AllAnswered
  <2>4. QED
    BY <1>1, <2>3 DEF Of
<1>4. QED
  BY <1>2, <1>3

\* A task reads all wanted rows that meet one of its values, now or before.
LEMMA AskedIsRead ==
  ASSUME TypeOK, SourceInFull, FilesRead, IdsCached, ParentsCached, pass \in 2..5, NextTask,
         SkipStep \/ \E rows, more : SourceStep(Task, rows, more),
         NEW r \in Rows, ObjectOf[r] = Task, IsWanted(r), 
         ProcessAllSource(Task) \/ \E v \in FilterValues(Task) : Meets(v, r)
  PROVE  r \in source'
<1>1. Task \in Tasked /\ Task \in Objects /\ Visited(1, Task)
  <2>1. Task \in Tasked /\ Task \in Objects
    BY VisitedNext
  <2>2. QED
    BY <2>1, VisitedNext
<1>2. source \subseteq source'
  <2>1. ASSUME NEW rows, NEW more, SourceStep(Task, rows, more) PROVE source \subseteq source'
    BY <2>1, SourceStepIs
  <2>2. QED
    BY <2>1 DEF SkipStep
<1>3. CASE ProcessAllSource(Task)
  BY <1>1, <1>2, <1>3, ReadByFirstPass
<1>4. CASE ~ProcessAllSource(Task)
  <2>1. PICK v \in FilterValues(Task) : Meets(v, r)
    BY <1>4
  <2>2. ~SkipStep
    BY <1>4 DEF SkipStep, IsWanted
  <2>3. PICK rows, more : SourceStep(Task, rows, more)
    BY <2>2
  <2>4. Brings(Task, rows)
    BY <1>4, <2>3 DEF SourceStep
  <2>5. CASE v \in NewValues(Task)
    <3>1. Unlimited(Task) /\ r \in Matching(SourceQuery(Task), "source")
      BY DEF IsWanted
    <3>2. r \in rows
      BY <2>1, <2>4, <2>5, <3>1 DEF Brings
    <3>3. QED
      BY <2>3, <3>2, SourceStepIs
  <2>6. CASE v \notin NewValues(Task)
    <3> DEFINE c == <<Task, v[1], v[2]>>
    <3>1. c \in cache
      BY <2>1, <2>6 DEF NewValues
    <3>2. c[1] = Task /\ c[2] = v[1] /\ c[3] = v[2]
      OBVIOUS
    <3> HIDE DEF c
    <3>3. v[1] \in Objects \/ v[1] = "Id"
      BY <1>1, <2>1, ValuesOfModes
    <3>4. CASE v[1] \in Objects
      <4>1. <<r, c[3]>> \in link /\ r \in Of(c[1], Rows)
        BY <2>1, <3>2, <3>4 DEF Meets, Of
      <4>2. r \in source
        BY <3>1, <3>2, <3>4, <4>1 DEF ParentsCached
      <4>3. QED
        BY <1>2, <4>2
    <3>5. CASE v[1] = "Id"
      <4>1. r = c[3]
        BY <2>1, <3>2, <3>5, NameAssumption DEF Meets
      <4>2. r \in source
        BY <3>1, <3>2, <3>5, <4>1 DEF IdsCached
      <4>3. QED
        BY <1>2, <4>2
    <3>6. QED
      BY <3>3, <3>4, <3>5
  <2>7. QED
    BY <2>5, <2>6
<1>5. QED
  BY <1>3, <1>4

\* The objects of a lookup have tasks.
LEMMA LinkedAreTasked ==
  ASSUME TypeOK, NEW l \in link
  PROVE  /\ ObjectOf[l[1]] \in Tasked /\ ObjectOf[l[2]] \in Tasked
         /\ l[1] \in Rows /\ l[2] \in Rows /\ l = <<l[1], l[2]>>
<1>1. l = <<l[1], l[2]>> /\ l[1] \in Rows /\ l[2] \in Rows /\ <<ObjectOf[l[1]], ObjectOf[l[2]]>> \in script.lookups
  BY LinksArePairs
<1>2. script.lookups \subseteq Tasked \X Tasked
  BY ScenarioAssumption DEF TypeOK, IsScenario, Tasked
<1>3. QED
  BY <1>1, <1>2

\* A pass that visits a task anew is under way.
LEMMA VisitedByStep ==
  ASSUME TypeOK, [Next]_vars, NEW p \in 2..5, NEW o \in Tasked, Visited(p, o)', ~Visited(p, o)
  PROVE  /\ pass = p /\ o = Task /\ NextTask
         /\ SkipStep \/ \E rows, more : SourceStep(Task, rows, more)
<1>1. ~UNCHANGED vars
  BY NothingVisitedAnew
<1>2. ASSUME NextTask, pass # 7 PROVE pass = p /\ o = Task
  BY <1>2, VisitedNext
<1>3. CASE pass = 0 /\ CountRecords
  BY <1>2, <1>3 DEF CountRecords
<1>4. ASSUME NEW rows, NEW more, SourceStep(Task, rows, more) PROVE pass = p /\ o = Task /\ NextTask
  BY <1>2, <1>4 DEF SourceStep
<1>5. ASSUME NEW rows, TargetStep(Task, rows) PROVE FALSE
  BY <1>2, <1>5 DEF TargetStep
<1>6. CASE SkipStep
  BY <1>2, <1>6 DEF SkipStep
<1>7. QED
  BY <1>1, <1>3, <1>4, <1>5, <1>6, NextIs

\* What was read by an earlier pass stays as it is.
LEMMA FirstStays ==
  ASSUME TypeOK, FirstRead, [Next]_vars, NEW r \in Rows
  PROVE  /\ r \in source => first'[r] = first[r]
         /\ \A p \in 1..6 : (first'[r] \in 1..(p - 1) /\ p <= pass) => first'[r] = first[r]
<1>1. (first[r] > 0 <=> r \in source) /\ first[r] \in 0..6 /\ pass \in 0..7
  BY DEF FirstRead, TypeOK
<1>2. first'[r] = first[r] \/ (r \notin source /\ first'[r] = pass)
  <2>1. ASSUME NEW rows, NEW more, SourceStep(Task, rows, more) PROVE first'[r] = first[r] \/ (r \notin source /\ first'[r] = pass)
    BY <2>1, SourceStepIs
  <2>2. QED
    BY <2>1, NextIs DEF vars, CountRecords, TargetStep, SkipStep
<1>3. QED
  BY <1>1, <1>2

\* The reversed passes read the parents of what was read before them.
LEMMA ParentsReadStays ==
  /\ TypeOK /\ SourceInFull /\ FilesRead /\ IdsCached /\ ParentsCached /\ FirstRead /\ FirstRead' /\ ParentsRead
  /\ [Next]_vars
  => ParentsRead'
<1> SUFFICES ASSUME TypeOK, SourceInFull, FilesRead, IdsCached, ParentsCached, FirstRead, FirstRead', ParentsRead, [Next]_vars
             PROVE  ParentsRead'
  OBVIOUS
<1>1. link' = link /\ \A r : IsWanted(r)' <=> IsWanted(r)
  BY GivenStays, FixedByGiven
<1> SUFFICES ASSUME NEW l \in link, NEW p \in 4..5, IsWanted(l[2]), Visited(p, ObjectOf[l[2]])', first'[l[1]] \in 1..(p - 1)
             PROVE  first'[l[2]] \in 1..p
  BY <1>1 DEF ParentsRead
<1> DEFINE o == ObjectOf[l[2]]
           c == l[1]
           r == l[2]
<1>2. o \in Tasked /\ c \in Rows /\ r \in Rows /\ l = <<c, r>> /\ o \in Objects
  BY LinkedAreTasked DEF Objects
<1>3. (first[c] > 0 <=> c \in source) /\ (first[r] > 0 <=> r \in source) /\ first[r] <= pass
      /\ (first'[r] > 0 <=> r \in source') /\ first[c] \in 0..6 /\ first[r] \in 0..6 /\ first'[r] \in 0..6 /\ pass \in 0..7
  BY <1>2, TypesStay DEF FirstRead, TypeOK
<1>4. /\ r \in source => first'[r] = first[r]
      /\ p <= pass => first'[c] = first[c]
      /\ first'[r] = first[r] \/ first'[r] = pass
  <2>1. p \in 1..6
    OBVIOUS
  <2>2. first'[r] = first[r] \/ first'[r] = pass
    <3>1. ASSUME NEW rows, NEW more, SourceStep(Task, rows, more) PROVE first'[r] = first[r] \/ first'[r] = pass
      BY <1>2, <3>1, SourceStepIs
    <3>2. QED
      BY <3>1, NextIs DEF vars, CountRecords, TargetStep, SkipStep
  <2>3. QED
    BY <1>2, <2>1, <2>2, FirstStays
<1>5. CASE Visited(p, o)
  <2>1. p <= pass
    BY <1>3, <1>5 DEF Visited
  <2>2. first[c] \in 1..(p - 1)
    BY <1>4, <2>1
  <2>3. first[r] \in 1..p
    BY <1>5, <2>2 DEF ParentsRead
  <2>4. QED
    BY <1>3, <1>4, <2>3
<1>6. CASE ~Visited(p, o)
  <2>1. p \in 2..5
    OBVIOUS
  <2>2. pass = p /\ o = Task /\ NextTask /\ (SkipStep \/ \E rows, more : SourceStep(Task, rows, more))
    <3> HIDE DEF o
    <3>1. QED
      BY <1>2, <1>6, <2>1, VisitedByStep DEF o
  <2>3. c \in source
    BY <1>3, <1>4, <2>2
  <2>4. ProcessAllSource(Task) \/ \E v \in FilterValues(Task) : Meets(v, r)
    <3>1. ASSUME ~ProcessAllSource(o) PROVE <<"Id", r>> \in FilterValues(o)
      <4>1. o \notin script.special
        BY <3>1 DEF ProcessAllSource
      <4>2. <<"Id", r>> \in ChildValues(o)
        BY <2>3, <4>1 DEF ChildValues
      <4>3. Mode = "reversed"
        BY <2>2, Modes
      <4>4. QED
        BY <4>2, <4>3 DEF FilterValues
    <3>2. Meets(<<"Id", r>>, r)
      <4> DEFINE v == <<"Id", r>>
      <4>1. v[1] = "Id" /\ v[2] = r
        OBVIOUS
      <4> HIDE DEF v, r
      <4>2. Meets(v, r)
        BY <4>1, NameAssumption DEF Meets
      <4>3. QED
        BY <4>2 DEF v
    <3> HIDE DEF o, r
    <3>3. QED
      BY <2>2, <3>1, <3>2
  <2>5. r \in source'
    <3>1. pass \in 2..5
      BY <2>2
    <3>2. ObjectOf[r] = Task /\ IsWanted(r)
      BY <2>2
    <3> HIDE DEF o, r, c
    <3>3. QED
      BY <1>2, <2>2, <2>4, <3>1, <3>2, AskedIsRead
  <2>6. QED
    BY <1>3, <1>4, <2>2, <2>5
<1>7. QED
  BY <1>5, <1>6

\* The backward passes read the children of what was read before the last of them.
LEMMA ChildrenReadStays ==
  /\ TypeOK /\ SourceInFull /\ FilesRead /\ IdsCached /\ ParentsCached /\ FirstRead /\ ChildrenRead /\ [Next]_vars
  => ChildrenRead'
<1> SUFFICES ASSUME TypeOK, SourceInFull, FilesRead, IdsCached, ParentsCached, FirstRead, ChildrenRead, [Next]_vars
             PROVE  ChildrenRead'
  OBVIOUS
<1>1. /\ link' = link /\ script' = script /\ \A r : IsWanted(r)' <=> IsWanted(r)
      /\ \A o : IndexOf(o)' = IndexOf(o) /\ \A q : MayNarrow(<<o, q>>)' <=> MayNarrow(<<o, q>>)
  BY GivenStays, FixedByGiven
<1> DEFINE Wanted(l) ==
             /\ IsWanted(l[1])
             /\ IndexOf(ObjectOf[l[2]]) < IndexOf(ObjectOf[l[1]]) /\ ObjectOf[l[2]] \notin script.special
             /\ MayNarrow(<<ObjectOf[l[1]], ObjectOf[l[2]]>>)
<1>2. \A l : Wanted(l)' <=> Wanted(l)
  BY <1>1
<1>3. /\ ChildrenRead <=> \A l \in link : (Visited(3, ObjectOf[l[1]]) /\ first[l[2]] \in 1..2 /\ Wanted(l)) => l[1] \in source
      /\ ChildrenRead' <=> \A l \in link' : (Visited(3, ObjectOf[l[1]])' /\ first'[l[2]] \in 1..2 /\ Wanted(l)') => l[1] \in source'
  BY DEF ChildrenRead
<1> SUFFICES ASSUME NEW l \in link, Visited(3, ObjectOf[l[1]])', first'[l[2]] \in 1..2, Wanted(l)
             PROVE  l[1] \in source'
  <2> HIDE DEF Wanted
  <2>1. QED
    BY <1>1, <1>2, <1>3
<1> DEFINE o == ObjectOf[l[1]]
           r == l[1]
           q == l[2]
<1>4. /\ o \in Tasked /\ r \in Rows /\ q \in Rows /\ l = <<r, q>> /\ o \in Objects /\ ObjectOf[q] \in Objects
      /\ <<o, ObjectOf[q]>> \in script.lookups
  BY LinkedAreTasked, LinksArePairs DEF Objects
<1>5. (first[q] > 0 <=> q \in source) /\ first[q] \in 0..6 /\ pass \in 0..7
  BY <1>4 DEF FirstRead, TypeOK
<1>6. 3 <= pass => first'[q] = first[q]
  BY <1>4, FirstStays
<1>7. CASE Visited(3, o)
  <2>1. 3 <= pass
    BY <1>5, <1>7 DEF Visited
  <2>2. r \in source
    <3> HIDE DEF Wanted
    <3>1. QED
      BY <1>3, <1>6, <1>7, <2>1
  <2>3. QED
    BY <2>2, SourceGrows
<1>8. CASE ~Visited(3, o)
  <2>1. 3 \in 2..5
    OBVIOUS
  <2>2. pass = 3 /\ o = Task /\ NextTask /\ (SkipStep \/ \E rows, more : SourceStep(Task, rows, more))
    <3> HIDE DEF o
    <3>1. QED
      BY <1>4, <1>8, <2>1, VisitedByStep DEF o
  <2>3. q \in source
    BY <1>5, <1>6, <2>2
  <2> DEFINE v == <<ObjectOf[q], q>>
  <2>4. v \in FilterValues(o)
    <3>1. Mode = "backwards"
      BY <2>2, Modes
    <3>2. ObjectOf[q] \in PivotObjects(o)
      BY <1>4, <3>1 DEF PivotObjects
    <3>3. v \in ParentValues(o)
      BY <1>4, <2>3, <3>2 DEF ParentValues
    <3>4. QED
      BY <3>1, <3>3 DEF FilterValues
  <2>5. Meets(v, r)
    <3>1. v[1] \in Objects /\ v[2] = q /\ <<r, q>> \in link
      BY <1>4
    <3> HIDE DEF v, r, q
    <3>2. QED
      BY <3>1 DEF Meets
  <2>6. ObjectOf[r] = Task /\ IsWanted(r) /\ pass \in 2..5
    BY <2>2
  <2> HIDE DEF o, r, q, v
  <2>7. \E w \in FilterValues(Task) : Meets(w, r)
    BY <2>2, <2>4, <2>5
  <2>8. r \in source'
    BY <1>4, <2>2, <2>6, <2>7, AskedIsRead
  <2>9. QED
    BY <2>8 DEF r
<1>9. QED
  BY <1>7, <1>8

\* What a migrated record is linked with is migrated as well: the reversed passes bring the
\* parents and the grandparents of every row that was read before them, the backward passes
\* the children of a row read by the first or second pass.
THEOREM RetrieveRelatives == Spec => []RelativesRetrieved
<1> DEFINE Inv == /\ TypeOK /\ SourceInFull /\ FilesRead /\ IdsCached /\ ParentsCached
                  /\ FirstRead /\ ParentsRead /\ ChildrenRead
<1>1. Init => Inv
  <2> SUFFICES ASSUME Init PROVE Inv
    OBVIOUS
  <2>1. pass = 0 /\ source = {} /\ cache = {} /\ \A p \in 0..6 : \A o : ~Visited(p, o)
    BY NothingVisited
  <2>2. first = [r \in Rows |-> 0]
    BY DEF Init
  <2>3. TypeOK
    BY TypesStart
  <2>4. \A o : ~Visited(1, o) /\ ~Visited(3, o) /\ ~Visited(4, o) /\ ~Visited(5, o)
    BY <2>1
  <2>5. SourceInFull /\ FilesRead
    BY <2>1, <2>4 DEF SourceInFull, FilesRead, Of
  <2>6. IdsCached /\ ParentsCached
    BY <2>1 DEF IdsCached, ParentsCached
  <2>7. FirstRead
    BY <2>1, <2>2 DEF FirstRead
  <2>8. ParentsRead
    BY <2>4 DEF ParentsRead
  <2>9. ChildrenRead
    BY <2>4 DEF ChildrenRead
  <2>10. QED
    BY <2>3, <2>5, <2>6, <2>7, <2>8, <2>9
<1>2. Inv /\ [Next]_vars => Inv'
  BY TypesStay, SourceInFullStays, FilesReadStays, IdsCachedStay, ParentsCachedStay, FirstReadStays,
     ParentsReadStays, ChildrenReadStays
<1>3. Inv => RelativesRetrieved
  <2> SUFFICES ASSUME Inv, Done PROVE RelativesRetrieved
    BY DEF RelativesRetrieved, TwoLevelsOfParents, ChildrenRetrieved
  <2>1. \A o : Visited(3, o) /\ Visited(4, o) /\ Visited(5, o)
    <3>1. pass = 7
      BY Modes DEF TypeOK
    <3>2. QED
      BY <3>1 DEF Visited
  <2>2. \A r \in Rows : (first[r] > 0 <=> r \in source)
    BY DEF FirstRead
  <2>3. \A l \in link : l[1] \in Rows /\ l[2] \in Rows
    BY LinksArePairs
  <2>4. ASSUME NEW l \in link, first[l[1]] \in 1..3, IsWanted(l[2]) PROVE first[l[2]] \in 1..4
    BY <2>1, <2>4 DEF ParentsRead
  <2>5. ASSUME NEW l \in link, first[l[1]] \in 1..4, IsWanted(l[2]) PROVE first[l[2]] \in 1..5
    BY <2>1, <2>5 DEF ParentsRead
  <2>6. TwoLevelsOfParents
    <3> SUFFICES ASSUME NEW l \in link, first[l[1]] \in 1..3, IsWanted(l[2])
                 PROVE  l[2] \in source /\ \A k \in link : (k[1] = l[2] /\ IsWanted(k[2])) => k[2] \in source
      BY DEF TwoLevelsOfParents
    <3>1. first[l[2]] \in 1..4
      BY <2>4
    <3>2. l[2] \in source
      BY <2>2, <2>3, <3>1
    <3>3. ASSUME NEW k \in link, k[1] = l[2], IsWanted(k[2]) PROVE k[2] \in source
      <4>1. first[k[2]] \in 1..5
        BY <2>5, <3>1, <3>3
      <4>2. QED
        BY <2>2, <2>3, <4>1
    <3>4. QED
      BY <3>2, <3>3
  <2>7. ChildrenRetrieved
    BY <2>1 DEF ChildrenRetrieved, ChildrenRead
  <2>8. QED
    BY <2>6, <2>7 DEF RelativesRetrieved
<1>4. QED
  BY <1>1, <1>2, <1>3, PTL DEF Spec
=============================================================================
