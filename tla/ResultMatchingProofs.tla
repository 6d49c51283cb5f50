------------------------ MODULE ResultMatchingProofs ------------------------
(***************************************************************************)
(* The results of a Bulk API 2.0 job reach their records, for any number   *)
(* of records, any contents and any hash collisions.  No fact about the    *)
(* hash is used: numbering the occurrences of a key pairs the records of   *)
(* that key with its results one to one, since there are equally many.     *)
(***************************************************************************)
EXTENDS ResultMatching, FiniteSetTheorems, FunctionTheorems, TLAPS

Occurrences(n, keys, key) == {i \in 1..n : keys[i] = key}

(***************************************************************************)
(* Keys and their counters.                                                *)
(***************************************************************************)
\* The counters of arrayToMapByHashcode and arrayToMapByProperty number the
\* occurrences of a key from one.
LEMMA CountersNumber ==
  ASSUME NEW n \in Nat, NEW keys, DOMAIN keys = 1..n, NEW key
  PROVE  LET C == Occurrences(n, keys, key)
         IN  /\ IsFiniteSet(C)
             /\ [i \in C |-> Keyed(keys)[i][2]] \in Bijection(C, 1..Cardinality(C))
<1> DEFINE C == Occurrences(n, keys, key)
           upTo(i) == {j \in 1..i : keys[j] = key}
           count == [i \in C |-> Keyed(keys)[i][2]]
<1>1. C \subseteq 1..n /\ \A i \in C : i \in 1..n /\ keys[i] = key
    BY DEF Occurrences
<1>2. IsFiniteSet(C) /\ Cardinality(C) \in Nat
    <2>1. IsFiniteSet(1..n)
        BY FS_Interval
    <2> HIDE DEF C
    <2> QED BY <1>1, <2>1, FS_Subset, FS_CardinalityType
<1>3. \A i \in C : count[i] = Cardinality(upTo(i))
    BY <1>1 DEF Keyed
<1>4. \A i \in C : upTo(i) \subseteq C /\ i \in upTo(i)
    BY <1>1 DEF Occurrences
<1>5. \A i \in C : IsFiniteSet(upTo(i)) /\ Cardinality(upTo(i)) \in 1..Cardinality(C)
    <2> TAKE i \in C
    <2>1. IsFiniteSet(upTo(i)) /\ Cardinality(upTo(i)) <= Cardinality(C)
        BY <1>2, <1>4, FS_Subset
    <2>2. Cardinality(upTo(i)) \in Nat /\ Cardinality(upTo(i)) # 0
        BY <2>1, <1>4, FS_CardinalityType, FS_EmptySet
    <2> QED BY <1>2, <2>1, <2>2
<1>6. ASSUME NEW i \in C, NEW j \in C, i < j
      PROVE  Cardinality(upTo(i)) # Cardinality(upTo(j))
    <2>1. upTo(i) \subseteq upTo(j) /\ j \in upTo(j) /\ j \notin upTo(i)
        BY <1>1, <1>6
    <2> QED BY <1>5, <2>1, FS_Subset
<1>7. count \in [C -> 1..Cardinality(C)]
    BY <1>3, <1>5
<1>8. \A i, j \in C : count[i] = count[j] => i = j
    <2> SUFFICES ASSUME NEW i \in C, NEW j \in C, i # j PROVE count[i] # count[j]
        OBVIOUS
    <2>1. i < j \/ j < i
        BY <1>1
    <2>2. Cardinality(upTo(i)) # Cardinality(upTo(j))
        BY <2>1, <1>6
    <2> HIDE DEF count, upTo
    <2> QED BY <2>2, <1>3
<1> HIDE DEF count, C
<1>9. count \in Injection(C, 1..Cardinality(C))
    BY <1>7, <1>8, Fun_IsInj
<1>10. IsFiniteSet(1..Cardinality(C)) /\ Cardinality(1..Cardinality(C)) = Cardinality(C)
    BY <1>2, FS_Interval
<1>11. count \in Surjection(C, 1..Cardinality(C))
    BY <1>9, <1>10, FS_Injection
<1>12. count \in Bijection(C, 1..Cardinality(C))
    BY <1>9, <1>11 DEF Bijection
<1> QED BY <1>2, <1>12 DEF count, C

\* Two occurrences of a key have counters of their own.
LEMMA KeyedApart ==
  ASSUME NEW n \in Nat, NEW keys, DOMAIN keys = 1..n,
         NEW i \in 1..n, NEW j \in 1..n, Keyed(keys)[i] = Keyed(keys)[j]
  PROVE  i = j
<1> DEFINE C == Occurrences(n, keys, keys[i])
           count == [x \in C |-> Keyed(keys)[x][2]]
<1>1. keys[i] = keys[j] /\ Keyed(keys)[i][2] = Keyed(keys)[j][2]
    BY DEF Keyed
<1>2. i \in C /\ j \in C
    BY <1>1 DEF Occurrences
<1>3. count[i] = count[j]
    BY <1>1, <1>2
<1>4. count \in Bijection(C, 1..Cardinality(C))
    BY CountersNumber
<1> HIDE DEF count, C
<1> QED BY <1>2, <1>3, <1>4, Fun_BijectionProperties

\* In whatever order results come, every record finds one with its key and counter.
LEMMA EveryKeyIsFound ==
  ASSUME NEW n \in Nat, NEW keys, DOMAIN keys = 1..n, NEW order \in Bijection(1..n, 1..n),
         NEW i \in 1..n
  PROVE  \E r \in 1..n : Keyed([q \in 1..n |-> keys[order[q]]])[r] = Keyed(keys)[i]
<1> DEFINE sorted == [q \in 1..n |-> keys[order[q]]]
           C == Occurrences(n, keys, keys[i])
           D == Occurrences(n, sorted, keys[i])
           moved == [r \in D |-> order[r]]
<1>1. /\ \A q \in 1..n : order[q] \in 1..n
      /\ \A q, r \in 1..n : order[q] = order[r] => q = r
      /\ \A j \in 1..n : \E q \in 1..n : order[q] = j
    BY DEF Bijection, Injection, Surjection, IsInjective
<1>2. moved \in Bijection(D, C)
    <2>1. moved \in [D -> C]
        BY <1>1 DEF Occurrences
    <2>2. \A q, r \in D : moved[q] = moved[r] => q = r
        BY <1>1 DEF Occurrences
    <2>3. \A j \in C : \E q \in D : moved[q] = j
        BY <1>1 DEF Occurrences
    <2> HIDE DEF moved, C, D
    <2> QED BY <2>1, <2>2, <2>3, Fun_IsBij
<1>3. [j \in C |-> Keyed(keys)[j][2]] \in Bijection(C, 1..Cardinality(C)) /\ i \in C
    BY CountersNumber DEF Occurrences
<1>4. IsFiniteSet(D) /\ [r \in D |-> Keyed(sorted)[r][2]] \in Bijection(D, 1..Cardinality(D))
    <2>1. DOMAIN sorted = 1..n
        OBVIOUS
    <2> HIDE DEF sorted
    <2> QED BY <2>1, CountersNumber
<1>5. Cardinality(C) = Cardinality(D)
    <2> HIDE DEF C, D, moved
    <2>1. ExistsBijection(D, C)
        BY <1>2 DEF ExistsBijection
    <2> QED BY <2>1, <1>4, FS_Bijection
<1>6. Keyed(keys)[i][2] \in 1..Cardinality(D)
    <2> DEFINE count == [j \in C |-> Keyed(keys)[j][2]]
    <2>1. count[i] = Keyed(keys)[i][2]
        BY <1>3
    <2> HIDE DEF count, C, D
    <2>2. count \in [C -> 1..Cardinality(C)]
        BY <1>3, Fun_BijectionProperties DEF count
    <2> QED BY <1>3, <1>5, <2>1, <2>2
<1>7. PICK r \in D : Keyed(sorted)[r][2] = Keyed(keys)[i][2]
    <2> DEFINE count == [q \in D |-> Keyed(sorted)[q][2]]
    <2>1. \A q \in D : count[q] = Keyed(sorted)[q][2]
        OBVIOUS
    <2>2. count \in Bijection(D, 1..Cardinality(D))
        BY <1>4
    <2> HIDE DEF count, C, D, sorted
    <2>3. PICK r \in D : count[r] = Keyed(keys)[i][2]
        BY <1>6, <2>2 DEF Bijection, Surjection
    <2> QED BY <2>1, <2>3
<1>8. r \in 1..n /\ sorted[r] = keys[i]
    BY DEF Occurrences
<1>9. Keyed(sorted)[r] = <<sorted[r], Keyed(sorted)[r][2]>> /\ Keyed(keys)[i] = <<keys[i], Keyed(keys)[i][2]>>
    BY <1>8 DEF Keyed
<1> QED BY <1>7, <1>8, <1>9

(***************************************************************************)
(* Records and results.                                                    *)
(***************************************************************************)
Permutation(order) == order \in Bijection(Positions, Positions)

\* Every record gets a result with its own key, and no result is given to two.
LEMMA ResultsArePaired ==
  ASSUME Permutation(answer)
  PROVE  /\ [i \in Positions |-> ResultOf(i)] \in Bijection(Positions, Positions)
         /\ \A i \in Positions : Key(ResultOf(i)) = Key(i)
<1> DEFINE keys == [j \in Positions |-> Key(j)]
           resultKeys == Keyed([r \in DOMAIN answer |-> Key(answer[r])])
           row(i) == CHOOSE r \in {q \in DOMAIN answer : resultKeys[q] = Keyed(keys)[i]} : TRUE
<1>1. N \in Nat /\ Positions = 1..N /\ DOMAIN keys = 1..N
    BY MatchingAssumption DEF Positions
<1>2. answer \in Bijection(1..N, 1..N)
    BY <1>1 DEF Permutation
<1>3. answer \in [1..N -> 1..N] /\ \A q, r \in 1..N : answer[q] = answer[r] => q = r
    BY <1>2, Fun_BijectionProperties
<1>4. [r \in DOMAIN answer |-> Key(answer[r])] = [r \in 1..N |-> keys[answer[r]]]
    BY <1>1, <1>3
<1>5. \A i \in 1..N : \E r \in 1..N : resultKeys[r] = Keyed(keys)[i]
    <2>1. resultKeys = Keyed([r \in 1..N |-> keys[answer[r]]])
        BY <1>4
    <2> HIDE DEF keys, resultKeys
    <2>2. ASSUME NEW i \in 1..N
          PROVE  \E r \in 1..N : Keyed([q \in 1..N |-> keys[answer[q]]])[r] = Keyed(keys)[i]
        BY <1>1, <1>2, EveryKeyIsFound
    <2> QED BY <2>1, <2>2
<1>6. \A i \in 1..N : /\ row(i) \in 1..N /\ resultKeys[row(i)] = Keyed(keys)[i]
                      /\ ResultOf(i) = answer[row(i)]
    <2> TAKE i \in 1..N
    <2>1. \E r \in DOMAIN answer : resultKeys[r] = Keyed(keys)[i]
        BY <1>3, <1>5
    <2>2. row(i) \in DOMAIN answer /\ resultKeys[row(i)] = Keyed(keys)[i]
        <3> HIDE DEF keys, resultKeys
        <3> QED BY <2>1
    <2>3. {q \in DOMAIN answer : resultKeys[q] = Keyed(keys)[i]} # {}
        BY <2>1
    <2> QED BY <1>3, <2>2, <2>3 DEF ResultOf
<1>7. \A i \in 1..N : ResultOf(i) \in 1..N /\ Key(ResultOf(i)) = Key(i)
    <2> TAKE i \in 1..N
    <2>1. ResultOf(i) \in 1..N /\ row(i) \in 1..N /\ ResultOf(i) = answer[row(i)]
        <3> HIDE DEF row, resultKeys, keys
        <3> QED BY <1>3, <1>6
    <2>2. resultKeys[row(i)][1] = Key(answer[row(i)])
        BY <1>3, <2>1 DEF Keyed
    <2>3. Keyed(keys)[i][1] = Key(i)
        BY <1>1 DEF Keyed
    <2> QED BY <1>6, <2>1, <2>2, <2>3
<1>8. ASSUME NEW i \in 1..N, NEW j \in 1..N, ResultOf(i) = ResultOf(j)
      PROVE  i = j
    <2> HIDE DEF row, resultKeys, keys
    <2>1. row(i) = row(j)
        BY <1>3, <1>6, <1>8
    <2>2. Keyed(keys)[i] = Keyed(keys)[j]
        BY <1>6, <2>1
    <2> QED BY <1>1, <2>2, KeyedApart
<1> DEFINE result == [i \in Positions |-> ResultOf(i)]
<1>9. result \in Injection(Positions, Positions)
    <2>1. result \in [Positions -> Positions] /\ \A i, j \in Positions : result[i] = result[j] => i = j
        BY <1>1, <1>7, <1>8
    <2> HIDE DEF result
    <2> QED BY <2>1, Fun_IsInj
<1>10. result \in Bijection(Positions, Positions)
    <2>1. IsFiniteSet(Positions)
        BY <1>1, FS_Interval
    <2> HIDE DEF result
    <2> QED BY <1>9, <2>1, FS_Injection DEF Bijection
<1> QED BY <1>1, <1>7, <1>10

(***************************************************************************)
(* The three lists.                                                        *)
(***************************************************************************)
\* A list of a set's elements, each of them once, is a sequence over the set.
LEMMA ListsAreOneToOne ==
  ASSUME NEW S, IsFiniteSet(S), NEW list \in SetToSeqs(S)
  PROVE  /\ list \in Seq(S)
         /\ \A i, j \in 1..Len(list) : list[i] = list[j] => i = j
         /\ \A x \in S : \E i \in 1..Len(list) : list[i] = x
<1>1. Cardinality(S) \in Nat
    BY FS_CardinalityType
<1>2. /\ list \in [1..Cardinality(S) -> S]
      /\ \A i, j \in 1..Cardinality(S) : i # j => list[i] # list[j]
    BY DEF SetToSeqs
<1>3. list \in Seq(S) /\ Len(list) = Cardinality(S)
    BY <1>1, <1>2
<1>4. list \in Injection(1..Cardinality(S), S)
    BY <1>2, Fun_IsInj
<1>5. Cardinality(1..Cardinality(S)) = Cardinality(S)
    BY <1>1, FS_Interval
<1>6. list \in Surjection(1..Cardinality(S), S)
    BY <1>4, <1>5, FS_Injection
<1> QED BY <1>2, <1>3, <1>6 DEF Surjection

\* The rows the org took, refused and left, one list after the other, are the job's
\* records, each of them once.
LEMMA AnswerIsPermutation ==
  ASSUME fate \in [Positions -> Fates],
         NEW taken \in SetToSeqs(Listed("taken")), NEW refused \in SetToSeqs(Listed("refused")),
         NEW left \in SetToSeqs(Listed("unprocessed"))
  PROVE  Permutation(taken \o refused \o left)
<1> DEFINE T == Listed("taken")
           R == Listed("refused")
           U == Listed("unprocessed")
           all == taken \o refused \o left
           a == Len(taken)
           b == Len(refused)
           c == Len(left)
<1>1. N \in Nat /\ Positions = 1..N /\ IsFiniteSet(Positions) /\ Cardinality(Positions) = N
    BY MatchingAssumption, FS_Interval DEF Positions
<1>2. T \subseteq Positions /\ R \subseteq Positions /\ U \subseteq Positions
    BY DEF Listed
<1>3. T \cup R \cup U = Positions /\ T \cap R = {} /\ T \cap U = {} /\ R \cap U = {}
    BY DEF Listed, Fates
<1>4. IsFiniteSet(T) /\ IsFiniteSet(R) /\ IsFiniteSet(U)
    <2> HIDE DEF T, R, U
    <2> QED BY <1>1, <1>2, FS_Subset
<1> HIDE DEF T, R, U
<1>5. /\ taken \in Seq(T) /\ \A i, j \in 1..a : taken[i] = taken[j] => i = j
      /\ \A x \in T : \E i \in 1..a : taken[i] = x
    BY <1>4, ListsAreOneToOne DEF T
<1>6. /\ refused \in Seq(R) /\ \A i, j \in 1..b : refused[i] = refused[j] => i = j
      /\ \A x \in R : \E i \in 1..b : refused[i] = x
    BY <1>4, ListsAreOneToOne DEF R
<1>7. /\ left \in Seq(U) /\ \A i, j \in 1..c : left[i] = left[j] => i = j
      /\ \A x \in U : \E i \in 1..c : left[i] = x
    BY <1>4, ListsAreOneToOne DEF U
<1>8. a \in Nat /\ b \in Nat /\ c \in Nat
    BY <1>5, <1>6, <1>7
<1>9. taken \in Seq(Positions) /\ refused \in Seq(Positions) /\ left \in Seq(Positions)
    BY <1>2, <1>5, <1>6, <1>7
<1>10. /\ all \in Seq(Positions) /\ Len(all) = a + b + c
       /\ \A i \in 1..a : all[i] = taken[i]
       /\ \A i \in 1..b : all[a + i] = refused[i]
       /\ \A i \in 1..c : all[a + b + i] = left[i]
    BY <1>8, <1>9
<1>11. \A i \in 1..a : all[i] \in T
    BY <1>5, <1>10
<1>12. \A i \in (a + 1)..(a + b) : all[i] = refused[i - a] /\ all[i] \in R
    <2> TAKE i \in (a + 1)..(a + b)
    <2>1. i - a \in 1..b /\ a + (i - a) = i
        BY <1>8
    <2> QED BY <1>6, <1>10, <2>1
<1>13. \A i \in (a + b + 1)..(a + b + c) : all[i] = left[i - a - b] /\ all[i] \in U
    <2> TAKE i \in (a + b + 1)..(a + b + c)
    <2>1. i - a - b \in 1..c /\ a + b + (i - a - b) = i
        BY <1>8
    <2> QED BY <1>7, <1>10, <2>1
<1>14. ASSUME NEW i \in 1..(a + b + c), NEW j \in 1..(a + b + c), all[i] = all[j]
       PROVE  i = j
    <2> DEFINE In(n, first, last) == n \in first..last
    <2>1. \A n \in 1..(a + b + c) : In(n, 1, a) \/ In(n, a + 1, a + b) \/ In(n, a + b + 1, a + b + c)
        BY <1>8
    <2>2. CASE In(i, 1, a)
        <3>1. In(j, 1, a)
            BY <1>3, <1>11, <1>12, <1>13, <1>14, <2>1, <2>2
        <3> QED BY <1>5, <1>10, <1>14, <2>2, <3>1
    <2>3. CASE In(i, a + 1, a + b)
        <3>1. In(j, a + 1, a + b)
            BY <1>3, <1>11, <1>12, <1>13, <1>14, <2>1, <2>3
        <3>2. i - a \in 1..b /\ j - a \in 1..b /\ refused[i - a] = refused[j - a]
            BY <1>8, <1>12, <1>14, <2>3, <3>1
        <3>3. i - a = j - a
            BY <1>6, <3>2
        <3> HIDE DEF a, b, c
        <3> QED BY <1>8, <3>3
    <2>4. CASE In(i, a + b + 1, a + b + c)
        <3>1. In(j, a + b + 1, a + b + c)
            BY <1>3, <1>11, <1>12, <1>13, <1>14, <2>1, <2>4
        <3>2. i - a - b \in 1..c /\ j - a - b \in 1..c /\ left[i - a - b] = left[j - a - b]
            BY <1>8, <1>13, <1>14, <2>4, <3>1
        <3>3. i - a - b = j - a - b
            BY <1>7, <3>2
        <3> HIDE DEF a, b, c
        <3> QED BY <1>8, <3>3
    <2> QED BY <2>1, <2>2, <2>3, <2>4
<1>15. \A x \in Positions : \E i \in 1..(a + b + c) : all[i] = x
    <2> TAKE x \in Positions
    <2>1. CASE x \in T
        BY <1>5, <1>8, <1>10, <2>1
    <2>2. CASE x \in R
        <3>1. PICK i \in 1..b : refused[i] = x
            BY <1>6, <2>2
        <3>2. a + i \in 1..(a + b + c) /\ all[a + i] = x
            BY <1>8, <1>10, <3>1
        <3> QED BY <3>2
    <2>3. CASE x \in U
        <3>1. PICK i \in 1..c : left[i] = x
            BY <1>7, <2>3
        <3>2. a + b + i \in 1..(a + b + c) /\ all[a + b + i] = x
            BY <1>8, <1>10, <3>1
        <3> QED BY <3>2
    <2> QED BY <1>3, <2>1, <2>2, <2>3
<1> HIDE DEF all, a, b, c
<1>16. all \in Bijection(1..(a + b + c), Positions)
    <2>1. all \in [1..(a + b + c) -> Positions]
        BY <1>8, <1>10
    <2> QED BY <2>1, <1>14, <1>15, Fun_IsBij
<1>17. a + b + c = N
    <2>1. ExistsBijection(1..(a + b + c), Positions) /\ a + b + c \in Nat
        BY <1>8, <1>16 DEF ExistsBijection
    <2> QED BY <1>1, <2>1, FS_CountingElements
<1> QED BY <1>1, <1>16, <1>17 DEF Permutation, all

(***************************************************************************)
(* The inductive invariant: verdicts are those of the paired results.      *)
(***************************************************************************)
TypeOK ==
  /\ operation \in {"Insert", "Update"}
  /\ fate \in [Positions -> Fates \cup {"sent"}]
Answered == answer # <<>> => Permutation(answer) /\ fate \in [Positions -> Fates]
NoneApplied ==
  verdict = [i \in Positions |-> "none"] /\ newId = [i \in Positions |-> 0]
AllApplied ==
  /\ answer # <<>>
  /\ verdict = [i \in Positions |-> ErrorOf(ResultOf(i))]
  /\ newId = [i \in Positions |-> IdOf(ResultOf(i))]
MatchInv == TypeOK /\ Answered /\ (NoneApplied \/ AllApplied)

\* A job starts without results and verdicts.
LEMMA InitMatches == Init => MatchInv
BY DEF Init, MatchInv, TypeOK, Answered, NoneApplied

\* The verdict of a result and its Id depend on the job and the lists alone.
LEMMA VerdictsAreStable ==
  ASSUME UNCHANGED <<operation, records, fate, answer>>
  PROVE  /\ [i \in Positions |-> ErrorOf(ResultOf(i))]' = [i \in Positions |-> ErrorOf(ResultOf(i))]
         /\ [i \in Positions |-> IdOf(ResultOf(i))]' = [i \in Positions |-> IdOf(ResultOf(i))]
<1>1. \A i : ResultOf(i)' = ResultOf(i)
    BY DEF ResultOf, Key, UseIdMapping
<1>2. \A i : ErrorOf(ResultOf(i))' = ErrorOf(ResultOf(i)) /\ IdOf(ResultOf(i))' = IdOf(ResultOf(i))
    BY <1>1 DEF ErrorOf, IdOf
<1> QED BY <1>2

\* The org settles the rows before it lists them, and verdicts come from the lists.
LEMMA StepMatches == MatchInv /\ [Next]_vars => MatchInv'
<1> SUFFICES ASSUME MatchInv, [Next]_vars PROVE MatchInv'
    OBVIOUS
<1>1. CASE RunJob
    <2>1. answer = <<>>
        BY <1>1 DEF RunJob, MatchInv, Answered, Fates
    <2> QED BY <1>1, <2>1 DEF RunJob, MatchInv, TypeOK, Answered, NoneApplied, AllApplied
<1>2. CASE GetAllResults
    <2>1. answer = <<>> /\ NoneApplied
        BY <1>2 DEF GetAllResults, MatchInv, AllApplied
    <2>2. fate \in [Positions -> Fates]
        BY <1>2 DEF GetAllResults, MatchInv, TypeOK
    <2>3. PICK taken \in SetToSeqs(Listed("taken")), refused \in SetToSeqs(Listed("refused")),
               left \in SetToSeqs(Listed("unprocessed")) : answer' = taken \o refused \o left
        BY <1>2 DEF GetAllResults
    <2>4. Permutation(answer)'
        BY <2>2, <2>3, AnswerIsPermutation DEF Permutation
    <2> QED BY <1>2, <2>1, <2>2, <2>4 DEF GetAllResults, MatchInv, TypeOK, Answered, NoneApplied
<1>3. CASE ApplyResults
    <2>1. TypeOK' /\ Answered'
        BY <1>3 DEF ApplyResults, MatchInv, TypeOK, Answered, Permutation
    <2>2. AllApplied'
        BY <1>3, VerdictsAreStable DEF ApplyResults, AllApplied
    <2> QED BY <2>1, <2>2 DEF MatchInv
<1>4. CASE UNCHANGED vars
    <2>1. TypeOK' /\ Answered'
        BY <1>4 DEF vars, MatchInv, TypeOK, Answered, Permutation
    <2>2. NoneApplied => NoneApplied'
        BY <1>4 DEF vars, NoneApplied
    <2>3. AllApplied => AllApplied'
        BY <1>4, VerdictsAreStable DEF vars, AllApplied
    <2> QED BY <2>1, <2>2, <2>3 DEF MatchInv
<1> QED BY <1>1, <1>2, <1>3, <1>4 DEF Next

\* Once verdicts are there, each is that of a result of the record's own.
LEMMA AppliedVerdicts ==
  ASSUME MatchInv, Applied
  PROVE  /\ AllApplied /\ fate \in [Positions -> Fates]
         /\ [i \in Positions |-> ResultOf(i)] \in Bijection(Positions, Positions)
         /\ \A i \in Positions : Key(ResultOf(i)) = Key(i) /\ ResultOf(i) \in Positions /\ ResultOf(i) # 0
<1>1. 1 \in Positions
    BY MatchingAssumption DEF Positions
<1>2. ~NoneApplied
    BY <1>1 DEF Applied, NoneApplied
<1>3. AllApplied /\ Permutation(answer) /\ fate \in [Positions -> Fates]
    BY <1>2 DEF MatchInv, AllApplied, Answered
<1>4. /\ [i \in Positions |-> ResultOf(i)] \in Bijection(Positions, Positions)
      /\ \A i \in Positions : Key(ResultOf(i)) = Key(i)
    BY <1>3, ResultsArePaired
<1>5. \A i \in Positions : ResultOf(i) \in Positions /\ ResultOf(i) # 0
    <2> DEFINE result == [i \in Positions |-> ResultOf(i)]
    <2>1. \A i \in Positions : result[i] = ResultOf(i)
        OBVIOUS
    <2>2. result \in [Positions -> Positions]
        BY <1>4, Fun_BijectionProperties
    <2>3. \A i \in Positions : i # 0
        BY MatchingAssumption DEF Positions
    <2> HIDE DEF result
    <2> QED BY <2>1, <2>2, <2>3
<1> QED BY <1>3, <1>4, <1>5

\* No row is lost, none is given to two records, and the taken ones are as many.
LEMMA VerdictsAddUp == MatchInv => NothingLost
<1> SUFFICES ASSUME MatchInv, Applied
             PROVE  /\ \A i \in Positions : verdict[i] # "notLocated"
                    /\ Cardinality({i \in Positions : verdict[i] = "ok"}) = Cardinality(Listed("taken"))
                    /\ operation = "Insert" =>
                         /\ {newId[i] : i \in Positions} \ {0} = Listed("taken")
                         /\ \A i, j \in Positions : newId[i] = newId[j] /\ newId[i] # 0 => i = j
    BY DEF NothingLost
<1> DEFINE result == [i \in Positions |-> ResultOf(i)]
           ok == {i \in Positions : verdict[i] = "ok"}
           taken == Listed("taken")
           moved == [i \in ok |-> result[i]]
<1>1. result \in Bijection(Positions, Positions)
    BY AppliedVerdicts
<1>2. \A i \in Positions :
        /\ result[i] \in Positions /\ result[i] # 0
        /\ fate[result[i]] \in Fates
        /\ verdict[i] = IF fate[result[i]] = "taken" THEN "ok" ELSE fate[result[i]]
        /\ newId[i] = IF operation = "Insert" /\ fate[result[i]] = "taken" THEN result[i] ELSE 0
    BY AppliedVerdicts DEF AllApplied, ErrorOf, IdOf
<1> HIDE DEF result
<1>3. /\ \A i, j \in Positions : result[i] = result[j] => i = j
      /\ \A r \in Positions : \E i \in Positions : result[i] = r
    BY <1>1 DEF Bijection, Injection, Surjection, IsInjective
<1>4. \A i \in Positions : verdict[i] = "ok" <=> fate[result[i]] = "taken"
    BY <1>2 DEF Fates
<1>5. \A i \in Positions : verdict[i] # "notLocated"
    BY <1>2 DEF Fates
<1>6. moved \in Bijection(ok, taken)
    <2>1. moved \in [ok -> taken]
        BY <1>2, <1>4 DEF Listed
    <2>2. \A i, j \in ok : moved[i] = moved[j] => i = j
        BY <1>3
    <2>3. \A r \in taken : \E i \in ok : moved[i] = r
        BY <1>3, <1>4 DEF Listed
    <2> HIDE DEF moved, ok, taken
    <2> QED BY <2>1, <2>2, <2>3, Fun_IsBij
<1>7. Cardinality(ok) = Cardinality(taken)
    <2>1. IsFiniteSet(Positions) /\ ok \subseteq Positions
        BY MatchingAssumption, FS_Interval DEF Positions
    <2> HIDE DEF moved, ok, taken
    <2>2. IsFiniteSet(ok) /\ ExistsBijection(ok, taken)
        BY <1>6, <2>1, FS_Subset DEF ExistsBijection
    <2> QED BY <2>2, FS_Bijection
<1>8. ASSUME operation = "Insert"
      PROVE  /\ {newId[i] : i \in Positions} \ {0} = taken
             /\ \A i, j \in Positions : newId[i] = newId[j] /\ newId[i] # 0 => i = j
    <2>1. \A i \in Positions : newId[i] # 0 => newId[i] = result[i] /\ newId[i] \in taken
        BY <1>2, <1>8 DEF Listed
    <2>2. \A r \in taken : r # 0 /\ \E i \in Positions : newId[i] = r
        <3> TAKE r \in taken
        <3>1. r \in Positions /\ fate[r] = "taken"
            BY DEF Listed
        <3>2. PICK i \in Positions : result[i] = r
            BY <1>3, <3>1
        <3> QED BY <1>2, <1>8, <3>1, <3>2
    <2> QED BY <1>3, <2>1, <2>2
<1> QED BY <1>5, <1>7, <1>8

\* A record whose key tells it apart has the result of a record with its values.
LEMMA VerdictsAreOwn == MatchInv /\ ToldApart => OwnResults
<1> SUFFICES ASSUME MatchInv, ToldApart, Applied, NEW i \in Positions
             PROVE  /\ \E j \in Positions :
                         Same(i, j) /\ verdict[i] = IF fate[j] = "taken" THEN "ok" ELSE fate[j]
                    /\ newId[i] # 0 => Same(i, newId[i])
    BY DEF OwnResults
<1> DEFINE j == ResultOf(i)
<1>1. /\ AllApplied /\ fate \in [Positions -> Fates]
      /\ Key(j) = Key(i) /\ j \in Positions /\ j # 0
    BY AppliedVerdicts
<1>2. verdict[i] = (IF fate[j] = "taken" THEN "ok" ELSE fate[j]) /\ newId[i] \in {0, j}
    BY <1>1 DEF AllApplied, ErrorOf, IdOf
<1> HIDE DEF j
<1>3. Same(i, j)
    BY <1>1 DEF Same, ToldApart, Key, UseIdMapping
<1> QED BY <1>1, <1>2, <1>3

\* Results are paired with records one to one, whatever hashes collide, and with the
\* records they are about wherever Ids or hashes tell those apart: for any number of
\* records and any contents (_applyBulkV2Results).
THEOREM ResultsReachRecords == Spec => []ResultsAreRight
<1>1. MatchInv => ResultsAreRight
    BY VerdictsAddUp, VerdictsAreOwn DEF ResultsAreRight
<1> QED BY InitMatches, StepMatches, <1>1, PTL DEF Spec
=============================================================================
