---------------------------- MODULE SequenceFacts ----------------------------
(***************************************************************************)
(* What the proofs of the components need to know of numbers, functions    *)
(* defined by recursion, and sequences.                                    *)
(***************************************************************************)
EXTENDS Subsequences, SequencesExt, FiniteSetTheorems, SequenceTheorems, WellFoundedInduction, TLAPS

(***************************************************************************)
(* Induction over the naturals, with the property given as a set, and the  *)
(* existence of functions defined by recursion, with the step given as a   *)
(* function.                                                               *)
(***************************************************************************)

\* The order of the naturals, as a relation.
LEMMA LessIsWellFounded ==
  \E R : IsWellFoundedOn(R, Nat) /\ \A x, y \in Nat : x < y => <<x, y>> \in R
<1>1. IsWellFoundedOn(OpToRel(<, Nat), Nat)
  BY NatLessThanWellFounded, Zenon
<1>2. \A x, y \in Nat : x < y => <<x, y>> \in OpToRel(<, Nat)
  BY DEF OpToRel
<1>3. QED
  BY <1>1, <1>2, Zenon

\* A well-founded relation has minimal elements.
LEMMA MinimalElement ==
  ASSUME NEW R, NEW S, NEW T, IsWellFoundedOn(R, S), T \subseteq S, T # {}
  PROVE  \E x \in T : \A y \in T : ~ (<<y, x>> \in R)
BY WFMin, Zenon

\* Every set of naturals that is not empty has a least element.
LEMMA LeastNatural ==
  ASSUME NEW T, T \subseteq Nat, T # {}
  PROVE  \E n \in T : \A m \in T : n <= m
<1>1. PICK R : IsWellFoundedOn(R, Nat) /\ \A x, y \in Nat : x < y => <<x, y>> \in R
  BY LessIsWellFounded
<1>2. PICK x \in T : \A y \in T : ~ (<<y, x>> \in R)
  <2>1. IsWellFoundedOn(R, Nat)
    BY <1>1
  <2>2. QED
    BY <2>1, MinimalElement, Zenon
<1>3. \A m \in T : m \in Nat /\ x \in Nat /\ ~ (m < x)
  BY <1>1, <1>2, Zenon
<1>4. \A m \in T : x <= m
  BY <1>3
<1>5. QED
  BY <1>4

\* A set with 0 and all successors of its naturals has all naturals.
LEMMA Induction ==
  ASSUME NEW P, 0 \in P, \A n \in Nat : n \in P => n + 1 \in P
  PROVE  \A n \in Nat : n \in P
<1>1. SUFFICES ASSUME Nat \ P # {} PROVE FALSE
  BY Zenon
<1>2. PICK n \in Nat \ P : \A m \in Nat \ P : n <= m
  BY <1>1, LeastNatural
<1>3. n # 0 /\ n - 1 \in Nat
  BY <1>2
<1>4. n - 1 \in P
  BY <1>2, <1>3
<1>5. QED
  BY <1>2, <1>3, <1>4

\* f holds the first n results of a recursion from a with the step g.
Unfolds(f, n, A, a, g) ==
  f \in [0..n -> A] /\ f[0] = a /\ \A i \in 0..(n - 1) : f[i + 1] = g[<<i + 1, f[i]>>]

\* Every recursion can be unfolded.
LEMMA Recursion ==
  ASSUME NEW A, NEW a \in A, NEW g \in [Nat \X A -> A]
  PROVE  \A n \in Nat : \E f : Unfolds(f, n, A, a, g)
<1> DEFINE P == {n \in Nat : \E f : Unfolds(f, n, A, a, g)}
<1>1. 0 \in P
  <2>1. Unfolds([i \in 0..0 |-> a], 0, A, a, g)
    BY DEF Unfolds
  <2>2. QED
    BY <2>1
<1>2. ASSUME NEW n \in Nat, n \in P PROVE n + 1 \in P
  <2>1. PICK f : Unfolds(f, n, A, a, g)
    BY <1>2
  <2> DEFINE h == [i \in 0..(n + 1) |-> IF i = n + 1 THEN g[<<n + 1, f[n]>>] ELSE f[i]]
  <2>2. f[n] \in A
    BY <2>1 DEF Unfolds
  <2>3. g[<<n + 1, f[n]>>] \in A
    BY <2>2
  <2>4. h \in [0..(n + 1) -> A] /\ h[0] = a
    BY <2>1, <2>3 DEF Unfolds
  <2>5. ASSUME NEW i \in 0..n PROVE h[i + 1] = g[<<i + 1, h[i]>>]
    <3>1. CASE i = n
      <4>1. h[n + 1] = g[<<n + 1, f[n]>>] /\ h[n] = f[n]
        OBVIOUS
      <4>2. QED
        BY <3>1, <4>1
    <3>2. CASE i < n
      <4>1. i \in 0..(n - 1) /\ h[i] = f[i] /\ h[i + 1] = f[i + 1]
        BY <3>2
      <4>2. QED
        BY <4>1, <2>1 DEF Unfolds
    <3>3. QED
      BY <3>1, <3>2
  <2>6. n + 1 \in Nat /\ (n + 1) - 1 = n
    OBVIOUS
  <2> HIDE DEF h
  <2>7. Unfolds(h, n + 1, A, a, g)
    BY <2>4, <2>5, <2>6 DEF Unfolds
  <2>8. \E f1 : Unfolds(f1, n + 1, A, a, g)
    BY <2>7
  <2>9. QED
    BY <2>6, <2>8
<1> HIDE DEF P
<1>3. \A n \in Nat : n \in P
  BY <1>1, <1>2, Induction
<1>4. QED
  BY <1>3, Zenon DEF P

-----------------------------------------------------------------------------
(***************************************************************************)
(* Subsequences.                                                           *)
(***************************************************************************)

\* Where the elements of t are in s, if t has those in S
Places(at, t, s, S) ==
  /\ at \in [1..Len(t) -> 1..Len(s)]
  /\ \A i, j \in 1..Len(t) : i < j => at[i] < at[j]
  /\ \A i \in 1..Len(t) : t[i] = s[at[i]]
  /\ \A j \in 1..Len(s) : s[j] \in S <=> \E i \in 1..Len(t) : at[i] = j

\* t has those of the first n elements of s that are in S.
PlacesUpTo(n, at, t, s, S) ==
  /\ at \in [1..Len(t) -> 1..n]
  /\ \A i, j \in 1..Len(t) : i < j => at[i] < at[j]
  /\ \A i \in 1..Len(t) : t[i] = s[at[i]]
  /\ \A j \in 1..n : s[j] \in S <=> \E i \in 1..Len(t) : at[i] = j

\* One more element is picked.
LEMMA PlaceAdded ==
  ASSUME NEW Q, NEW s \in Seq(Q), NEW S, NEW n \in 0..(Len(s) - 1),
         NEW t \in Seq(Q), NEW at, PlacesUpTo(n, at, t, s, S)
  PROVE  LET u == IF s[n + 1] \in S THEN Append(t, s[n + 1]) ELSE t
         IN  u \in Seq(Q) /\ \E to : PlacesUpTo(n + 1, to, u, s, S)
<1>1. n + 1 \in 1..Len(s) /\ s[n + 1] \in Q /\ Len(t) \in Nat /\ n \in Nat
  <2>1. Len(s) \in Nat
    BY LenProperties
  <2>2. n + 1 \in 1..Len(s)
    BY <2>1
  <2>3. QED
    BY <2>2, LenProperties, ElementOfSeq
<1>2. /\ at \in [1..Len(t) -> 1..n]
      /\ \A i, j \in 1..Len(t) : i < j => at[i] < at[j]
      /\ \A i \in 1..Len(t) : t[i] = s[at[i]]
      /\ \A j \in 1..n : s[j] \in S <=> \E i \in 1..Len(t) : at[i] = j
  BY DEF PlacesUpTo
<1>3. ASSUME s[n + 1] \in S
      PROVE  Append(t, s[n + 1]) \in Seq(Q) /\ \E to : PlacesUpTo(n + 1, to, Append(t, s[n + 1]), s, S)
  <2> DEFINE u == Append(t, s[n + 1])
             m == Len(t) + 1
             to == [i \in 1..m |-> IF i = m THEN n + 1 ELSE at[i]]
  <2>1. u \in Seq(Q) /\ Len(u) = m /\ (\A i \in 1..Len(t) : u[i] = t[i]) /\ u[m] = s[n + 1]
    BY <1>1, AppendProperties
  <2>2. \A i \in 1..m : i = m \/ i \in 1..Len(t)
    BY <1>1
  <2>3. to[m] = n + 1 /\ \A i \in 1..Len(t) : to[i] = at[i] /\ at[i] \in 1..n /\ i # m
    BY <1>1, <1>2
  <2>4. to \in [1..m -> 1..(n + 1)]
    BY <1>1, <1>2, <2>3
  <2>5. ASSUME NEW i \in 1..m, NEW j \in 1..m, i < j PROVE to[i] < to[j]
    <3>1. i \in 1..Len(t)
      BY <2>5, <1>1
    <3>5. to[i] = at[i] /\ at[i] \in 1..n
      BY <2>3, <3>1
    <3>2. CASE j = m
      <4>1. to[j] = n + 1
        BY <2>3, <3>2
      <4> HIDE DEF to
      <4>2. QED
        BY <3>5, <4>1, <1>1
    <3>3. CASE j \in 1..Len(t)
      BY <2>3, <3>1, <3>3, <1>2, <2>5
    <3>4. QED
      BY <2>2, <3>2, <3>3
  <2>6. \A i \in 1..m : u[i] = s[to[i]]
    BY <2>1, <2>2, <2>3, <1>2
  <2>7. ASSUME NEW j \in 1..(n + 1) PROVE s[j] \in S <=> \E i \in 1..m : to[i] = j
    <3>1. CASE j = n + 1
      BY <1>3, <2>3, <3>1, <1>1
    <3>2. CASE j \in 1..n
      <4>1. s[j] \in S <=> \E i \in 1..Len(t) : at[i] = j
        BY <1>2, <3>2
      <4>2. j # n + 1
        BY <3>2, <1>1
      <4>3. \A i \in 1..Len(t) : i \in 1..m
        BY <1>1
      <4>4. QED
        BY <4>1, <4>2, <4>3, <2>2, <2>3
    <3>3. j = n + 1 \/ j \in 1..n
      BY <1>1
    <3>4. QED
      BY <3>1, <3>2, <3>3
  <2> HIDE DEF to, u
  <2>8. PlacesUpTo(n + 1, to, u, s, S)
    BY <2>1, <2>4, <2>5, <2>6, <2>7 DEF PlacesUpTo
  <2>9. QED
    BY <2>1, <2>8 DEF u
<1>4. ASSUME s[n + 1] \notin S PROVE \E to : PlacesUpTo(n + 1, to, t, s, S)
  <2>1. at \in [1..Len(t) -> 1..(n + 1)]
    BY <1>1, <1>2
  <2>2. ASSUME NEW j \in 1..(n + 1) PROVE s[j] \in S <=> \E i \in 1..Len(t) : at[i] = j
    <3>1. CASE j = n + 1
      <4>1. \A i \in 1..Len(t) : at[i] \in 1..n /\ at[i] # n + 1
        BY <1>1, <1>2
      <4>2. QED
        BY <4>1, <1>4, <3>1
    <3>2. CASE j \in 1..n
      BY <1>2, <3>2
    <3>3. j = n + 1 \/ j \in 1..n
      BY <1>1
    <3>4. QED
      BY <3>1, <3>2, <3>3
  <2>3. PlacesUpTo(n + 1, at, t, s, S)
    BY <1>2, <2>1, <2>2 DEF PlacesUpTo
  <2>4. QED
    BY <2>3
<1>5. QED
  BY <1>3, <1>4

\* Picked has the elements in the set, in their order.
LEMMA PickedIs ==
  ASSUME NEW Q, NEW s \in Seq(Q), NEW S
  PROVE  Picked(s, S) \in Seq(Q) /\ \E at : Places(at, Picked(s, S), s, S)
<1> DEFINE A == Seq(Q)
           len == Len(s)
           step == [p \in Nat \X A |-> IF p[1] \in 1..len THEN IF s[p[1]] \in S THEN Append(p[2], s[p[1]]) ELSE p[2]
                                       ELSE p[2]]
           all == CHOOSE f : f = [n \in 0..len |->
                    IF n = 0 THEN <<>> ELSE IF s[n] \in S THEN Append(f[n - 1], s[n]) ELSE f[n - 1]]
<1>1. len \in Nat /\ DOMAIN s = 1..len /\ \A i \in 1..len : s[i] \in Q
  BY LenProperties, ElementOfSeq
<1>2. <<>> \in A
  BY EmptySeq
<1>3. step \in [Nat \X A -> A]
  <2>1. \A p \in Nat \X A : p[1] \in 1..len => Append(p[2], s[p[1]]) \in A
    BY <1>1, AppendProperties
  <2>2. QED
    BY <2>1
<1>4. PICK f : Unfolds(f, len, A, <<>>, step)
  <2> HIDE DEF A, step, len
  <2>1. QED
    BY <1>1, <1>2, <1>3, Recursion
<1>5. f = [n \in 0..len |-> IF n = 0 THEN <<>> ELSE IF s[n] \in S THEN Append(f[n - 1], s[n]) ELSE f[n - 1]]
  <2>1. f \in [0..len -> A] /\ f[0] = <<>> /\ \A i \in 0..(len - 1) : f[i + 1] = step[<<i + 1, f[i]>>]
    BY <1>4 DEF Unfolds
  <2>2. ASSUME NEW n \in 1..len PROVE f[n] = IF s[n] \in S THEN Append(f[n - 1], s[n]) ELSE f[n - 1]
    <3>1. n - 1 \in 0..(len - 1) /\ (n - 1) + 1 = n /\ n - 1 \in 0..len /\ n \in Nat
      BY <1>1
    <3>2. f[n] = step[<<n, f[n - 1]>>] /\ f[n - 1] \in A
      BY <2>1, <3>1
    <3>3. QED
      BY <3>1, <3>2
  <2> HIDE DEF A, step
  <2>3. \A i \in 0..len : i = 0 \/ i \in 1..len
    BY <1>1
  <2>4. QED
    BY <2>1, <2>2, <2>3
<1>6. all = [n \in 0..len |-> IF n = 0 THEN <<>> ELSE IF s[n] \in S THEN Append(all[n - 1], s[n]) ELSE all[n - 1]]
  BY <1>5
<1>7. Picked(s, S) = all[len]
  BY DEF Picked
<1> HIDE DEF all, step, A
<1>8. all[0] = <<>> /\ \A n \in 1..len : all[n] = IF s[n] \in S THEN Append(all[n - 1], s[n]) ELSE all[n - 1]
  <2>1. all[0] = <<>>
    BY <1>1, <1>6
  <2>2. ASSUME NEW n \in 1..len
        PROVE  all[n] = IF s[n] \in S THEN Append(all[n - 1], s[n]) ELSE all[n - 1]
    <3>1. n \in 0..len /\ n # 0
      BY <1>1
    <3> HIDE DEF len
    <3>2. QED
      BY <1>6, <3>1
  <2>3. QED
    BY <2>1, <2>2
<1> USE DEF A
<1> DEFINE P == {n \in Nat : n <= len => all[n] \in A /\ \E at : PlacesUpTo(n, at, all[n], s, S)}
<1>9. 0 \in P
  <2>1. 1..0 = {} /\ Len(<<>>) = 0 /\ [i \in 1..0 |-> 0] \in [1..0 -> 1..0]
    OBVIOUS
  <2>2. PlacesUpTo(0, [i \in 1..0 |-> 0], <<>>, s, S)
    BY <2>1 DEF PlacesUpTo
  <2>3. QED
    BY <1>2, <1>8, <2>2
<1>10. ASSUME NEW n \in Nat, n \in P PROVE n + 1 \in P
  <2> SUFFICES ASSUME n + 1 <= len
               PROVE  all[n + 1] \in A /\ \E at : PlacesUpTo(n + 1, at, all[n + 1], s, S)
    OBVIOUS
  <2>1. all[n] \in A /\ \E at : PlacesUpTo(n, at, all[n], s, S)
    BY <1>10, <1>1
  <2>2. n + 1 \in 1..len /\ (n + 1) - 1 = n /\ n \in 0..(len - 1)
    BY <1>1
  <2>3. all[n + 1] = IF s[n + 1] \in S THEN Append(all[n], s[n + 1]) ELSE all[n]
    BY <1>8, <2>2
  <2>4. PICK at : PlacesUpTo(n, at, all[n], s, S)
    BY <2>1
  <2>5. LET u == IF s[n + 1] \in S THEN Append(all[n], s[n + 1]) ELSE all[n]
        IN  u \in Seq(Q) /\ \E to : PlacesUpTo(n + 1, to, u, s, S)
    BY <2>1, <2>2, <2>4, PlaceAdded
  <2>6. QED
    BY <2>3, <2>5
<1> HIDE DEF P
<1>11. len \in P
  BY <1>1, <1>9, <1>10, Induction
<1>12. all[len] \in A /\ \E at : PlacesUpTo(len, at, all[len], s, S)
  BY <1>1, <1>11 DEF P
<1>13. QED
  BY <1>7, <1>12 DEF PlacesUpTo, Places

\* It has them all and nothing else, and each once if the sequence has.
LEMMA PickedSet ==
  ASSUME NEW Q, NEW s \in Seq(Q), NEW S
  PROVE  /\ Picked(s, S) \in Seq(Q)
         /\ ToSet(Picked(s, S)) = ToSet(s) \cap S
         /\ IsInjective(s) => IsInjective(Picked(s, S))
<1> DEFINE t == Picked(s, S)
<1>1. t \in Seq(Q)
  BY PickedIs
<1>2. PICK at : Places(at, t, s, S)
  BY PickedIs
<1> HIDE DEF t
<1>3. DOMAIN t = 1..Len(t) /\ DOMAIN s = 1..Len(s) /\ Len(t) \in Nat
  BY <1>1, LenProperties
<1>4. /\ at \in [1..Len(t) -> 1..Len(s)]
      /\ \A i, j \in 1..Len(t) : i < j => at[i] < at[j]
      /\ \A i \in 1..Len(t) : t[i] = s[at[i]]
      /\ \A j \in 1..Len(s) : s[j] \in S <=> \E i \in 1..Len(t) : at[i] = j
  BY <1>2 DEF Places
<1>5. ToSet(t) \subseteq ToSet(s) \cap S
  BY <1>3, <1>4 DEF ToSet
<1>6. ASSUME NEW x \in ToSet(s) \cap S PROVE x \in ToSet(t)
  <2>1. PICK j \in 1..Len(s) : s[j] = x
    BY <1>3 DEF ToSet
  <2>2. PICK i \in 1..Len(t) : at[i] = j
    BY <1>4, <2>1
  <2>3. QED
    BY <1>3, <1>4, <2>1, <2>2 DEF ToSet
<1>7. ASSUME IsInjective(s), NEW i \in 1..Len(t), NEW j \in 1..Len(t), t[i] = t[j] PROVE i = j
  <2>1. at[i] = at[j]
    BY <1>3, <1>4, <1>7 DEF IsInjective
  <2>2. at[i] \in Int /\ ~(i < j) /\ ~(j < i)
    BY <1>4, <2>1
  <2>3. QED
    BY <2>2, <1>3
<1>8. QED
  BY <1>1, <1>3, <1>5, <1>6, <1>7 DEF t, IsInjective
-----------------------------------------------------------------------------
(***************************************************************************)
(* Lists of different elements.                                            *)
(***************************************************************************)

\* s lists the set S.
IsListOf(s, S) == s \in Seq(S) /\ IsInjective(s) /\ ToSet(s) = S

\* t is s with e inserted at i; t is s without its element at i.
InsertedAt(t, s, i, e) ==
  /\ Len(t) = Len(s) + 1
  /\ \A j \in 1..(Len(s) + 1) : t[j] = IF j < i THEN s[j] ELSE IF j = i THEN e ELSE s[j - 1]
RemovedAt(t, s, i) ==
  /\ Len(t) = Len(s) - 1
  /\ \A j \in 1..(Len(s) - 1) : t[j] = IF j < i THEN s[j] ELSE s[j + 1]

\* What inserting does to each position
LEMMA Inserted ==
  ASSUME NEW Q, NEW s \in Seq(Q), NEW i \in 1..(Len(s) + 1), NEW e \in Q
  PROVE  InsertAt(s, i, e) \in Seq(Q) /\ InsertedAt(InsertAt(s, i, e), s, i, e)
<1> DEFINE a == SubSeq(s, 1, i - 1)
           b == SubSeq(s, i, Len(s))
<1>1. Len(s) \in Nat /\ i \in Nat /\ \A j \in 1..Len(s) : s[j] \in Q
  BY LenProperties, ElementOfSeq
<1>2. a \in Seq(Q) /\ Len(a) = i - 1 /\ \A j \in 1..(i - 1) : a[j] = s[j]
  <2>1. 1 \in Int /\ i - 1 \in Int /\ \A j \in 1..(i - 1) : s[j] \in Q
    BY <1>1
  <2>2. /\ a \in Seq(Q)
        /\ Len(a) = IF 1 <= i - 1 THEN (i - 1) - 1 + 1 ELSE 0
        /\ \A j \in 1 .. ((i - 1) - 1 + 1) : a[j] = s[1 + j - 1]
    BY <2>1, SubSeqProperties
  <2> HIDE DEF a
  <2>3. (i - 1) - 1 + 1 = i - 1 /\ \A j \in 1..(i - 1) : 1 + j - 1 = j
    BY <1>1
  <2>4. QED
    BY <2>2, <2>3, <1>1
<1>3. b \in Seq(Q) /\ Len(b) = Len(s) - i + 1 /\ \A j \in 1..(Len(s) - i + 1) : b[j] = s[i + j - 1]
  <2>1. i \in Int /\ Len(s) \in Int /\ \A j \in i..Len(s) : s[j] \in Q
    BY <1>1
  <2>2. /\ b \in Seq(Q)
        /\ Len(b) = IF i <= Len(s) THEN Len(s) - i + 1 ELSE 0
        /\ \A j \in 1 .. (Len(s) - i + 1) : b[j] = s[i + j - 1]
    BY <2>1, SubSeqProperties
  <2> HIDE DEF b
  <2>3. QED
    BY <2>2, <1>1
<1>4. <<e>> \in Seq(Q) /\ Len(<<e>>) = 1 /\ <<e>>[1] = e
  OBVIOUS
<1>5. InsertAt(s, i, e) = (a \o <<e>>) \o b
  BY DEF InsertAt
<1> DEFINE c == a \o <<e>>
<1> HIDE DEF a, b
<1>6. c \in Seq(Q) /\ Len(c) = i /\ \A j \in 1..i : c[j] = IF j < i THEN s[j] ELSE e
  <2>1. /\ c \in Seq(Q) /\ Len(c) = Len(a) + Len(<<e>>)
        /\ \A j \in 1 .. (Len(a) + Len(<<e>>)) : c[j] = IF j <= Len(a) THEN a[j] ELSE <<e>>[j - Len(a)]
    BY <1>2, <1>4, ConcatProperties
  <2> HIDE DEF c
  <2>2. Len(a) + Len(<<e>>) = i
    BY <1>1, <1>2, <1>4
  <2>3. ASSUME NEW j \in 1..i PROVE c[j] = IF j < i THEN s[j] ELSE e
    <3>1. CASE j < i
      <4>1. j <= Len(a) /\ j \in 1..(i - 1)
        BY <1>1, <1>2, <3>1
      <4>2. QED
        BY <2>1, <2>2, <4>1, <1>2, <3>1
    <3>2. CASE j = i
      <4>1. ~(j <= Len(a)) /\ j - Len(a) = 1
        BY <1>1, <1>2, <3>2
      <4>2. QED
        BY <2>1, <2>2, <4>1, <1>4, <3>2
    <3>3. QED
      BY <1>1, <3>1, <3>2
  <2>4. QED
    BY <2>1, <2>2, <2>3
<1> HIDE DEF c
<1>7. /\ c \o b \in Seq(Q) /\ Len(c \o b) = Len(c) + Len(b)
      /\ \A j \in 1 .. (Len(c) + Len(b)) : (c \o b)[j] = IF j <= Len(c) THEN c[j] ELSE b[j - Len(c)]
  BY <1>3, <1>6, ConcatProperties
<1>8. Len(c) + Len(b) = Len(s) + 1
  BY <1>1, <1>3, <1>6
<1>9. ASSUME NEW j \in 1..(Len(s) + 1)
      PROVE  (c \o b)[j] = IF j < i THEN s[j] ELSE IF j = i THEN e ELSE s[j - 1]
  <2>1. CASE j <= i
    <3>1. j \in 1..i /\ j <= Len(c)
      BY <1>1, <1>6, <2>1
    <3>2. (c \o b)[j] = c[j]
      BY <1>7, <1>8, <3>1
    <3>3. QED
      BY <1>6, <3>1, <3>2, <1>1
  <2>2. CASE j > i
    <3>1. ~(j <= Len(c)) /\ j - Len(c) \in 1..(Len(s) - i + 1) /\ i + (j - Len(c)) - 1 = j - 1
      BY <1>1, <1>6, <2>2
    <3>2. (c \o b)[j] = b[j - Len(c)]
      BY <1>7, <1>8, <3>1
    <3>3. b[j - Len(c)] = s[j - 1]
      BY <1>3, <3>1
    <3>4. QED
      BY <3>2, <3>3, <2>2, <1>1
  <2>3. j <= i \/ j > i
    BY <1>1
  <2>4. QED
    BY <2>1, <2>2, <2>3
<1>10. QED
  BY <1>5, <1>7, <1>8, <1>9 DEF c, InsertedAt

\* What removing does to each position
LEMMA Removed ==
  ASSUME NEW Q, NEW s \in Seq(Q), NEW i \in 1..Len(s)
  PROVE  RemoveAt(s, i) \in Seq(Q) /\ RemovedAt(RemoveAt(s, i), s, i)
<1> DEFINE a == SubSeq(s, 1, i - 1)
           b == SubSeq(s, i + 1, Len(s))
<1>1. Len(s) \in Nat /\ i \in Nat /\ \A j \in 1..Len(s) : s[j] \in Q
  BY LenProperties, ElementOfSeq
<1>2. a \in Seq(Q) /\ Len(a) = i - 1 /\ \A j \in 1..(i - 1) : a[j] = s[j]
  <2>1. 1 \in Int /\ i - 1 \in Int /\ \A j \in 1..(i - 1) : s[j] \in Q
    BY <1>1
  <2>2. /\ a \in Seq(Q)
        /\ Len(a) = IF 1 <= i - 1 THEN (i - 1) - 1 + 1 ELSE 0
        /\ \A j \in 1 .. ((i - 1) - 1 + 1) : a[j] = s[1 + j - 1]
    BY <2>1, SubSeqProperties
  <2> HIDE DEF a
  <2>3. (i - 1) - 1 + 1 = i - 1 /\ \A j \in 1..(i - 1) : 1 + j - 1 = j
    BY <1>1
  <2>4. QED
    BY <2>2, <2>3, <1>1
<1>3. b \in Seq(Q) /\ Len(b) = Len(s) - i /\ \A j \in 1..(Len(s) - i) : b[j] = s[i + j]
  <2>1. i + 1 \in Int /\ Len(s) \in Int /\ \A j \in (i + 1)..Len(s) : s[j] \in Q
    BY <1>1
  <2>2. /\ b \in Seq(Q)
        /\ Len(b) = IF i + 1 <= Len(s) THEN Len(s) - (i + 1) + 1 ELSE 0
        /\ \A j \in 1 .. (Len(s) - (i + 1) + 1) : b[j] = s[(i + 1) + j - 1]
    BY <2>1, SubSeqProperties
  <2> HIDE DEF b
  <2>3. Len(s) - (i + 1) + 1 = Len(s) - i /\ \A j \in 1..(Len(s) - i) : (i + 1) + j - 1 = i + j
    BY <1>1
  <2>4. Len(b) = Len(s) - i
    <3>1. Len(b) = IF i + 1 <= Len(s) THEN Len(s) - (i + 1) + 1 ELSE 0
      BY <2>2
    <3>2. Len(s) \in Nat /\ i \in Nat /\ i <= Len(s)
      BY <1>1
    <3>3. QED
      BY <3>1, <3>2
  <2>5. ASSUME NEW j \in 1..(Len(s) - i) PROVE b[j] = s[i + j]
    <3>1. b[j] = s[(i + 1) + j - 1]
      BY <2>2, <2>3
    <3>2. (i + 1) + j - 1 = i + j
      BY <2>3
    <3>3. QED
      BY <3>1, <3>2, Zenon
  <2>6. QED
    BY <2>2, <2>4, <2>5
<1>4. RemoveAt(s, i) = a \o b
  BY DEF RemoveAt
<1> HIDE DEF a, b
<1>5. /\ a \o b \in Seq(Q) /\ Len(a \o b) = Len(a) + Len(b)
      /\ \A j \in 1 .. (Len(a) + Len(b)) : (a \o b)[j] = IF j <= Len(a) THEN a[j] ELSE b[j - Len(a)]
  BY <1>2, <1>3, ConcatProperties
<1>6. Len(a) + Len(b) = Len(s) - 1
  BY <1>1, <1>2, <1>3
<1>7. ASSUME NEW j \in 1..(Len(s) - 1) PROVE (a \o b)[j] = IF j < i THEN s[j] ELSE s[j + 1]
  <2>1. CASE j < i
    <3>1. j \in 1..(i - 1) /\ j <= Len(a)
      BY <1>1, <1>2, <2>1
    <3>2. QED
      BY <1>2, <1>5, <1>6, <3>1, <2>1
  <2>2. CASE ~(j < i)
    <3>1. ~(j <= Len(a)) /\ j - Len(a) \in 1..(Len(s) - i) /\ i + (j - Len(a)) = j + 1
      BY <1>1, <1>2, <2>2
    <3>2. (a \o b)[j] = b[j - Len(a)]
      BY <1>5, <1>6, <3>1
    <3>3. b[j - Len(a)] = s[j + 1]
      BY <1>3, <3>1
    <3>4. QED
      BY <3>2, <3>3, <2>2
  <2>3. QED
    BY <2>1, <2>2
<1>8. QED
  BY <1>4, <1>5, <1>6, <1>7 DEF RemovedAt

\* An element inserted into a list that does not have it
LEMMA InsertedList ==
  ASSUME NEW S, NEW s, IsListOf(s, S), NEW e, e \notin S, NEW i \in 1..(Len(s) + 1)
  PROVE  IsListOf(InsertAt(s, i, e), S \cup {e})
<1> DEFINE Q == S \cup {e}
           t == InsertAt(s, i, e)
<1>1. s \in Seq(Q) /\ Len(s) \in Nat /\ DOMAIN s = 1..Len(s)
  <2>1. s \in Seq(S)
    BY DEF IsListOf
  <2>2. QED
    BY <2>1, SeqMonotonic, LenProperties
<1>2. /\ t \in Seq(Q) /\ Len(t) = Len(s) + 1
      /\ \A j \in 1..(Len(s) + 1) : t[j] = IF j < i THEN s[j] ELSE IF j = i THEN e ELSE s[j - 1]
  <2>1. e \in Q /\ s \in Seq(Q) /\ i \in 1..(Len(s) + 1)
    BY <1>1
  <2>2. InsertAt(s, i, e) \in Seq(Q) /\ InsertedAt(InsertAt(s, i, e), s, i, e)
    <3> HIDE DEF Q
    <3>1. QED
      BY <2>1, Inserted
  <2>3. QED
    BY <2>2 DEF InsertedAt
<1> HIDE DEF t
<1>3. DOMAIN t = 1..(Len(s) + 1) /\ i \in Nat
  BY <1>1, <1>2, LenProperties
<1>4. \A j \in 1..Len(s) : s[j] \in S /\ s[j] # e
  BY <1>1 DEF IsListOf, ToSet
<1>5. \A j \in 1..(Len(s) + 1) :
        \/ j < i /\ j \in 1..Len(s) /\ t[j] = s[j]
        \/ j = i /\ t[j] = e
        \/ j > i /\ j - 1 \in 1..Len(s) /\ t[j] = s[j - 1]
  BY <1>1, <1>2, <1>3
<1>6. \A k, l \in 1..Len(s) : s[k] = s[l] => k = l
  BY <1>1 DEF IsListOf, IsInjective
<1>7. ASSUME NEW j \in 1..(Len(s) + 1), NEW k \in 1..(Len(s) + 1), t[j] = t[k] PROVE j = k
  BY <1>1, <1>3, <1>4, <1>5, <1>6, <1>7
<1>8. ToSet(t) = Q
  <2>1. \A j \in 1..(Len(s) + 1) : t[j] \in Q
    BY <1>4, <1>5
  <2>2. ASSUME NEW x \in S PROVE \E j \in 1..(Len(s) + 1) : t[j] = x
    <3>1. PICK k \in 1..Len(s) : s[k] = x
      BY <1>1 DEF IsListOf, ToSet
    <3>2. CASE k < i
      BY <1>1, <1>2, <3>1, <3>2
    <3>3. CASE ~(k < i)
      <4>1. k + 1 \in 1..(Len(s) + 1) /\ ~(k + 1 < i) /\ k + 1 # i /\ (k + 1) - 1 = k
        BY <1>1, <1>3, <3>3
      <4>2. QED
        BY <1>2, <3>1, <4>1
    <3>4. QED
      BY <3>2, <3>3
  <2>3. i \in 1..(Len(s) + 1) /\ t[i] = e
    BY <1>2, <1>3
  <2>4. QED
    BY <1>3, <2>1, <2>2, <2>3 DEF ToSet
<1>9. QED
  BY <1>2, <1>3, <1>7, <1>8 DEF IsListOf, IsInjective, t

\* Two lists of different elements, one after the other
LEMMA JoinedLists ==
  ASSUME NEW S, NEW T, S \cap T = {}, NEW s, NEW t, IsListOf(s, S), IsListOf(t, T)
  PROVE  IsListOf(s \o t, S \cup T)
<1> DEFINE Q == S \cup T
           u == s \o t
<1>1. s \in Seq(Q) /\ t \in Seq(Q)
  BY SeqMonotonic DEF IsListOf
<1>2. /\ Len(s) \in Nat /\ Len(t) \in Nat /\ DOMAIN s = 1..Len(s) /\ DOMAIN t = 1..Len(t)
  BY <1>1, LenProperties
<1>3. /\ u \in Seq(Q) /\ Len(u) = Len(s) + Len(t)
      /\ \A i \in 1 .. (Len(s) + Len(t)) : u[i] = IF i <= Len(s) THEN s[i] ELSE t[i - Len(s)]
  <2> HIDE DEF Q
  <2>1. QED
    BY <1>1, ConcatProperties
<1> HIDE DEF u
<1>4. DOMAIN u = 1..(Len(s) + Len(t))
  BY <1>3, LenProperties
<1>5. (\A i \in 1..Len(s) : s[i] \in S) /\ (\A i \in 1..Len(t) : t[i] \in T)
  BY <1>2 DEF IsListOf, ToSet
<1>6. \A i \in 1..(Len(s) + Len(t)) :
        \/ i \in 1..Len(s) /\ u[i] = s[i] /\ u[i] \in S
        \/ i - Len(s) \in 1..Len(t) /\ u[i] = t[i - Len(s)] /\ u[i] \in T
  BY <1>2, <1>3, <1>5
<1>7. ASSUME NEW i \in DOMAIN u, NEW j \in DOMAIN u, u[i] = u[j] PROVE i = j
  <2>1. CASE i \in 1..Len(s) /\ j \in 1..Len(s) /\ u[i] = s[i] /\ u[j] = s[j]
    BY <2>1, <1>2, <1>7 DEF IsListOf, IsInjective
  <2>2. CASE i - Len(s) \in 1..Len(t) /\ j - Len(s) \in 1..Len(t) /\ u[i] = t[i - Len(s)] /\ u[j] = t[j - Len(s)]
    <3>1. i - Len(s) = j - Len(s)
      BY <2>2, <1>2, <1>7 DEF IsListOf, IsInjective
    <3>2. i \in Int /\ j \in Int
      BY <1>4
    <3>3. QED
      BY <1>2, <3>1, <3>2
  <2>3. QED
    BY <1>4, <1>6, <1>7, <2>1, <2>2
<1>8. ToSet(u) = Q
  <2>1. \A x \in S : \E i \in 1..Len(s) : s[i] = x
    BY <1>2 DEF IsListOf, ToSet
  <2>2. \A x \in T : \E i \in 1..Len(t) : t[i] = x
    BY <1>2 DEF IsListOf, ToSet
  <2>3. \A i \in 1..Len(s) : i \in DOMAIN u /\ u[i] = s[i]
    BY <1>2, <1>3, <1>4
  <2>4. ASSUME NEW i \in 1..Len(t) PROVE i + Len(s) \in DOMAIN u /\ u[i + Len(s)] = t[i]
    <3>1. i + Len(s) \in 1..(Len(s) + Len(t)) /\ ~(i + Len(s) <= Len(s)) /\ (i + Len(s)) - Len(s) = i
      BY <1>2
    <3>2. QED
      BY <1>3, <1>4, <3>1
  <2>5. \A i \in DOMAIN u : u[i] \in Q
    BY <1>4, <1>6
  <2>6. \A x \in Q : \E i \in DOMAIN u : u[i] = x
    BY <2>1, <2>2, <2>3, <2>4
  <2>7. QED
    BY <2>5, <2>6 DEF ToSet
<1>9. QED
  BY <1>3, <1>7, <1>8 DEF IsListOf, IsInjective, u

\* A list turned round
LEMMA ReversedList ==
  ASSUME NEW S, NEW s, IsListOf(s, S)
  PROVE  IsListOf(Reverse(s), S)
<1>1. s \in Seq(S) /\ Len(s) \in Nat /\ DOMAIN s = 1..Len(s) /\ \A i \in 1..Len(s) : s[i] \in S
  BY LenProperties, ElementOfSeq DEF IsListOf
<1> DEFINE t == Reverse(s)
<1>2. DOMAIN t = 1..Len(s) /\ \A i \in 1..Len(s) : t[i] = s[(Len(s) - i) + 1] /\ (Len(s) - i) + 1 \in 1..Len(s)
  BY <1>1 DEF Reverse
<1>3. t \in Seq(S)
  BY <1>1, <1>2 DEF Reverse
<1> HIDE DEF t
<1>4. ASSUME NEW i \in 1..Len(s), NEW j \in 1..Len(s), t[i] = t[j] PROVE i = j
  <2>1. (Len(s) - i) + 1 = (Len(s) - j) + 1
    BY <1>1, <1>2, <1>4 DEF IsListOf, IsInjective
  <2>2. QED
    BY <1>1, <2>1
<1>5. ASSUME NEW j \in 1..Len(s) PROVE \E i \in 1..Len(s) : t[i] = s[j]
  <2>1. (Len(s) - j) + 1 \in 1..Len(s) /\ (Len(s) - ((Len(s) - j) + 1)) + 1 = j
    BY <1>1
  <2>2. QED
    BY <1>2, <2>1
<1>6. ToSet(t) = ToSet(s)
  <2>1. \A i \in 1..Len(s) : t[i] \in ToSet(s)
    BY <1>1, <1>2 DEF ToSet
  <2>2. \A x \in ToSet(s) : \E i \in 1..Len(s) : t[i] = x
    BY <1>1, <1>5 DEF ToSet
  <2>3. ToSet(t) = {t[i] : i \in 1..Len(s)}
    BY <1>2 DEF ToSet
  <2>4. QED
    BY <2>1, <2>2, <2>3
<1>7. QED
  BY <1>2, <1>3, <1>4, <1>6 DEF IsListOf, IsInjective, t

\* The elements of a list that are in a set
LEMMA PickedList ==
  ASSUME NEW S, NEW s, IsListOf(s, S), NEW T
  PROVE  IsListOf(Picked(s, T), S \cap T)
<1>1. s \in Seq(S) /\ IsInjective(s) /\ ToSet(s) = S
  BY DEF IsListOf
<1>2. Picked(s, T) \in Seq(S) /\ ToSet(Picked(s, T)) = S \cap T /\ IsInjective(Picked(s, T))
  BY <1>1, PickedSet
<1> DEFINE t == Picked(s, T)
<1>3. Len(t) \in Nat /\ DOMAIN t = 1..Len(t) /\ t \in [1..Len(t) -> S]
  BY <1>2, LenProperties
<1>4. \A i \in 1..Len(t) : t[i] \in S \cap T
  BY <1>2, <1>3 DEF ToSet
<1> HIDE DEF t
<1>5. t \in Seq(S \cap T)
  BY <1>3, <1>4
<1>6. QED
  BY <1>2, <1>5 DEF t, IsListOf

\* The first element taken off a list
LEMMA TailOfList ==
  ASSUME NEW S, NEW s, IsListOf(s, S), s # <<>>
  PROVE  Head(s) \in S /\ IsListOf(Tail(s), S \ {Head(s)})
<1>1. s \in Seq(S) /\ Len(s) \in Nat \ {0} /\ DOMAIN s = 1..Len(s) /\ \A i \in 1..Len(s) : s[i] \in S
  BY LenProperties, ElementOfSeq, EmptySeq DEF IsListOf
<1>2. Head(s) \in S /\ Tail(s) \in Seq(S) /\ Len(Tail(s)) = Len(s) - 1
      /\ \A i \in 1..Len(Tail(s)) : Tail(s)[i] = s[i + 1]
  BY <1>1, HeadTailProperties
<1>3. Head(s) = s[1]
  BY <1>1
<1> DEFINE t == Tail(s)
<1>4. DOMAIN t = 1..(Len(s) - 1) /\ t \in [1..(Len(s) - 1) -> S] /\ Len(s) - 1 \in Nat
  BY <1>1, <1>2, LenProperties
<1>5. \A i \in 1..(Len(s) - 1) : t[i] = s[i + 1] /\ i + 1 \in 1..Len(s) /\ i + 1 # 1
  BY <1>1, <1>2
<1> HIDE DEF t
<1>6. \A i, j \in 1..Len(s) : s[i] = s[j] => i = j
  BY <1>1 DEF IsListOf, IsInjective
<1>7. 1 \in 1..Len(s)
  BY <1>1
<1>8. \A i \in 1..(Len(s) - 1) : t[i] \in S \ {Head(s)}
  BY <1>1, <1>3, <1>5, <1>6, <1>7
<1>9. t \in Seq(S \ {Head(s)})
  BY <1>4, <1>8
<1>10. ASSUME NEW i \in 1..(Len(s) - 1), NEW j \in 1..(Len(s) - 1), t[i] = t[j] PROVE i = j
  <2>1. i + 1 = j + 1
    BY <1>5, <1>6, <1>10
  <2>2. QED
    BY <2>1
<1>11. ASSUME NEW x \in S \ {Head(s)} PROVE \E i \in 1..(Len(s) - 1) : t[i] = x
  <2>1. PICK j \in 1..Len(s) : s[j] = x
    BY <1>1 DEF IsListOf, ToSet
  <2>2. j # 1
    BY <2>1, <1>3
  <2>3. j - 1 \in 1..(Len(s) - 1) /\ (j - 1) + 1 = j
    BY <2>2, <1>1
  <2>4. QED
    BY <1>5, <2>1, <2>3
<1>12. ToSet(t) = S \ {Head(s)}
  BY <1>4, <1>8, <1>11 DEF ToSet
<1>13. QED
  BY <1>2, <1>4, <1>9, <1>10, <1>12 DEF IsListOf, IsInjective, t

-----------------------------------------------------------------------------
(***************************************************************************)
(* How often an element occurs in a sequence, and sequences of sequences.  *)
(***************************************************************************)
\* How often c is among the first n elements of s
Occurrences(s, c, n) == Cardinality({i \in 1..n : s[i] = c})

\* An element at the end of a sequence counts there and not before.
LEMMA CountAppended ==
  ASSUME NEW S, NEW s \in Seq(S), NEW x \in S, NEW c
  PROVE  /\ Append(s, x) \in Seq(S) /\ Len(Append(s, x)) = Len(s) + 1
         /\ \A n \in 1..Len(s) : Append(s, x)[n] = s[n]
         /\ Append(s, x)[Len(s) + 1] = x
         /\ \A n \in 0..Len(s) : Occurrences(Append(s, x), c, n) = Occurrences(s, c, n) /\ Occurrences(s, c, n) \in Nat
         /\ Occurrences(Append(s, x), c, Len(s) + 1) = Occurrences(s, c, Len(s)) + (IF x = c THEN 1 ELSE 0)
<1> DEFINE t == Append(s, x)
           At1(n) == {i \in 1..n : s[i] = c}
<1>1. /\ t \in Seq(S) /\ Len(t) = Len(s) + 1 /\ Len(s) \in Nat
      /\ \A n \in 1..Len(s) : t[n] = s[n]
      /\ t[Len(s) + 1] = x
    BY LenProperties, AppendProperties
<1> HIDE DEF t
<1>2. ASSUME NEW n \in 0..Len(s) PROVE {i \in 1..n : t[i] = c} = At1(n) /\ IsFiniteSet(At1(n))
    <2>1. \A i \in 1..n : t[i] = s[i]
        BY <1>1
    <2>2. IsFiniteSet(1..n) /\ At1(n) \subseteq 1..n
        BY <1>1, FS_Interval
    <2> QED BY <2>1, <2>2, FS_Subset
<1>3. ASSUME NEW n \in 0..Len(s) PROVE Occurrences(t, c, n) = Occurrences(s, c, n) /\ Occurrences(s, c, n) \in Nat
    BY <1>2, FS_CardinalityType DEF Occurrences
<1>4. Occurrences(t, c, Len(s) + 1) = Occurrences(s, c, Len(s)) + (IF x = c THEN 1 ELSE 0)
    <2> DEFINE m == Len(s) + 1
               U == {i \in 1..m : t[i] = c}
    <2>1. Len(s) \in 0..Len(s)
        BY <1>1
    <2>2. \A i \in 1..m : i = m \/ i \in 1..Len(s)
        BY <1>1
    <2>3. m \notin At1(Len(s)) /\ IsFiniteSet(At1(Len(s)))
        BY <1>1, <1>2, <2>1
    <2>4. {i \in 1..Len(s) : t[i] = c} = At1(Len(s))
        BY <1>2, <2>1
    <2>5. CASE x = c
        <3>1. U = At1(Len(s)) \cup {m}
            BY <1>1, <2>2, <2>4, <2>5
        <3>2. Cardinality(At1(Len(s)) \cup {m}) = Cardinality(At1(Len(s))) + 1
            <4> HIDE DEF At1, m
            <4> QED BY <2>3, FS_AddElement
        <3> QED BY <2>5, <3>1, <3>2 DEF Occurrences
    <2>6. CASE x # c
        <3>1. U = At1(Len(s))
            BY <1>1, <2>2, <2>4, <2>6
        <3>2. Cardinality(At1(Len(s))) \in Nat
            BY <2>3, FS_CardinalityType
        <3>3. Occurrences(t, c, Len(s) + 1) = Occurrences(s, c, Len(s))
            BY <3>1 DEF Occurrences
        <3>4. Occurrences(s, c, Len(s)) \in Nat
            BY <3>2 DEF Occurrences
        <3> QED BY <2>6, <3>3, <3>4
    <2> QED BY <2>5, <2>6
<1> QED BY <1>1, <1>3, <1>4 DEF t

\* What is counted is there.
LEMMA CountedIsThere ==
  ASSUME NEW S, NEW s \in Seq(S), NEW c
  PROVE  /\ Occurrences(s, c, Len(s)) \in Nat
         /\ Occurrences(s, c, Len(s)) = 0 <=> \A i \in 1..Len(s) : s[i] # c
<1> DEFINE At1 == {i \in 1..Len(s) : s[i] = c}
<1>1. IsFiniteSet(At1) /\ Cardinality(At1) \in Nat
    <2>1. IsFiniteSet(1..Len(s)) /\ At1 \subseteq 1..Len(s)
        BY LenProperties, FS_Interval
    <2> QED BY <2>1, FS_Subset, FS_CardinalityType
<1>2. Cardinality(At1) = 0 <=> At1 = {}
    BY <1>1, FS_EmptySet
<1>3. At1 = {} <=> \A i \in 1..Len(s) : s[i] # c
    OBVIOUS
<1> QED BY <1>1, <1>2, <1>3 DEF Occurrences

\* A flattened sequence of sequences holds what these hold.
LEMMA Flattened ==
  ASSUME NEW Q, NEW seqs \in Seq(Seq(Q))
  PROVE  /\ FlattenSeq(seqs) \in Seq(Q)
         /\ \A i \in DOMAIN seqs : \A k \in DOMAIN seqs[i] :
              \E j \in DOMAIN FlattenSeq(seqs) : FlattenSeq(seqs)[j] = seqs[i][k]
<1> DEFINE A == Seq(Q)
           n == Len(seqs)
<1>1. n \in Nat /\ DOMAIN seqs = 1..n /\ \A i \in 1..n : seqs[i] \in A
  BY LenProperties, ElementOfSeq
<1>2. CASE n = 0
  <2>1. seqs = <<>>
    BY <1>2, <1>1, EmptySeq
  <2>2. FlattenSeq(<<>>) = <<>>
    BY DEF FlattenSeq
  <2>3. <<>> \in Seq(Q) /\ 1..0 = {}
    BY EmptySeq
  <2>4. \A i \in DOMAIN seqs : FALSE
    BY <1>1, <1>2, <2>3
  <2>5. QED
    BY <2>1, <2>2, <2>3, <2>4
<1>3. CASE n # 0
  <2> DEFINE step == [p \in Nat \X A |-> IF p[1] + 1 \in 1..n THEN p[2] \o seqs[p[1] + 1] ELSE p[2]]
             flat == CHOOSE f : f = [i \in 1..n |-> IF i = 1 THEN seqs[i] ELSE f[i - 1] \o seqs[i]]
  <2>1. n - 1 \in Nat /\ seqs[1] \in A /\ 1 \in 1..n
    BY <1>1, <1>3
  <2>2. step \in [Nat \X A -> A]
    <3>1. \A p \in Nat \X A : p[1] + 1 \in 1..n => p[2] \o seqs[p[1] + 1] \in A
      BY <1>1, ConcatProperties
    <3>2. QED
      BY <3>1
  <2>3. PICK f : Unfolds(f, n - 1, A, seqs[1], step)
    <3> HIDE DEF A, step, n
    <3>1. QED
      BY <2>1, <2>2, Recursion
  <2>4. f \in [0..(n - 1) -> A] /\ f[0] = seqs[1] /\ \A i \in 0..((n - 1) - 1) : f[i + 1] = step[<<i + 1, f[i]>>]
    BY <2>3 DEF Unfolds
  <2> DEFINE h == [i \in 1..n |-> f[i - 1]]
  <2>5. ASSUME NEW i \in 2..n PROVE h[i] = h[i - 1] \o seqs[i]
    <3>1. i - 2 \in 0..((n - 1) - 1) /\ (i - 2) + 1 = i - 1 /\ (i - 1) - 1 = i - 2 /\ i - 1 \in 1..n /\ i \in 1..n
          /\ i - 2 \in 0..(n - 1) /\ i - 1 \in Nat /\ (i - 1) + 1 = i
      BY <1>1
    <3>2. f[i - 1] = step[<<i - 1, f[i - 2]>>] /\ f[i - 2] \in A
      BY <2>4, <3>1
    <3>3. f[i - 1] = f[i - 2] \o seqs[i]
      BY <3>1, <3>2
    <3>4. h[i] = f[i - 1] /\ h[i - 1] = f[i - 2]
      BY <3>1
    <3>5. QED
      BY <3>3, <3>4
  <2>6. h = [i \in 1..n |-> IF i = 1 THEN seqs[i] ELSE h[i - 1] \o seqs[i]]
    <3>1. h[1] = seqs[1]
      BY <2>1, <2>4
    <3>2. \A i \in 1..n : i = 1 \/ i \in 2..n
      BY <1>1
    <3>3. DOMAIN h = 1..n /\ h = [i \in 1..n |-> h[i]]
      OBVIOUS
    <3> HIDE DEF h
    <3>4. QED
      BY <2>5, <3>1, <3>2, <3>3
  <2>7. flat = [i \in 1..n |-> IF i = 1 THEN seqs[i] ELSE flat[i - 1] \o seqs[i]]
    <3> HIDE DEF h
    <3>1. QED
      BY <2>6
  <2>8. FlattenSeq(seqs) = flat[n]
    BY <1>3 DEF FlattenSeq
  <2> HIDE DEF flat, h, step
  <2>9. flat[1] = seqs[1] /\ \A i \in 2..n : flat[i] = flat[i - 1] \o seqs[i]
    <3>1. \A i \in 1..n : flat[i] = IF i = 1 THEN seqs[i] ELSE flat[i - 1] \o seqs[i]
      BY <2>7
    <3>2. \A i \in 2..n : i \in 1..n /\ i # 1
      BY <1>1
    <3> HIDE DEF n
    <3>3. QED
      BY <2>1, <3>1, <3>2
  <2> DEFINE Holds(s, i) == \A k \in DOMAIN seqs[i] : \E j \in DOMAIN s : s[j] = seqs[i][k]
             P == {m \in Nat : m + 1 <= n => flat[m + 1] \in A /\ \A i \in 1..(m + 1) : Holds(flat[m + 1], i)}
  <2>10. 0 \in P
    <3>1. flat[0 + 1] \in A /\ 1..(0 + 1) = {1}
      BY <2>1, <2>9
    <3>2. QED
      BY <3>1, <2>9
  <2>11. ASSUME NEW m \in Nat, m \in P PROVE m + 1 \in P
    <3> SUFFICES ASSUME (m + 1) + 1 <= n
                 PROVE  flat[(m + 1) + 1] \in A /\ \A i \in 1..((m + 1) + 1) : Holds(flat[(m + 1) + 1], i)
      OBVIOUS
    <3>1. flat[m + 1] \in A /\ \A i \in 1..(m + 1) : Holds(flat[m + 1], i)
      BY <2>11, <1>1
    <3>2. (m + 1) + 1 \in 2..n /\ ((m + 1) + 1) - 1 = m + 1 /\ seqs[(m + 1) + 1] \in A
      BY <1>1
    <3>3. flat[(m + 1) + 1] = flat[m + 1] \o seqs[(m + 1) + 1]
      BY <2>9, <3>2
    <3> DEFINE s == flat[m + 1]
               t == seqs[(m + 1) + 1]
               w == flat[(m + 1) + 1]
    <3>4. s \in Seq(Q) /\ t \in Seq(Q) /\ w = s \o t
      BY <3>1, <3>2, <3>3
    <3>5. t = seqs[(m + 1) + 1]
      OBVIOUS
    <3> HIDE DEF s, t, w
    <3>6. /\ w \in Seq(Q) /\ Len(w) = Len(s) + Len(t)
          /\ \A i \in 1..(Len(s) + Len(t)) : w[i] = IF i <= Len(s) THEN s[i] ELSE t[i - Len(s)]
      BY <3>4, ConcatProperties
    <3>7. /\ Len(s) \in Nat /\ DOMAIN s = 1..Len(s) /\ Len(t) \in Nat /\ DOMAIN t = 1..Len(t)
          /\ DOMAIN w = 1..(Len(s) + Len(t))
      BY <3>4, <3>6, LenProperties
    <3>8. \A j \in DOMAIN s : j \in DOMAIN w /\ w[j] = s[j]
      BY <3>6, <3>7
    <3>9. \A j \in DOMAIN t : Len(s) + j \in DOMAIN w /\ w[Len(s) + j] = t[j]
      BY <3>6, <3>7
    <3>10. \A i \in 1..(m + 1) : Holds(w, i)
      BY <3>1, <3>8 DEF s
    <3>11. Holds(w, (m + 1) + 1)
      BY <3>5, <3>9
    <3>12. \A i \in 1..((m + 1) + 1) : i \in 1..(m + 1) \/ i = (m + 1) + 1
      OBVIOUS
    <3>13. w = flat[(m + 1) + 1]
      BY DEF w
    <3> HIDE DEF Holds
    <3>14. QED
      BY <3>6, <3>10, <3>11, <3>12, <3>13
  <2> HIDE DEF P
  <2>12. n - 1 \in P
    BY <2>1, <2>10, <2>11, Induction
  <2>13. (n - 1) + 1 = n
    BY <1>1
  <2>14. QED
    BY <1>1, <2>8, <2>12, <2>13 DEF P
<1>4. QED
  BY <1>2, <1>3
=============================================================================
