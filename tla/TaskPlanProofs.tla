---------------------------- MODULE TaskPlanProofs ----------------------------
(***************************************************************************)
(* Proofs about the lists of tasks, for any number of objects, any lookups *)
(* and any bound of the passes.                                            *)
(***************************************************************************)
EXTENDS TaskPlan, SequenceFacts

-----------------------------------------------------------------------------
(***************************************************************************)
(* Moving an element of a list forwards.                                   *)
(***************************************************************************)

\* Where an element stands after the one at from was moved to to.
NewPlace(j, from, to) == IF j = from THEN to ELSE IF to <= j /\ j < from THEN j + 1 ELSE j

\* Moving changes places only.
LEMMA MovedIs ==
  ASSUME NEW Q, NEW s \in Seq(Q), NEW from \in 1..Len(s), NEW to \in 1..(from - 1)
  PROVE  /\ Moved(s, from, to) \in Seq(Q) /\ Len(Moved(s, from, to)) = Len(s)
         /\ \A j \in 1..Len(s) : Moved(s, from, to)[NewPlace(j, from, to)] = s[j]
<1>1. Len(s) \in Nat /\ s[from] \in Q
  BY LenProperties, ElementOfSeq
<1> DEFINE r == RemoveAt(s, from)
           t == InsertAt(r, to, s[from])
<1>2. /\ r \in Seq(Q) /\ Len(r) = Len(s) - 1
      /\ \A j \in 1..(Len(s) - 1) : r[j] = IF j < from THEN s[j] ELSE s[j + 1]
  BY Removed DEF RemovedAt
<1> HIDE DEF r
<1>3. to \in 1..(Len(r) + 1) /\ Len(r) + 1 = Len(s)
  BY <1>1, <1>2
<1>4. /\ t \in Seq(Q) /\ Len(t) = Len(r) + 1
      /\ \A j \in 1..(Len(r) + 1) : t[j] = IF j < to THEN r[j] ELSE IF j = to THEN s[from] ELSE r[j - 1]
  <2>1. r \in Seq(Q) /\ to \in 1..(Len(r) + 1) /\ s[from] \in Q
    BY <1>1, <1>2, <1>3
  <2>2. InsertAt(r, to, s[from]) \in Seq(Q) /\ InsertedAt(InsertAt(r, to, s[from]), r, to, s[from])
    BY <2>1, Inserted
  <2>3. QED
    BY <2>2 DEF InsertedAt
<1> HIDE DEF t
<1>5. ASSUME NEW j \in 1..Len(s) PROVE t[NewPlace(j, from, to)] = s[j]
  <2>1. CASE j = from
    <3>1. NewPlace(j, from, to) = to /\ to \in 1..(Len(r) + 1) /\ ~(to < to)
      BY <2>1, <1>3 DEF NewPlace
    <3>2. QED
      BY <3>1, <1>4, <2>1
  <2>2. CASE to <= j /\ j < from
    <3>1. NewPlace(j, from, to) = j + 1
      BY <2>2 DEF NewPlace
    <3>2. j + 1 \in 1..(Len(r) + 1) /\ ~(j + 1 < to) /\ j + 1 # to /\ (j + 1) - 1 = j /\ j \in 1..(Len(s) - 1)
      BY <2>2, <1>1, <1>3
    <3>3. t[j + 1] = r[j] /\ r[j] = s[j]
      BY <3>2, <1>2, <1>4, <2>2
    <3>4. QED
      BY <3>1, <3>3
  <2>3. CASE j < to
    <3>1. NewPlace(j, from, to) = j /\ j \in 1..(Len(r) + 1) /\ j \in 1..(Len(s) - 1) /\ j < from
      BY <2>3, <1>1, <1>3 DEF NewPlace
    <3>2. t[j] = r[j] /\ r[j] = s[j]
      BY <3>1, <1>2, <1>4, <2>3
    <3>3. QED
      BY <3>1, <3>2
  <2>4. CASE j > from
    <3>1. NewPlace(j, from, to) = j /\ j \in 1..(Len(r) + 1) /\ ~(j < to) /\ j # to
          /\ j - 1 \in 1..(Len(s) - 1) /\ ~(j - 1 < from) /\ (j - 1) + 1 = j
      BY <2>4, <1>1, <1>3 DEF NewPlace
    <3>2. t[j] = r[j - 1] /\ r[j - 1] = s[j]
      BY <3>1, <1>2, <1>4
    <3>3. QED
      BY <3>1, <3>2
  <2>5. QED
    BY <2>1, <2>2, <2>3, <2>4
<1>6. QED
  BY <1>3, <1>4, <1>5 DEF Moved, t, r

\* New places are places, and every place is a new one.
LEMMA PlacesKept ==
  ASSUME NEW n \in Nat, NEW from \in 1..n, NEW to \in 1..(from - 1)
  PROVE  /\ \A j \in 1..n : NewPlace(j, from, to) \in 1..n
         /\ \A k \in 1..n : \E j \in 1..n : NewPlace(j, from, to) = k
         /\ \A i, j \in 1..n : NewPlace(i, from, to) = NewPlace(j, from, to) => i = j
         /\ \A i, j \in 1..n : i < j /\ j # from => NewPlace(i, from, to) < NewPlace(j, from, to)
<1>1. \A j \in 1..n : NewPlace(j, from, to) \in 1..n
  BY DEF NewPlace
<1>2. ASSUME NEW k \in 1..n PROVE \E j \in 1..n : NewPlace(j, from, to) = k
  <2>1. CASE k = to
    BY <2>1 DEF NewPlace
  <2>2. CASE to < k /\ k <= from
    <3>1. k - 1 \in 1..n /\ NewPlace(k - 1, from, to) = k
      BY <2>2 DEF NewPlace
    <3>2. QED
      BY <3>1
  <2>3. CASE k < to \/ k > from
    BY <2>3 DEF NewPlace
  <2>4. QED
    BY <2>1, <2>2, <2>3
<1>3. \A i, j \in 1..n : NewPlace(i, from, to) = NewPlace(j, from, to) => i = j
  BY DEF NewPlace
<1>4. \A i, j \in 1..n : i < j /\ j # from => NewPlace(i, from, to) < NewPlace(j, from, to)
  BY DEF NewPlace
<1>5. QED
  BY <1>1, <1>2, <1>3, <1>4

\* A list with an element moved forwards lists the same; nothing but that element comes
\* before what it followed.
LEMMA MovedList ==
  ASSUME NEW S, NEW s, IsListOf(s, S), NEW from \in 1..Len(s), NEW to \in 1..(from - 1)
  PROVE  /\ IsListOf(Moved(s, from, to), S) /\ Len(Moved(s, from, to)) = Len(s)
         /\ \A a, b : Precedes(s, a, b) /\ b # s[from] => Precedes(Moved(s, from, to), a, b)
<1> DEFINE t == Moved(s, from, to)
           new == [j \in 1..Len(s) |-> NewPlace(j, from, to)]
<1>1. s \in Seq(S) /\ Len(s) \in Nat /\ DOMAIN s = 1..Len(s)
  BY LenProperties DEF IsListOf
<1>2. t \in Seq(S) /\ Len(t) = Len(s) /\ \A j \in 1..Len(s) : t[new[j]] = s[j]
  BY <1>1, MovedIs
<1>3. /\ \A j \in 1..Len(s) : new[j] \in 1..Len(s)
      /\ \A k \in 1..Len(s) : \E j \in 1..Len(s) : new[j] = k
      /\ \A i, j \in 1..Len(s) : new[i] = new[j] => i = j
      /\ \A i, j \in 1..Len(s) : i < j /\ j # from => new[i] < new[j]
  <2>1. /\ \A j \in 1..Len(s) : NewPlace(j, from, to) \in 1..Len(s)
        /\ \A k \in 1..Len(s) : \E j \in 1..Len(s) : NewPlace(j, from, to) = k
        /\ \A i, j \in 1..Len(s) : NewPlace(i, from, to) = NewPlace(j, from, to) => i = j
        /\ \A i, j \in 1..Len(s) : i < j /\ j # from => NewPlace(i, from, to) < NewPlace(j, from, to)
    BY <1>1, PlacesKept
  <2>2. \A j \in 1..Len(s) : new[j] = NewPlace(j, from, to)
    OBVIOUS
  <2> HIDE DEF new, t
  <2>3. ASSUME NEW j \in 1..Len(s) PROVE new[j] \in 1..Len(s)
    <3>1. new[j] = NewPlace(j, from, to)
      BY <2>2
    <3>2. NewPlace(j, from, to) \in 1..Len(s)
      BY <2>1
    <3>3. QED
      BY <3>1, <3>2, Zenon
  <2>7. ASSUME NEW k \in 1..Len(s) PROVE \E j \in 1..Len(s) : new[j] = k
    <3>1. PICK j \in 1..Len(s) : NewPlace(j, from, to) = k
      BY <2>1
    <3>2. QED
      BY <2>2, <3>1
  <2>4. ASSUME NEW i \in 1..Len(s), NEW j \in 1..Len(s), new[i] = new[j] PROVE i = j
    BY <2>1, <2>2, <2>4
  <2>5. ASSUME NEW i \in 1..Len(s), NEW j \in 1..Len(s), i < j, j # from PROVE new[i] < new[j]
    <3>1. NewPlace(i, from, to) < NewPlace(j, from, to)
      BY <2>1, <2>5
    <3>2. QED
      BY <2>2, <3>1
  <2>6. QED
    BY <2>3, <2>4, <2>5, <2>7
<1> HIDE DEF t, new
<1>4. DOMAIN t = 1..Len(s)
  BY <1>2, LenProperties
<1>5. \A i, j \in 1..Len(s) : s[i] = s[j] => i = j
  BY <1>1 DEF IsListOf, IsInjective
<1>6. ASSUME NEW k \in 1..Len(s), NEW l \in 1..Len(s), t[k] = t[l] PROVE k = l
  <2>1. PICK i \in 1..Len(s) : new[i] = k
    BY <1>3
  <2>2. PICK j \in 1..Len(s) : new[j] = l
    BY <1>3
  <2>3. s[i] = s[j]
    BY <1>2, <1>6, <2>1, <2>2
  <2>4. QED
    BY <1>5, <2>1, <2>2, <2>3
<1>7. ToSet(t) = S
  <2>1. ASSUME NEW k \in 1..Len(s) PROVE t[k] \in S
    BY <1>2, <1>4, ElementOfSeq
  <2>2. ASSUME NEW x \in S PROVE \E k \in 1..Len(s) : t[k] = x
    <3>1. PICK j \in 1..Len(s) : s[j] = x
      BY <1>1 DEF IsListOf, ToSet
    <3>2. QED
      BY <1>2, <1>3, <3>1
  <2>3. QED
    BY <1>4, <2>1, <2>2 DEF ToSet
<1>8. ASSUME NEW a, NEW b, Precedes(s, a, b), b # s[from] PROVE Precedes(t, a, b)
  <2>1. PICK i \in 1..Len(s), j \in 1..Len(s) : i < j /\ s[i] = a /\ s[j] = b
    BY <1>1, <1>8 DEF Precedes
  <2>2. j # from
    BY <1>8, <2>1
  <2>3. new[i] < new[j] /\ new[i] \in DOMAIN t /\ new[j] \in DOMAIN t
    BY <1>3, <1>4, <2>1, <2>2
  <2>4. t[new[i]] = a /\ t[new[j]] = b
    BY <1>2, <2>1
  <2>5. QED
    BY <2>3, <2>4 DEF Precedes
<1>9. QED
  BY <1>2, <1>4, <1>6, <1>7, <1>8 DEF IsListOf, IsInjective, t

\* An element inserted comes before those that stood at its place or later, and after the
\* others; these keep their order.
LEMMA InsertedOrder ==
  ASSUME NEW S, NEW s, IsListOf(s, S), NEW e, NEW i \in 1..(Len(s) + 1)
  PROVE  /\ \A a, b : Precedes(s, a, b) => Precedes(InsertAt(s, i, e), a, b)
         /\ \A j \in i..Len(s) : Precedes(InsertAt(s, i, e), e, s[j])
         /\ \A j \in 1..(i - 1) : Precedes(InsertAt(s, i, e), s[j], e)
<1> DEFINE Q == S \cup {e}
           t == InsertAt(s, i, e)
<1>1. s \in Seq(Q) /\ Len(s) \in Nat /\ DOMAIN s = 1..Len(s) /\ e \in Q /\ i \in Nat
  <2>1. s \in Seq(S)
    BY DEF IsListOf
  <2>2. QED
    BY <2>1, SeqMonotonic, LenProperties
<1>2. /\ t \in Seq(Q) /\ Len(t) = Len(s) + 1
      /\ \A j \in 1..(Len(s) + 1) : t[j] = IF j < i THEN s[j] ELSE IF j = i THEN e ELSE s[j - 1]
  <2>1. InsertAt(s, i, e) \in Seq(Q) /\ InsertedAt(InsertAt(s, i, e), s, i, e)
    <3> HIDE DEF Q
    <3>1. QED
      BY <1>1, Inserted
  <2>2. QED
    BY <2>1 DEF InsertedAt
<1> DEFINE new == [j \in 1..Len(s) |-> IF j < i THEN j ELSE j + 1]
<1> HIDE DEF t
<1>3. DOMAIN t = 1..(Len(s) + 1)
  BY <1>1, <1>2, LenProperties
<1>4. ASSUME NEW j \in 1..Len(s) PROVE new[j] \in DOMAIN t /\ t[new[j]] = s[j]
  <2>1. CASE j < i
    BY <1>1, <1>2, <1>3, <2>1
  <2>2. CASE ~(j < i)
    <3>1. new[j] = j + 1 /\ j + 1 \in 1..(Len(s) + 1) /\ ~(j + 1 < i) /\ j + 1 # i /\ (j + 1) - 1 = j
      BY <1>1, <2>2
    <3> HIDE DEF new
    <3>2. QED
      BY <1>2, <1>3, <3>1
  <2>3. QED
    BY <2>1, <2>2
<1>5. i \in DOMAIN t /\ t[i] = e
  BY <1>1, <1>2, <1>3
<1>6. ASSUME NEW a, NEW b, Precedes(s, a, b) PROVE Precedes(t, a, b)
  <2>1. PICK k \in 1..Len(s), l \in 1..Len(s) : k < l /\ s[k] = a /\ s[l] = b
    BY <1>1, <1>6 DEF Precedes
  <2>2. new[k] < new[l]
    BY <1>1, <2>1
  <2> HIDE DEF new
  <2>3. QED
    BY <1>4, <2>1, <2>2 DEF Precedes
<1>7. ASSUME NEW j \in i..Len(s) PROVE Precedes(t, e, s[j])
  <2>1. j \in 1..Len(s) /\ i < new[j]
    BY <1>1
  <2> HIDE DEF new
  <2>2. QED
    BY <1>4, <1>5, <2>1 DEF Precedes
<1>8. ASSUME NEW j \in 1..(i - 1) PROVE Precedes(t, s[j], e)
  <2>1. j \in 1..Len(s) /\ new[j] < i
    BY <1>1
  <2> HIDE DEF new
  <2>2. QED
    BY <1>4, <1>5, <2>1 DEF Precedes
<1>9. QED
  BY <1>6, <1>7, <1>8 DEF t

-----------------------------------------------------------------------------
(***************************************************************************)
(* Nothing is lost.                                                        *)
(***************************************************************************)

\* The objects a list is for
Elements(name) == {o \in ToSet(script.objects) : Belongs(o, name)}
\* The lists that are ready
Ready ==
  CASE stage = "done" -> ListNames
    [] stage # "done" /\ building = "deleteTasks" -> {"tasks", "queryTasks", "updateTasks"}
    [] stage # "done" /\ building = "updateTasks" -> {"tasks", "queryTasks"}
    [] stage = "query" /\ building = "tasks" -> {"tasks"}
    [] OTHER -> {}

TypeOK ==
  /\ script \in Scripts
  /\ stage \in {"keep", "chain", "masters", "query", "special", "done"}
  /\ building \in {"tasks", "updateTasks", "deleteTasks"}
  /\ stage \in {"keep", "query"} => building = "tasks"
  /\ stage = "special" => building # "tasks"
  /\ low \in [any : Nat \ {0}, readonly : Nat \ {0}]
  /\ DOMAIN plan = ListNames

\* A cursor over a list of n elements: what it compares next are two places of it.
CursorFor(c, n) ==
  /\ c \in [snap : Seq(Objects), left : Nat \ {0}, right : Nat \ {0}, swapped : BOOLEAN, pass : Nat]
  /\ Len(c.snap) = n /\ c.left < c.right /\ (c.left < n => c.right <= n)

KeptAll == stage = "keep" => rest = script.objects
\* The chain and what is still to be inserted make up the objects of the list.
ChainHasAll ==
  stage = "chain" =>
    /\ IsListOf(list, ToSet(list)) /\ IsListOf(rest, ToSet(rest))
    /\ ToSet(list) \cap ToSet(rest) = {} /\ ToSet(list) \cup ToSet(rest) = Elements(building)
    /\ low.readonly <= Len(list) + 1
\* A list being sorted keeps its objects, and the copy has the same (the special orders
\* only compare places).
SortHasAll ==
  stage \in {"masters", "query", "special"} =>
    /\ IsListOf(list, Elements(building)) /\ CursorFor(cursor, Len(list))
    /\ stage # "special" => ToSet(cursor.snap) = Elements(building)
ReadyHaveAll == \A name \in Ready : IsListOf(plan[name], Elements(name))
PlanInv == TypeOK /\ KeptAll /\ ChainHasAll /\ SortHasAll /\ ReadyHaveAll

\* What a script is
LEMMA ScriptOf ==
  ASSUME TypeOK
  PROVE  /\ IsListOf(script.objects, ToSet(script.objects)) /\ ToSet(script.objects) \subseteq Objects
         /\ Elements("tasks") = ToSet(script.objects) /\ Elements("queryTasks") = ToSet(script.objects)
         /\ \A name : Elements(name) = ToSet(script.objects) \cap Members(name) /\ Elements(name) \subseteq Objects
<1>1. script.objects \in Seq(Objects) /\ IsInjective(script.objects)
  BY ScriptAssumption DEF TypeOK, IsScript
<1> DEFINE s == script.objects
<1>2. Len(s) \in Nat /\ DOMAIN s = 1..Len(s) /\ \A i \in 1..Len(s) : s[i] \in Objects
  BY <1>1, LenProperties, ElementOfSeq
<1>3. s \in Seq(ToSet(s)) /\ ToSet(s) \subseteq Objects
  <2>1. s \in [1..Len(s) -> ToSet(s)]
    BY <1>1, <1>2, LenProperties DEF ToSet
  <2>2. ToSet(s) \subseteq Objects
    BY <1>2 DEF ToSet
  <2> HIDE DEF s
  <2>3. QED
    BY <1>2, <2>1, <2>2
<1>4. \A o : Belongs(o, "tasks") /\ Belongs(o, "queryTasks")
  BY DEF Belongs
<1>5. QED
  BY <1>1, <1>3, <1>4 DEF IsListOf, Elements, Members

\* A list of objects, as any list, and its length
LEMMA ListTyped ==
  ASSUME NEW S, NEW s, IsListOf(s, S)
  PROVE  /\ IsListOf(s, ToSet(s)) /\ Len(s) \in Nat /\ DOMAIN s = 1..Len(s)
         /\ \A T : S \subseteq T => s \in Seq(T)
         /\ \A x \in S : PositionIn(s, x) \in 1..Len(s) /\ s[PositionIn(s, x)] = x
<1>1. s \in Seq(S) /\ ToSet(s) = S /\ IsInjective(s)
  BY DEF IsListOf
<1>2. Len(s) \in Nat /\ DOMAIN s = 1..Len(s)
  BY <1>1, LenProperties
<1>3. ASSUME NEW x \in S PROVE PositionIn(s, x) \in 1..Len(s) /\ s[PositionIn(s, x)] = x
  <2>1. \E i \in DOMAIN s : s[i] = x
    BY <1>1 DEF ToSet
  <2>2. QED
    BY <1>2, <2>1 DEF PositionIn
<1>4. \A T : S \subseteq T => s \in Seq(T)
  BY <1>1, SeqMonotonic
<1>5. QED
  BY <1>1, <1>2, <1>3, <1>4 DEF IsListOf

\* A sort starts at the first two places and goes on to other places.
LEMMA CursorStarts ==
  ASSUME NEW s \in Seq(Objects)
  PROVE  CursorFor(FirstPass(s), Len(s)) /\ FirstPass(s).snap = s
<1>1. Len(s) \in Nat
  BY LenProperties
<1>2. QED
  BY <1>1 DEF CursorFor, FirstPass

LEMMA CursorGoesOn ==
  ASSUME NEW c, NEW n \in Nat, CursorFor(c, n)
  PROVE  /\ CursorFor(NextPair(c), n) /\ NextPair(c).snap = c.snap
         /\ CursorFor([c EXCEPT !.swapped = TRUE], n) /\ [c EXCEPT !.swapped = TRUE].snap = c.snap
<1>1. /\ c \in [snap : Seq(Objects), left : Nat \ {0}, right : Nat \ {0}, swapped : BOOLEAN, pass : Nat]
      /\ Len(c.snap) = n /\ c.left < c.right /\ (c.left < n => c.right <= n)
  BY DEF CursorFor
<1>2. c.left \in Nat \ {0} /\ c.right \in Nat \ {0} /\ c.snap \in Seq(Objects)
  BY <1>1
<1>3. ASSUME c.right < n PROVE CursorFor([c EXCEPT !.right = c.right + 1], n)
  <2> DEFINE d == [c EXCEPT !.right = c.right + 1]
  <2>1. d.snap = c.snap /\ d.left = c.left /\ d.right = c.right + 1
    BY <1>1
  <2>2. d \in [snap : Seq(Objects), left : Nat \ {0}, right : Nat \ {0}, swapped : BOOLEAN, pass : Nat]
    BY <1>1, <1>2
  <2> HIDE DEF d
  <2>3. CursorFor(d, n)
    BY <1>1, <1>2, <1>3, <2>1, <2>2 DEF CursorFor
  <2>4. QED
    BY <2>3 DEF d
<1>4. CursorFor([c EXCEPT !.left = c.left + 1, !.right = c.left + 2], n)
  <2> DEFINE d == [c EXCEPT !.left = c.left + 1, !.right = c.left + 2]
  <2>1. d.snap = c.snap /\ d.left = c.left + 1 /\ d.right = c.left + 2
    BY <1>1
  <2>0. c.left + 1 \in Nat \ {0} /\ c.left + 2 \in Nat \ {0}
    BY <1>2
  <2>2. d \in [snap : Seq(Objects), left : Nat \ {0}, right : Nat \ {0}, swapped : BOOLEAN, pass : Nat]
    BY <1>1, <2>0
  <2> HIDE DEF d
  <2>3. CursorFor(d, n)
    BY <1>1, <1>2, <2>1, <2>2 DEF CursorFor
  <2>4. QED
    BY <2>3 DEF d
<1>5. CursorFor(NextPair(c), n)
  BY <1>1, <1>3, <1>4 DEF NextPair
<1>6. NextPair(c).snap = c.snap /\ [c EXCEPT !.swapped = TRUE].snap = c.snap
  BY <1>1 DEF NextPair
<1>7. CursorFor([c EXCEPT !.swapped = TRUE], n)
  BY <1>1 DEF CursorFor
<1>8. QED
  BY <1>5, <1>6, <1>7

\* The place of an inserted object is one of the chain, or its end.
LEMMA PositionTyped ==
  ASSUME TypeOK, Len(list) \in Nat, low.readonly <= Len(list) + 1, NEW o
  PROVE  Position(o) \in 1..(Len(list) + 1)
<1> DEFINE children == {i \in low.any .. Len(list) : <<list[i], o>> \in script.lookups}
<1>1. low.any \in Nat \ {0} /\ low.readonly \in Nat \ {0}
  BY DEF TypeOK
<1>2. children # {} => (CHOOSE i \in children : \A j \in children : i <= j) \in children
  <2> SUFFICES ASSUME children # {} PROVE \E i \in children : \A j \in children : i <= j
    BY Zenon
  <2>1. children \subseteq Nat
    BY <1>1
  <2> HIDE DEF children
  <2>2. QED
    BY <2>1, LeastNatural
<1>3. children \subseteq 1..Len(list)
  BY <1>1
<1>4. Position(o) \in {1, low.readonly, Len(list) + 1} \cup children
  BY <1>2 DEF Position
<1> HIDE DEF children
<1>5. CASE Position(o) \in children
  <2>1. Position(o) \in 1..Len(list)
    BY <1>3, <1>5
  <2>2. 1..Len(list) \subseteq 1..(Len(list) + 1)
    OBVIOUS
  <2>3. QED
    BY <2>1, <2>2, Zenon
<1>6. CASE Position(o) \in {1, low.readonly, Len(list) + 1}
  BY <1>1, <1>6
<1>7. QED
  BY <1>4, <1>5, <1>6

\* The objects of a list do not change.
LEMMA SameScript ==
  ASSUME script' = script
  PROVE  \A name : Elements(name)' = Elements(name)
BY DEF Elements, Belongs, CanUpdate, CanDelete

\* Initially all objects are still to be inserted.
LEMMA PlanStarts == Init => PlanInv
<1> SUFFICES ASSUME Init PROVE PlanInv
  OBVIOUS
<1>1. TypeOK
  BY DEF Init, TypeOK
<1>2. IsListOf(rest, ToSet(rest)) /\ ToSet(rest) = Elements("tasks")
  BY <1>1, ScriptOf DEF Init
<1>3. IsListOf(<<>>, {}) /\ ToSet(<<>>) = {} /\ Len(<<>>) = 0
  BY DEF IsListOf, ToSet, IsInjective
<1>4. stage \in {"keep", "chain"} /\ building = "tasks" /\ list = <<>> /\ low = [any |-> 1, readonly |-> 1]
      /\ rest = script.objects
  BY DEF Init
<1>5. Ready = {}
  BY <1>4 DEF Ready
<1>6. ChainHasAll
  <2>1. ToSet(list) = {} /\ IsListOf(list, ToSet(list))
    BY <1>3, <1>4, Zenon
  <2>2. low.readonly <= Len(list) + 1
    BY <1>4
  <2>3. QED
    BY <1>2, <1>4, <2>1, <2>2 DEF ChainHasAll
<1>7. QED
  BY <1>1, <1>4, <1>5, <1>6 DEF PlanInv, KeptAll, SortHasAll, ReadyHaveAll

\* keepObjectOrderWhileExecute: the lists are picked from all objects.
LEMMA PlanKept == PlanInv /\ KeepOrder => PlanInv'
<1> SUFFICES ASSUME PlanInv, KeepOrder PROVE PlanInv'
  OBVIOUS
<1> DEFINE S == ToSet(script.objects)
           kept == Picked(rest, RecordTypes) \o Picked(rest, Objects \ RecordTypes)
<1>1. /\ stage = "keep" /\ rest = script.objects
      /\ plan' = [name \in ListNames |-> Picked(kept, Members(name))]
      /\ stage' = "done" /\ UNCHANGED <<script, building, list, rest, low, cursor>>
  BY DEF PlanInv, KeptAll, KeepOrder
<1>2. TypeOK /\ IsListOf(rest, S) /\ S \subseteq Objects /\ \A name : Elements(name) = S \cap Members(name)
  BY <1>1, ScriptOf DEF PlanInv
<1> HIDE DEF kept
<1>3. IsListOf(kept, S)
  <2>1. IsListOf(Picked(rest, RecordTypes), S \cap RecordTypes)
    BY <1>2, PickedList
  <2>2. IsListOf(Picked(rest, Objects \ RecordTypes), S \cap (Objects \ RecordTypes))
    BY <1>2, PickedList
  <2>3. (S \cap RecordTypes) \cap (S \cap (Objects \ RecordTypes)) = {}
        /\ (S \cap RecordTypes) \cup (S \cap (Objects \ RecordTypes)) = S
    BY <1>2
  <2> HIDE DEF S
  <2>4. IsListOf(kept, (S \cap RecordTypes) \cup (S \cap (Objects \ RecordTypes)))
    BY <2>1, <2>2, <2>3, JoinedLists DEF kept
  <2>5. QED
    BY <2>3, <2>4
<1>4. ASSUME NEW name \in ListNames PROVE IsListOf(plan'[name], Elements(name)')
  <2>1. IsListOf(Picked(kept, Members(name)), S \cap Members(name))
    BY <1>3, PickedList
  <2>2. Elements(name)' = S \cap Members(name)
    BY <1>1, <1>2, SameScript
  <2>3. QED
    BY <1>1, <2>1, <2>2
<1>5. TypeOK'
  BY <1>1, <1>2 DEF TypeOK
<1>6. Ready' = ListNames
  BY <1>1 DEF Ready
<1>7. ReadyHaveAll'
  BY <1>4, <1>6 DEF ReadyHaveAll
<1>8. QED
  BY <1>1, <1>5, <1>7 DEF PlanInv, KeptAll, ChainHasAll, SortHasAll

\* Inserting takes an object from the rest to the chain.
LEMMA PlanPlaced == PlanInv /\ Place => PlanInv'
<1> SUFFICES ASSUME PlanInv, Place PROVE PlanInv'
  OBVIOUS
<1> DEFINE o == Head(rest)
<1>1. /\ TypeOK /\ ReadyHaveAll /\ stage = "chain" /\ rest # <<>>
      /\ IsListOf(list, ToSet(list)) /\ IsListOf(rest, ToSet(rest))
      /\ ToSet(list) \cap ToSet(rest) = {} /\ ToSet(list) \cup ToSet(rest) = Elements(building)
      /\ low.readonly <= Len(list) + 1
  BY DEF PlanInv, Place, ChainHasAll
<1>2. /\ list' = InsertAt(list, Position(o), o) /\ rest' = Tail(rest)
      /\ low' = [any |-> IF IsRecordType(o) \/ IsReadonly(o) THEN low.any + 1 ELSE low.any,
                 readonly |-> IF IsRecordType(o) THEN low.readonly + 1 ELSE low.readonly]
      /\ UNCHANGED <<script, stage, building, cursor, plan>>
  BY DEF Place
<1>3. Len(list) \in Nat
  BY <1>1, ListTyped
<1>4. Position(o) \in 1..(Len(list) + 1)
  BY <1>1, <1>3, PositionTyped
<1>5. o \in ToSet(rest) /\ IsListOf(rest', ToSet(rest) \ {o})
  BY <1>1, <1>2, TailOfList
<1> HIDE DEF o
<1>6. IsListOf(list', ToSet(list) \cup {o})
  <2>1. o \notin ToSet(list)
    BY <1>1, <1>5
  <2>2. QED
    BY <1>1, <1>2, <1>4, <2>1, InsertedList
<1>7. ToSet(list') = ToSet(list) \cup {o} /\ ToSet(rest') = ToSet(rest) \ {o}
  BY <1>5, <1>6 DEF IsListOf
<1>8. Len(list') = Len(list) + 1
  <2>1. list \in Seq(ToSet(list) \cup {o}) /\ o \in ToSet(list) \cup {o}
    BY <1>1, SeqMonotonic DEF IsListOf
  <2> DEFINE Q == ToSet(list) \cup {o}
  <2> HIDE DEF Q
  <2>2. InsertedAt(InsertAt(list, Position(o), o), list, Position(o), o)
    BY <1>4, <2>1, Inserted DEF Q
  <2>3. QED
    BY <1>2, <2>2 DEF InsertedAt
<1>9. low.any \in Nat \ {0} /\ low.readonly \in Nat \ {0}
  BY <1>1 DEF TypeOK
<1>10. low' \in [any : Nat \ {0}, readonly : Nat \ {0}] /\ low'.readonly <= Len(list') + 1
  BY <1>1, <1>2, <1>3, <1>8, <1>9
<1>11. Elements(building)' = Elements(building) /\ Ready' = Ready
  BY <1>2, SameScript DEF Ready
<1>12. TypeOK'
  BY <1>1, <1>2, <1>10 DEF TypeOK
<1>13. ChainHasAll'
  <2>1. IsListOf(list', ToSet(list')) /\ IsListOf(rest', ToSet(rest'))
    BY <1>5, <1>6, <1>7
  <2>2. ToSet(list') \cap ToSet(rest') = {} /\ ToSet(list') \cup ToSet(rest') = Elements(building)
    BY <1>1, <1>5, <1>7
  <2>3. QED
    BY <1>2, <1>10, <1>11, <2>1, <2>2 DEF ChainHasAll
<1>14. ReadyHaveAll'
  <2>1. \A name : Elements(name)' = Elements(name)
    BY <1>2, SameScript
  <2>2. QED
    BY <1>1, <1>2, <1>11, <2>1 DEF ReadyHaveAll
<1>15. QED
  BY <1>1, <1>2, <1>12, <1>13, <1>14 DEF PlanInv, KeptAll, SortHasAll

\* The chain is complete.
LEMMA PlanChained == PlanInv /\ ChainDone => PlanInv'
<1> SUFFICES ASSUME PlanInv, ChainDone PROVE PlanInv'
  OBVIOUS
<1>1. /\ TypeOK /\ ReadyHaveAll /\ stage = "chain" /\ rest = <<>>
      /\ IsListOf(list, ToSet(list)) /\ ToSet(list) \cup ToSet(rest) = Elements(building)
  BY DEF PlanInv, ChainDone, ChainHasAll
<1>2. /\ stage' = "masters" /\ list' = list /\ cursor' = FirstPass(list)
      /\ UNCHANGED <<script, building, rest, low, plan>>
  BY DEF ChainDone, StartSort
<1>3. ToSet(rest) = {}
  BY <1>1 DEF ToSet
<1>4. IsListOf(list, Elements(building)) /\ ToSet(list) = Elements(building)
  BY <1>1, <1>3
<1>5. Elements(building) \subseteq Objects
  BY <1>1, ScriptOf
<1>6. list \in Seq(Objects)
  BY <1>4, <1>5, ListTyped
<1>7. CursorFor(cursor', Len(list')) /\ cursor'.snap = list
  BY <1>2, <1>6, CursorStarts
<1>8. (\A name : Elements(name)' = Elements(name)) /\ Ready' = Ready
  BY <1>1, <1>2, SameScript DEF Ready
<1>9. TypeOK'
  BY <1>1, <1>2 DEF TypeOK
<1>10. SortHasAll'
  BY <1>2, <1>4, <1>7, <1>8 DEF SortHasAll
<1>11. ReadyHaveAll'
  BY <1>1, <1>2, <1>8 DEF ReadyHaveAll
<1>12. QED
  BY <1>2, <1>9, <1>10, <1>11 DEF PlanInv, KeptAll, ChainHasAll

\* Comparing two objects of a sort moves one of the list at most.
LEMMA PlanCompared == PlanInv /\ ComparePair => PlanInv'
<1> SUFFICES ASSUME PlanInv, ComparePair PROVE PlanInv'
  OBVIOUS
<1> DEFINE left == cursor.snap[cursor.left]
           right == cursor.snap[cursor.right]
           from == PositionIn(list, right)
           to == PositionIn(list, left)
           S == Elements(building)
<1>1. /\ TypeOK /\ ReadyHaveAll /\ stage \in {"masters", "query"} /\ PairLeft
      /\ IsListOf(list, S) /\ CursorFor(cursor, Len(list)) /\ ToSet(cursor.snap) = S
  BY DEF PlanInv, ComparePair, SortHasAll
<1>2. /\ \/ from > to /\ list' = Moved(list, from, to) /\ cursor' = NextPair([cursor EXCEPT !.swapped = TRUE])
         \/ list' = list /\ cursor' = NextPair(cursor)
      /\ UNCHANGED <<script, stage, building, rest, low, plan>>
  BY DEF ComparePair
<1>3. left \in S /\ right \in S
  <2>1. cursor.snap \in Seq(Objects) /\ Len(cursor.snap) = Len(list) /\ cursor.left \in Nat \ {0}
        /\ cursor.right \in Nat \ {0} /\ cursor.left < Len(list) /\ cursor.right <= Len(list) /\ Len(list) \in Nat
    BY <1>1, LenProperties DEF CursorFor, PairLeft
  <2>2. DOMAIN cursor.snap = 1..Len(list)
    BY <2>1, LenProperties
  <2>3. cursor.left \in DOMAIN cursor.snap /\ cursor.right \in DOMAIN cursor.snap
    BY <2>1, <2>2
  <2>4. QED
    BY <1>1, <2>3 DEF ToSet
<1> HIDE DEF left, right, S
<1>4. from \in 1..Len(list) /\ to \in 1..Len(list) /\ Len(list) \in Nat
  BY <1>1, <1>3, ListTyped
<1> HIDE DEF from, to
<1>5. IsListOf(list', S) /\ Len(list') = Len(list)
  <2>1. CASE from > to /\ list' = Moved(list, from, to)
    <3>1. to \in 1..(from - 1)
      BY <1>4, <2>1
    <3>2. QED
      BY <1>1, <1>4, <2>1, <3>1, MovedList
  <2>2. CASE list' = list
    BY <1>1, <2>2
  <2>3. QED
    BY <1>2, <2>1, <2>2
<1>6. CursorFor(cursor', Len(list)) /\ cursor'.snap = cursor.snap
  <2>1. CASE cursor' = NextPair(cursor)
    BY <1>1, <1>4, <2>1, CursorGoesOn
  <2>2. CASE cursor' = NextPair([cursor EXCEPT !.swapped = TRUE])
    <3> DEFINE c == [cursor EXCEPT !.swapped = TRUE]
    <3>1. CursorFor(c, Len(list)) /\ c.snap = cursor.snap
      BY <1>1, <1>4, CursorGoesOn
    <3>2. cursor' = NextPair(c)
      BY <2>2
    <3> HIDE DEF c
    <3>3. QED
      BY <1>4, <3>1, <3>2, CursorGoesOn
  <2>3. QED
    BY <1>2, <2>1, <2>2
<1>7. (\A name : Elements(name)' = Elements(name)) /\ Ready' = Ready
  BY <1>2, SameScript DEF Ready
<1>8. TypeOK'
  BY <1>1, <1>2 DEF TypeOK
<1>9. SortHasAll'
  BY <1>1, <1>2, <1>5, <1>6, <1>7 DEF SortHasAll, S
<1>10. ReadyHaveAll'
  BY <1>1, <1>2, <1>7 DEF ReadyHaveAll
<1>11. QED
  BY <1>1, <1>2, <1>8, <1>9, <1>10 DEF PlanInv, KeptAll, ChainHasAll

\* The next pass starts on a new copy.
LEMMA PlanPassed == PlanInv /\ NextPass => PlanInv'
<1> SUFFICES ASSUME PlanInv, NextPass PROVE PlanInv'
  OBVIOUS
<1>1. /\ TypeOK /\ ReadyHaveAll /\ stage \in {"masters", "query"}
      /\ IsListOf(list, Elements(building)) /\ CursorFor(cursor, Len(list))
  BY DEF PlanInv, NextPass, SortHasAll
<1>2. /\ cursor' = [FirstPass(list) EXCEPT !.pass = cursor.pass + 1]
      /\ UNCHANGED <<script, stage, building, list, rest, low, plan>>
  BY DEF NextPass
<1>3. list \in Seq(Objects) /\ ToSet(list) = Elements(building)
  <2>1. Elements(building) \subseteq Objects
    BY <1>1, ScriptOf
  <2>2. QED
    BY <1>1, <2>1, ListTyped DEF IsListOf
<1>4. CursorFor(cursor', Len(list)) /\ cursor'.snap = list
  <2>1. CursorFor(FirstPass(list), Len(list)) /\ FirstPass(list).snap = list
    BY <1>3, CursorStarts
  <2>2. cursor.pass + 1 \in Nat
    BY <1>1 DEF CursorFor
  <2>3. QED
    BY <1>2, <2>1, <2>2 DEF CursorFor
<1>5. (\A name : Elements(name)' = Elements(name)) /\ Ready' = Ready
  BY <1>2, SameScript DEF Ready
<1>6. TypeOK'
  BY <1>1, <1>2 DEF TypeOK
<1>7. SortHasAll'
  BY <1>1, <1>2, <1>3, <1>4, <1>5 DEF SortHasAll
<1>8. ReadyHaveAll'
  BY <1>1, <1>2, <1>5 DEF ReadyHaveAll
<1>9. QED
  BY <1>1, <1>2, <1>6, <1>7, <1>8 DEF PlanInv, KeptAll, ChainHasAll

\* The special orders move objects of the list only.
LEMMA PlanSpecial == PlanInv /\ CompareSpecial => PlanInv'
<1> SUFFICES ASSUME PlanInv, CompareSpecial PROVE PlanInv'
  OBVIOUS
<1> DEFINE next == NextPair(cursor)
           S == Elements(building)
<1>1. /\ TypeOK /\ ReadyHaveAll /\ stage = "special" /\ PairLeft
      /\ IsListOf(list, S) /\ CursorFor(cursor, Len(list))
  BY DEF PlanInv, CompareSpecial, SortHasAll
<1>2. /\ list' = Moved(list, cursor.right, cursor.left) \/ list' = list
      /\ cursor' = next \/ cursor' = [next EXCEPT !.snap = list']
      /\ UNCHANGED <<script, stage, building, rest, low, plan>>
  BY DEF CompareSpecial
<1>3. Len(list) \in Nat /\ cursor.left \in Nat \ {0} /\ cursor.right \in Nat \ {0}
      /\ cursor.left < cursor.right /\ cursor.right <= Len(list)
  BY <1>1, ListTyped DEF CursorFor, PairLeft
<1>4. IsListOf(list', S) /\ Len(list') = Len(list)
  <2>1. CASE list' = Moved(list, cursor.right, cursor.left)
    <3>1. cursor.right \in 1..Len(list) /\ cursor.left \in 1..(cursor.right - 1)
      BY <1>3
    <3> HIDE DEF S
    <3>2. QED
      BY <1>1, <2>1, <3>1, MovedList
  <2>2. CASE list' = list
    BY <1>1, <2>2
  <2>3. QED
    BY <1>2, <2>1, <2>2
<1>5. list' \in Seq(Objects)
  <2>1. S \subseteq Objects
    BY <1>1, ScriptOf
  <2> HIDE DEF S
  <2>2. QED
    BY <1>4, <2>1, ListTyped
<1>6. CursorFor(cursor', Len(list))
  <2>1. CursorFor(next, Len(list))
    BY <1>1, <1>3, CursorGoesOn
  <2> HIDE DEF next
  <2>2. CASE cursor' = next
    BY <2>1, <2>2
  <2>3. CASE cursor' = [next EXCEPT !.snap = list']
    BY <1>4, <1>5, <2>1, <2>3 DEF CursorFor
  <2>4. QED
    BY <1>2, <2>2, <2>3
<1>7. (\A name : Elements(name)' = Elements(name)) /\ Ready' = Ready
  BY <1>2, SameScript DEF Ready
<1>8. TypeOK'
  BY <1>1, <1>2 DEF TypeOK
<1>9. SortHasAll'
  BY <1>1, <1>2, <1>4, <1>6, <1>7 DEF SortHasAll
<1>10. ReadyHaveAll'
  BY <1>1, <1>2, <1>7 DEF ReadyHaveAll
<1>11. QED
  BY <1>1, <1>2, <1>8, <1>9, <1>10 DEF PlanInv, KeptAll, ChainHasAll

\* A chain starts with nothing inserted.
LEMMA PlanStartsChain ==
  ASSUME NEW name \in {"updateTasks", "deleteTasks"}, TypeOK, StartChain(name), script' = script
  PROVE  /\ stage' = "chain" /\ building' = name /\ KeptAll' /\ ChainHasAll' /\ SortHasAll'
         /\ low' \in [any : Nat \ {0}, readonly : Nat \ {0}]
<1>1. /\ building' = name /\ stage' = "chain" /\ list' = <<>>
      /\ rest' = Picked(script.objects, Members(name)) /\ low' = [any |-> 1, readonly |-> 1]
  BY DEF StartChain
<1>2. IsListOf(rest', Elements(name))
  BY <1>1, ScriptOf, PickedList
<1>3. ToSet(rest') = Elements(name) /\ Elements(name)' = Elements(name)
  BY <1>2, SameScript DEF IsListOf
<1>4. IsListOf(list', {}) /\ ToSet(list') = {} /\ Len(list') = 0
  BY <1>1 DEF IsListOf, ToSet, IsInjective
<1>5. low'.readonly <= Len(list') + 1
  BY <1>1, <1>4
<1>6. Elements(building)' = ToSet(rest')
  BY <1>1, <1>3
<1>7. ChainHasAll'
  BY <1>2, <1>3, <1>4, <1>5, <1>6 DEF ChainHasAll
<1>8. QED
  BY <1>1, <1>7 DEF KeptAll, SortHasAll

\* Masters stand before their details: the list is ready, or goes to the next sort.
LEMMA PlanMastered == PlanInv /\ MastersDone => PlanInv'
<1> SUFFICES ASSUME PlanInv, MastersDone PROVE PlanInv'
  OBVIOUS
<1> DEFINE S == Elements(building)
           parts == Picked(list, InFull) \o Picked(list, Objects \ InFull)
<1>1. /\ TypeOK /\ ReadyHaveAll /\ stage = "masters" /\ IsListOf(list, S) /\ S \subseteq Objects
  BY ScriptOf DEF PlanInv, MastersDone, SortHasAll
<1>2. UNCHANGED <<script, building, rest, low>>
  BY DEF MastersDone
<1>3. \A name : Elements(name)' = Elements(name)
  BY <1>2, SameScript
<1>4. CASE building = "tasks"
  <2>1. plan' = [plan EXCEPT !.tasks = list] /\ stage' = "query" /\ list' = parts /\ cursor' = FirstPass(parts)
    BY <1>4 DEF MastersDone, StartSort
  <2>2. IsListOf(parts, S)
    <3>1. IsListOf(Picked(list, InFull), S \cap InFull)
      BY <1>1, PickedList
    <3>2. IsListOf(Picked(list, Objects \ InFull), S \cap (Objects \ InFull))
      BY <1>1, PickedList
    <3>3. (S \cap InFull) \cap (S \cap (Objects \ InFull)) = {}
          /\ (S \cap InFull) \cup (S \cap (Objects \ InFull)) = S
      BY <1>1
    <3> HIDE DEF S
    <3>4. IsListOf(parts, (S \cap InFull) \cup (S \cap (Objects \ InFull)))
      BY <3>1, <3>2, <3>3, JoinedLists
    <3>5. QED
      BY <3>3, <3>4
  <2> HIDE DEF parts
  <2>3. parts \in Seq(Objects) /\ ToSet(parts) = S
    <3>1. ToSet(parts) = S
      BY <2>2 DEF IsListOf
    <3> HIDE DEF S
    <3>2. QED
      BY <1>1, <2>2, <3>1, ListTyped
  <2>4. CursorFor(cursor', Len(list')) /\ cursor'.snap = parts
    BY <2>1, <2>3, CursorStarts
  <2>5. Ready' = {"tasks"}
    BY <1>2, <1>4, <2>1 DEF Ready
  <2>6. DOMAIN plan' = ListNames /\ plan'["tasks"] = list
    BY <1>1, <2>1 DEF TypeOK, ListNames
  <2>7. TypeOK'
    BY <1>1, <1>2, <1>4, <2>1, <2>6 DEF TypeOK
  <2>8. SortHasAll'
    BY <1>2, <1>3, <2>1, <2>2, <2>3, <2>4 DEF SortHasAll
  <2>9. ReadyHaveAll'
    BY <1>1, <1>3, <1>4, <2>5, <2>6 DEF ReadyHaveAll
  <2>10. QED
    BY <2>1, <2>7, <2>8, <2>9 DEF PlanInv, KeptAll, ChainHasAll
<1>5. CASE building # "tasks"
  <2>1. plan' = plan /\ stage' = "special" /\ (list' = list \/ list' = Reverse(list)) /\ cursor' = FirstPass(list')
    BY <1>5 DEF MastersDone, StartSort
  <2>2. IsListOf(list', S)
    BY <1>1, <2>1, ReversedList
  <2>3. list' \in Seq(Objects)
    <3> HIDE DEF S
    <3>1. QED
      BY <1>1, <2>2, ListTyped
  <2>4. CursorFor(cursor', Len(list'))
    BY <2>1, <2>3, CursorStarts
  <2>5. Ready' = Ready
    BY <1>1, <1>2, <1>5, <2>1 DEF Ready
  <2>6. TypeOK'
    BY <1>1, <1>2, <1>5, <2>1 DEF TypeOK
  <2>7. SortHasAll'
    BY <1>2, <1>3, <2>1, <2>2, <2>4 DEF SortHasAll
  <2>8. ReadyHaveAll'
    BY <1>1, <1>3, <2>1, <2>5 DEF ReadyHaveAll
  <2>9. QED
    BY <2>1, <2>6, <2>7, <2>8 DEF PlanInv, KeptAll, ChainHasAll
<1>6. QED
  BY <1>4, <1>5

\* The query list is ready.
LEMMA PlanQueried == PlanInv /\ QueryDone => PlanInv'
<1> SUFFICES ASSUME PlanInv, QueryDone PROVE PlanInv'
  OBVIOUS
<1>1. /\ TypeOK /\ ReadyHaveAll /\ stage = "query" /\ building = "tasks" /\ IsListOf(list, Elements("tasks"))
      /\ Elements("queryTasks") = Elements("tasks")
  BY ScriptOf DEF PlanInv, QueryDone, SortHasAll, TypeOK
<1>2. plan' = [plan EXCEPT !.queryTasks = list] /\ StartChain("updateTasks") /\ UNCHANGED <<script, cursor>>
  BY DEF QueryDone
<1>3. /\ stage' = "chain" /\ building' = "updateTasks" /\ KeptAll' /\ ChainHasAll' /\ SortHasAll'
      /\ low' \in [any : Nat \ {0}, readonly : Nat \ {0}]
  BY <1>1, <1>2, PlanStartsChain
<1>4. DOMAIN plan' = ListNames /\ plan'["queryTasks"] = list /\ plan'["tasks"] = plan["tasks"]
  BY <1>1, <1>2 DEF TypeOK, ListNames
<1>5. Ready = {"tasks"} /\ Ready' = {"tasks", "queryTasks"}
  BY <1>1, <1>3 DEF Ready
<1>6. \A name : Elements(name)' = Elements(name)
  BY <1>2, SameScript
<1>7. IsListOf(plan["tasks"], Elements("tasks"))
  BY <1>1, <1>5 DEF ReadyHaveAll
<1>8. ReadyHaveAll'
  BY <1>1, <1>4, <1>5, <1>6, <1>7 DEF ReadyHaveAll
<1>9. TypeOK'
  BY <1>1, <1>2, <1>3, <1>4 DEF TypeOK
<1>10. QED
  BY <1>3, <1>8, <1>9 DEF PlanInv

\* A list with its special order is ready.
LEMMA PlanOrdered == PlanInv /\ SpecialDone => PlanInv'
<1> SUFFICES ASSUME PlanInv, SpecialDone PROVE PlanInv'
  OBVIOUS
<1>1. /\ TypeOK /\ ReadyHaveAll /\ stage = "special" /\ building \in {"updateTasks", "deleteTasks"}
      /\ IsListOf(list, Elements(building))
  BY DEF PlanInv, SpecialDone, SortHasAll, TypeOK
<1>2. plan' = [plan EXCEPT ![building] = list] /\ UNCHANGED <<script, cursor>>
  BY DEF SpecialDone
<1>3. DOMAIN plan' = ListNames /\ plan'[building] = list /\ \A name \in ListNames : name # building => plan'[name] = plan[name]
  BY <1>1, <1>2 DEF TypeOK, ListNames
<1>4. \A name : Elements(name)' = Elements(name)
  BY <1>2, SameScript
<1>5. \A name \in ListNames : name \in Ready \cup {building} => IsListOf(plan'[name], Elements(name)')
  BY <1>1, <1>3, <1>4 DEF ReadyHaveAll
<1>6. CASE building = "updateTasks"
  <2>1. StartChain("deleteTasks")
    BY <1>6 DEF SpecialDone
  <2>2. /\ stage' = "chain" /\ building' = "deleteTasks" /\ KeptAll' /\ ChainHasAll' /\ SortHasAll'
        /\ low' \in [any : Nat \ {0}, readonly : Nat \ {0}]
    BY <1>1, <1>2, <2>1, PlanStartsChain
  <2>3. Ready' = Ready \cup {building} /\ Ready' \subseteq ListNames
    BY <1>1, <1>6, <2>2 DEF Ready, ListNames
  <2>4. ReadyHaveAll'
    BY <1>5, <2>3 DEF ReadyHaveAll
  <2>5. TypeOK'
    BY <1>1, <1>2, <1>3, <2>2 DEF TypeOK
  <2>6. QED
    BY <2>2, <2>4, <2>5 DEF PlanInv
<1>7. CASE building = "deleteTasks"
  <2>1. stage' = "done" /\ UNCHANGED <<building, list, rest, low>>
    BY <1>7 DEF SpecialDone
  <2>2. Ready' = ListNames /\ Ready \cup {building} = ListNames
    BY <1>1, <1>7, <2>1 DEF Ready, ListNames
  <2>3. ReadyHaveAll'
    BY <1>5, <2>2 DEF ReadyHaveAll
  <2>4. TypeOK'
    BY <1>1, <1>2, <1>3, <2>1 DEF TypeOK
  <2>5. QED
    BY <2>1, <2>3, <2>4 DEF PlanInv, KeptAll, ChainHasAll, SortHasAll
<1>8. QED
  BY <1>1, <1>6, <1>7

\* Every step keeps what is planned complete.
LEMMA PlanStays == PlanInv /\ [Next]_vars => PlanInv'
<1> SUFFICES ASSUME PlanInv, [Next]_vars PROVE PlanInv'
  OBVIOUS
<1>1. CASE UNCHANGED vars
  <2>1. Ready' = Ready /\ \A name : Elements(name)' = Elements(name)
    BY <1>1, SameScript DEF vars, Ready
  <2>2. QED
    BY <1>1, <2>1 DEF vars, PlanInv, TypeOK, KeptAll, ChainHasAll, SortHasAll, ReadyHaveAll
<1>2. CASE Planned
  BY <1>1, <1>2 DEF Planned
<1>3. QED
  BY <1>1, <1>2, PlanKept, PlanPlaced, PlanChained, PlanCompared, PlanPassed, PlanMastered, PlanQueried,
     PlanSpecial, PlanOrdered DEF Next

\* At the end every list has its objects, each once.
LEMMA PlanComplete == PlanInv => NothingLost
<1> SUFFICES ASSUME PlanInv, stage = "done", NEW name \in ListNames
             PROVE  IsInjective(plan[name]) /\ ToSet(plan[name]) = {o \in ToSet(script.objects) : Belongs(o, name)}
  BY DEF NothingLost
<1>1. name \in Ready /\ ReadyHaveAll
  BY DEF Ready, PlanInv
<1>2. QED
  BY <1>1 DEF ReadyHaveAll, IsListOf, Elements

-----------------------------------------------------------------------------
(***************************************************************************)
(* Queries: objects read in full come first.                               *)
(***************************************************************************)

\* The objects read in full precede the others that no special pair moves.
InFullFirst(s) ==
  \A a, b \in ToSet(script.objects) :
    ProcessedInFull(a) /\ ~ProcessedInFull(b) /\ (\A e \in QueryFirst : e[1] # b) => Precedes(s, a, b)

KeepsOrder == stage = "keep" => script.keepOrder
QueryListOrdered == stage = "query" => InFullFirst(list)
QueryPlanOrdered == "queryTasks" \in Ready /\ ~script.keepOrder => InFullFirst(plan["queryTasks"])
QueryInv == KeepsOrder /\ QueryListOrdered /\ QueryPlanOrdered

\* Of two lists, one after the other, the elements of the first precede those of the second.
LEMMA JoinedOrder ==
  ASSUME NEW S, NEW T, NEW s, NEW t, IsListOf(s, S), IsListOf(t, T), NEW a \in S, NEW b \in T
  PROVE  Precedes(s \o t, a, b)
<1> DEFINE u == s \o t
<1>1. s \in Seq(S \cup T) /\ t \in Seq(S \cup T)
  BY SeqMonotonic DEF IsListOf
<1>2. Len(s) \in Nat /\ Len(t) \in Nat /\ DOMAIN s = 1..Len(s) /\ DOMAIN t = 1..Len(t)
  BY <1>1, LenProperties
<1>3. u \in Seq(S \cup T) /\ Len(u) = Len(s) + Len(t)
      /\ \A i \in 1 .. (Len(s) + Len(t)) : u[i] = IF i <= Len(s) THEN s[i] ELSE t[i - Len(s)]
  BY <1>1, ConcatProperties
<1> HIDE DEF u
<1>4. DOMAIN u = 1..(Len(s) + Len(t))
  BY <1>3, LenProperties
<1>5. PICK i \in 1..Len(s) : s[i] = a
  BY <1>2 DEF IsListOf, ToSet
<1>6. PICK j \in 1..Len(t) : t[j] = b
  BY <1>2 DEF IsListOf, ToSet
<1>7. i \in DOMAIN u /\ u[i] = a
  BY <1>2, <1>3, <1>4, <1>5
<1>8. j + Len(s) \in 1..(Len(s) + Len(t)) /\ ~(j + Len(s) <= Len(s)) /\ (j + Len(s)) - Len(s) = j
  BY <1>2
<1>9. j + Len(s) \in DOMAIN u /\ u[j + Len(s)] = b
  BY <1>3, <1>4, <1>6, <1>8
<1>10. i < j + Len(s)
  BY <1>2
<1>11. QED
  BY <1>7, <1>9, <1>10 DEF Precedes, u

\* The script decides what is read in full.
LEMMA SameInFull ==
  ASSUME script' = script
  PROVE  \A s : InFullFirst(s)' <=> InFullFirst(s)
BY DEF InFullFirst, ProcessedInFull, Precedes

\* The query list starts with the objects read in full.
LEMMA QueryStarts == PlanInv /\ MastersDone => QueryListOrdered'
<1> SUFFICES ASSUME PlanInv, MastersDone, stage' = "query" PROVE InFullFirst(list)'
  BY DEF QueryListOrdered
<1> DEFINE S == ToSet(script.objects)
           parts == Picked(list, InFull) \o Picked(list, Objects \ InFull)
<1>1. TypeOK /\ building = "tasks" /\ list' = parts /\ script' = script
  BY DEF PlanInv, MastersDone, StartSort
<1>2. IsListOf(list, S) /\ S \subseteq Objects
  BY <1>1, ScriptOf DEF PlanInv, MastersDone, SortHasAll
<1>3. IsListOf(Picked(list, InFull), S \cap InFull)
  BY <1>2, PickedList
<1>4. IsListOf(Picked(list, Objects \ InFull), S \cap (Objects \ InFull))
  BY <1>2, PickedList
<1>5. ASSUME NEW a \in S, NEW b \in S, ProcessedInFull(a), ~ProcessedInFull(b) PROVE Precedes(parts, a, b)
  <2>1. a \in S \cap InFull /\ b \in S \cap (Objects \ InFull)
    BY <1>2, <1>5 DEF InFull
  <2> HIDE DEF S
  <2>2. QED
    BY <1>3, <1>4, <2>1, JoinedOrder
<1>6. InFullFirst(parts)
  BY <1>5 DEF InFullFirst
<1>7. InFullFirst(list')
  BY <1>1, <1>6, Zenon
<1>8. InFullFirst(list)' <=> InFullFirst(list')
  BY <1>1, SameInFull DEF InFullFirst, ProcessedInFull
<1>9. QED
  BY <1>7, <1>8

\* A special pair moves no object before those read in full but its first one.
LEMMA QueryCompared == PlanInv /\ ComparePair /\ QueryListOrdered => QueryListOrdered'
<1> SUFFICES ASSUME PlanInv, ComparePair, stage' = "query", InFullFirst(list) PROVE InFullFirst(list)'
  BY DEF QueryListOrdered, ComparePair
<1> DEFINE left == cursor.snap[cursor.left]
           right == cursor.snap[cursor.right]
           from == PositionIn(list, right)
           to == PositionIn(list, left)
           S == Elements(building)
<1>1. /\ TypeOK /\ stage = "query" /\ PairLeft /\ script' = script
      /\ IsListOf(list, S) /\ CursorFor(cursor, Len(list)) /\ ToSet(cursor.snap) = S
  BY DEF PlanInv, ComparePair, SortHasAll
<1>2. \/ Wanted(right, left) /\ from > to /\ list' = Moved(list, from, to)
      \/ list' = list
  BY DEF ComparePair
<1>3. left \in S /\ right \in S
  <2>1. cursor.snap \in Seq(Objects) /\ Len(cursor.snap) = Len(list) /\ cursor.left \in Nat \ {0}
        /\ cursor.right \in Nat \ {0} /\ cursor.left < Len(list) /\ cursor.right <= Len(list) /\ Len(list) \in Nat
    BY <1>1, LenProperties DEF CursorFor, PairLeft
  <2>2. DOMAIN cursor.snap = 1..Len(list)
    BY <2>1, LenProperties
  <2>3. cursor.left \in DOMAIN cursor.snap /\ cursor.right \in DOMAIN cursor.snap
    BY <2>1, <2>2
  <2>4. QED
    BY <1>1, <2>3 DEF ToSet
<1>4. Wanted(right, left) => <<right, left>> \in QueryFirst
  BY <1>1 DEF Wanted, QueriedBefore
<1> HIDE DEF left, right, S
<1>5. from \in 1..Len(list) /\ to \in 1..Len(list) /\ Len(list) \in Nat /\ list[from] = right
  BY <1>1, <1>3, ListTyped
<1> HIDE DEF from, to
<1>6. InFullFirst(list')
  <2>1. CASE list' = list
    BY <2>1, Zenon
  <2>2. CASE Wanted(right, left) /\ from > to /\ list' = Moved(list, from, to)
    <3>1. to \in 1..(from - 1)
      BY <1>5, <2>2
    <3>2. \A a, b : Precedes(list, a, b) /\ b # list[from] => Precedes(Moved(list, from, to), a, b)
      BY <1>1, <1>5, <3>1, MovedList
    <3>3. \E e \in QueryFirst : e[1] = right
      BY <1>4, <2>2
    <3>4. InFullFirst(Moved(list, from, to))
      BY <1>5, <3>2, <3>3 DEF InFullFirst
    <3>5. QED
      BY <2>2, <3>4, Zenon
  <2>3. QED
    BY <1>2, <2>1, <2>2
<1>7. InFullFirst(list)' <=> InFullFirst(list')
  BY <1>1 DEF InFullFirst, ProcessedInFull
<1>8. QED
  BY <1>6, <1>7

\* Every step keeps the order of the queries.
LEMMA QueryStays == PlanInv /\ QueryInv /\ [Next]_vars => QueryInv'
<1> SUFFICES ASSUME PlanInv, QueryInv, [Next]_vars PROVE QueryInv'
  OBVIOUS
<1>1. TypeOK /\ DOMAIN plan = ListNames
  BY DEF PlanInv, TypeOK
<1>2. script' = script
  BY DEF Next, KeepOrder, Place, ChainDone, ComparePair, NextPass, MastersDone, QueryDone, CompareSpecial,
     SpecialDone, Planned, vars
<1>3. KeepsOrder'
  BY <1>2 DEF QueryInv, KeepsOrder, Next, KeepOrder, Place, ChainDone, ComparePair, NextPass, MastersDone, QueryDone,
     CompareSpecial, SpecialDone, Planned, vars, StartSort, StartChain
<1>4. QueryListOrdered'
  <2>1. CASE ComparePair
    BY <2>1, QueryCompared DEF QueryInv
  <2>2. CASE MastersDone
    BY <2>2, QueryStarts
  <2>3. CASE NextPass \/ Planned \/ UNCHANGED vars
    <3>1. list' = list /\ stage' = stage
      BY <2>3 DEF NextPass, Planned, vars
    <3>2. InFullFirst(list)' <=> InFullFirst(list)
      BY <1>2, <3>1 DEF InFullFirst, ProcessedInFull
    <3>3. QED
      BY <3>1, <3>2 DEF QueryInv, QueryListOrdered
  <2>4. CASE KeepOrder \/ Place \/ ChainDone \/ QueryDone \/ CompareSpecial \/ SpecialDone
    <3>1. stage' # "query"
      BY <2>4 DEF KeepOrder, Place, ChainDone, QueryDone, CompareSpecial, SpecialDone, StartSort, StartChain
    <3>2. QED
      BY <3>1 DEF QueryListOrdered
  <2>5. QED
    BY <2>1, <2>2, <2>3, <2>4 DEF Next
<1>5. QueryPlanOrdered'
  <2> SUFFICES ASSUME "queryTasks" \in Ready', ~script.keepOrder PROVE InFullFirst(plan["queryTasks"])'
    BY <1>2 DEF QueryPlanOrdered
  <2>1. InFullFirst(plan["queryTasks"])' <=> InFullFirst(plan'["queryTasks"])
    BY <1>2 DEF InFullFirst, ProcessedInFull
  <2>2. CASE QueryDone
    <3>1. stage = "query" /\ plan' = [plan EXCEPT !.queryTasks = list]
      BY <2>2 DEF QueryDone
    <3>2. plan'["queryTasks"] = list
      BY <1>1, <3>1 DEF ListNames
    <3>3. QED
      BY <2>1, <3>1, <3>2 DEF QueryInv, QueryListOrdered
  <2>3. CASE ~QueryDone
    <3>1. ~KeepOrder
      BY DEF KeepOrder, QueryInv, KeepsOrder
    <3>2. plan'["queryTasks"] = plan["queryTasks"]
      <4>1. CASE SpecialDone
        <5>1. plan' = [plan EXCEPT ![building] = list] /\ building # "queryTasks"
          BY <1>1, <4>1 DEF SpecialDone, TypeOK
        <5>2. QED
          BY <1>1, <5>1 DEF ListNames
      <4>2. CASE MastersDone
        BY <1>1, <4>2 DEF MastersDone, ListNames
      <4>3. CASE Place \/ ChainDone \/ ComparePair \/ NextPass \/ CompareSpecial \/ Planned \/ UNCHANGED vars
        BY <4>3 DEF Place, ChainDone, ComparePair, NextPass, CompareSpecial, Planned, vars
      <4>4. QED
        BY <2>3, <3>1, <4>1, <4>2, <4>3 DEF Next
    <3>3. "queryTasks" \in Ready
      <4>1. CASE SpecialDone
        <5>1. stage = "special" /\ building \in {"updateTasks", "deleteTasks"}
          BY <1>1, <4>1 DEF SpecialDone, TypeOK
        <5>2. QED
          BY <5>1 DEF Ready
      <4>2. CASE MastersDone
        <5>1. stage = "masters" /\ building' = building
              /\ (building = "tasks" => stage' = "query") /\ (building # "tasks" => stage' = "special")
          BY <4>2 DEF MastersDone, StartSort
        <5>2. building \in {"updateTasks", "deleteTasks"}
          BY <1>1, <5>1 DEF TypeOK, Ready
        <5>3. QED
          BY <5>1, <5>2 DEF Ready
      <4>3. CASE Place \/ ChainDone \/ ComparePair \/ NextPass \/ CompareSpecial \/ Planned \/ UNCHANGED vars
        BY <1>1, <4>3 DEF Place, ChainDone, ComparePair, NextPass, CompareSpecial, Planned, vars, Ready, StartSort, TypeOK
      <4>4. QED
        BY <2>3, <3>1, <4>1, <4>2, <4>3 DEF Next
    <3>4. QED
      BY <2>1, <3>2, <3>3 DEF QueryInv, QueryPlanOrdered
  <2>4. QED
    BY <2>2, <2>3
<1>6. QED
  BY <1>3, <1>4, <1>5 DEF QueryInv

\* Nothing is ready at first.
LEMMA QueryInit == Init => QueryInv
<1> SUFFICES ASSUME Init PROVE QueryInv
  OBVIOUS
<1>1. stage = (IF script.keepOrder THEN "keep" ELSE "chain") /\ building = "tasks"
  BY DEF Init
<1>2. Ready = {}
  BY <1>1 DEF Ready
<1>3. QED
  BY <1>1, <1>2 DEF QueryInv, KeepsOrder, QueryListOrdered, QueryPlanOrdered

\* In the end the queries are in order.
LEMMA QueryEnds == QueryInv => QueriedInFullFirst
<1> SUFFICES ASSUME QueryInv, Sorted PROVE InFullFirst(plan["queryTasks"])
  BY DEF QueriedInFullFirst, InFullFirst
<1>1. "queryTasks" \in Ready /\ ~script.keepOrder
  BY DEF Sorted, Ready, ListNames
<1>2. QED
  BY <1>1 DEF QueryInv, QueryPlanOrdered

-----------------------------------------------------------------------------
(***************************************************************************)
(* Lookups: what inserting the objects one after the other guarantees.     *)
(***************************************************************************)

\* A lookup the chain keeps: its child is written, and its parent is not, or is listed
\* later, or no own child of the child is listed before it.
KeptLookup(child, parent) ==
  /\ <<child, parent>> \in script.lookups
  /\ child # parent /\ Plain(child)
  /\ \/ ~Plain(parent)
     \/ Precedes(script.objects, child, parent)
     \/ ~\E x \in ToSet(script.objects) :
           Plain(x) /\ <<x, child>> \in script.lookups /\ Precedes(script.objects, x, child)
ParentsFirst(s) ==
  \A child, parent \in ToSet(s) : KeptLookup(child, parent) => Precedes(s, parent, child)

\* The chain has the first objects of the script, the ones that are not written at its
\* beginning.
ChainOfFirst ==
  stage = "chain" /\ building = "tasks" =>
    /\ low.readonly <= low.any /\ low.any <= Len(list) + 1
    /\ \A i \in 1..Len(list) : i < low.any <=> ~Plain(list[i])
    /\ Len(script.objects) = Len(list) + Len(rest)
    /\ \A j \in 1..Len(rest) : rest[j] = script.objects[Len(list) + j]
    /\ \A x \in ToSet(list) : \E i \in 1..Len(list) : script.objects[i] = x
ChainOrdered == building = "tasks" /\ stage \in {"chain", "masters"} => ParentsFirst(list)
TasksPlanOrdered == "tasks" \in Ready => ParentsFirst(plan["tasks"])
LookupInv ==
  /\ KeepsOrder
  /\ ~script.keepOrder => ChainOfFirst
  /\ ~script.keepOrder /\ script.masters = {} => ChainOrdered /\ TasksPlanOrdered

\* Where the next object of the script is inserted, with respect to those that are not
\* written.
LEMMA PositionIs ==
  ASSUME PlanInv, ChainOfFirst, stage = "chain", building = "tasks", NEW o
  PROVE  /\ Position(o) \in 1..(Len(list) + 1)
         /\ IsRecordType(o) => Position(o) = 1 /\ ~IsReadonly(o)
         /\ IsReadonly(o) => Position(o) = low.readonly /\ ~IsRecordType(o)
         /\ Plain(o) => /\ Position(o) >= low.any
                        /\ \A i \in low.any..Len(list) : <<list[i], o>> \in script.lookups => Position(o) <= i
                        /\ Position(o) # Len(list) + 1 =>
                             /\ Position(o) \in low.any..Len(list)
                             /\ <<list[Position(o)], o>> \in script.lookups
<1> DEFINE children == {i \in low.any .. Len(list) : <<list[i], o>> \in script.lookups}
<1>1. TypeOK /\ Len(list) \in Nat /\ low.readonly <= Len(list) + 1 /\ low.any <= Len(list) + 1
      /\ low.any \in Nat \ {0}
  BY ListTyped DEF PlanInv, ChainHasAll, ChainOfFirst, TypeOK
<1>2. Position(o) \in 1..(Len(list) + 1)
  BY <1>1, PositionTyped
<1>3. ~(IsRecordType(o) /\ IsReadonly(o))
  BY DEF IsRecordType, IsReadonly
<1>4. IsRecordType(o) => Position(o) = 1
  BY DEF Position
<1>5. IsReadonly(o) => Position(o) = low.readonly
  BY <1>3 DEF Position
<1>6. ASSUME Plain(o)
      PROVE  /\ Position(o) >= low.any
             /\ \A i \in children : Position(o) <= i
             /\ Position(o) # Len(list) + 1 => Position(o) \in children
  <2>1. Position(o) = IF children = {} THEN Len(list) + 1
                      ELSE CHOOSE i \in children : \A j \in children : i <= j
    BY <1>6 DEF Plain, Position
  <2>2. children \subseteq Nat /\ \A i \in children : i >= low.any
    BY <1>1
  <2> HIDE DEF children
  <2>3. CASE children = {}
    BY <1>1, <2>1, <2>3
  <2>4. CASE children # {}
    <3>1. \E i \in children : \A j \in children : i <= j
      BY <2>2, <2>4, LeastNatural
    <3>2. Position(o) \in children /\ \A j \in children : Position(o) <= j
      BY <2>1, <2>4, <3>1, Zenon
    <3>3. QED
      BY <2>2, <3>2
  <2>5. QED
    BY <2>3, <2>4
<1>7. ASSUME Plain(o)
      PROVE  /\ Position(o) >= low.any
             /\ \A i \in low.any..Len(list) : <<list[i], o>> \in script.lookups => Position(o) <= i
             /\ Position(o) # Len(list) + 1 =>
                  /\ Position(o) \in low.any..Len(list)
                  /\ <<list[Position(o)], o>> \in script.lookups
  BY <1>6, <1>7
<1>8. QED
  BY <1>2, <1>3, <1>4, <1>5, <1>7

\* The chain with the next object of the script inserted.
LEMMA LookupPlaced ==
  ASSUME PlanInv, Place, ChainOfFirst, building = "tasks"
  PROVE  ChainOfFirst' /\ (ParentsFirst(list) => ParentsFirst(list)')
<1> DEFINE o == Head(rest)
           p == Position(o)
           n == Len(list)
           objects == script.objects
<1>1. /\ TypeOK /\ stage = "chain" /\ rest # <<>>
      /\ IsListOf(list, ToSet(list)) /\ IsListOf(rest, ToSet(rest)) /\ ToSet(list) \cap ToSet(rest) = {}
  BY DEF PlanInv, Place, ChainHasAll
<1>2. /\ list' = InsertAt(list, p, o) /\ rest' = Tail(rest)
      /\ low' = [any |-> IF IsRecordType(o) \/ IsReadonly(o) THEN low.any + 1 ELSE low.any,
                 readonly |-> IF IsRecordType(o) THEN low.readonly + 1 ELSE low.readonly]
      /\ UNCHANGED <<script, stage, building, cursor, plan>>
  BY DEF Place
<1>3. /\ low.readonly <= low.any /\ low.any <= n + 1
      /\ \A i \in 1..n : i < low.any <=> ~Plain(list[i])
      /\ Len(objects) = n + Len(rest)
      /\ \A j \in 1..Len(rest) : rest[j] = objects[n + j]
      /\ \A x \in ToSet(list) : \E i \in 1..n : objects[i] = x
  BY <1>1 DEF ChainOfFirst
<1>4. n \in Nat /\ DOMAIN list = 1..n /\ low.any \in Nat \ {0} /\ low.readonly \in Nat \ {0}
      /\ low = [any |-> low.any, readonly |-> low.readonly]
  BY <1>1, ListTyped DEF TypeOK
<1>5. /\ IsListOf(objects, ToSet(objects)) /\ DOMAIN objects = 1..Len(objects)
      /\ \A i, j \in 1..Len(objects) : objects[i] = objects[j] => i = j
  BY <1>1, ScriptOf, ListTyped DEF IsListOf, IsInjective
<1>6. /\ Len(rest) \in Nat \ {0} /\ o = rest[1] /\ o \in ToSet(rest) /\ Len(rest') = Len(rest) - 1
      /\ \A i \in 1..(Len(rest) - 1) : rest'[i] = rest[i + 1]
  <2>1. rest \in Seq(ToSet(rest)) /\ Len(rest) \in Nat /\ Len(rest) # 0
    BY <1>1, LenProperties, EmptySeq DEF IsListOf
  <2>2. Len(Tail(rest)) = Len(rest) - 1 /\ \A i \in 1..Len(Tail(rest)) : Tail(rest)[i] = rest[i + 1]
    BY <1>1, <2>1, HeadTailProperties
  <2>3. o \in ToSet(rest)
    BY <1>1, TailOfList
  <2>4. o = rest[1]
    BY <2>1
  <2>5. QED
    BY <1>2, <2>1, <2>2, <2>3, <2>4
<1>7. o = objects[n + 1] /\ n + 1 \in 1..Len(objects)
  BY <1>3, <1>4, <1>6
<1> HIDE DEF o
<1>8. /\ p \in 1..(n + 1)
      /\ IsRecordType(o) => p = 1 /\ ~IsReadonly(o)
      /\ IsReadonly(o) => p = low.readonly /\ ~IsRecordType(o)
      /\ Plain(o) => /\ p >= low.any
                     /\ \A i \in low.any..n : <<list[i], o>> \in script.lookups => p <= i
                     /\ p # n + 1 => p \in low.any..n /\ <<list[p], o>> \in script.lookups
  BY <1>1, PositionIs
<1> HIDE DEF p, n
<1>9. Len(list') = n + 1 /\ list' \in Seq(ToSet(list) \cup {o})
      /\ \A j \in 1..(n + 1) : list'[j] = IF j < p THEN list[j] ELSE IF j = p THEN o ELSE list[j - 1]
  <2> DEFINE Q == ToSet(list) \cup {o}
  <2>1. list \in Seq(Q) /\ o \in Q
    BY <1>1, SeqMonotonic DEF IsListOf
  <2> HIDE DEF Q
  <2>2. InsertAt(list, p, o) \in Seq(Q) /\ InsertedAt(InsertAt(list, p, o), list, p, o)
    BY <1>8, <2>1, Inserted DEF n
  <2>3. QED
    BY <1>2, <2>2 DEF n, Q, InsertedAt
<1>10. ToSet(list') = ToSet(list) \cup {o}
  <2>1. IsListOf(InsertAt(list, p, o), ToSet(list) \cup {o})
    BY <1>1, <1>6, <1>8, InsertedList DEF n
  <2>2. QED
    BY <1>2, <2>1 DEF IsListOf
<1>11. \A x : Plain(x)' <=> Plain(x)
  BY <1>2 DEF Plain, IsRecordType, IsReadonly
<1>12. ChainOfFirst'
  <2>1. low'.readonly <= low'.any /\ low'.any <= n + 2
    BY <1>2, <1>3, <1>4
  <2>2. ASSUME NEW i \in 1..(n + 1) PROVE i < low'.any <=> ~Plain(list'[i])
    <3>1. CASE ~Plain(o)
      <4>1. low'.any = low.any + 1 /\ p <= low.any
        BY <1>2, <1>3, <1>4, <1>8, <3>1 DEF Plain
      <4>2. CASE i < p
        <5>1. i \in 1..n /\ list'[i] = list[i] /\ i < low.any
          BY <1>4, <1>8, <1>9, <4>1, <4>2
        <5>2. QED
          BY <1>3, <1>4, <4>1, <5>1
      <4>3. CASE i = p
        BY <1>4, <1>8, <1>9, <3>1, <4>1, <4>3
      <4>4. CASE i > p
        <5>1. i - 1 \in 1..n /\ list'[i] = list[i - 1]
          BY <1>4, <1>8, <1>9, <4>4
        <5>2. i - 1 < low.any <=> ~Plain(list'[i])
          BY <1>3, <5>1
        <5>3. i < low'.any <=> i - 1 < low.any
          BY <1>4, <4>1
        <5>4. QED
          BY <5>2, <5>3
      <4>5. QED
        BY <1>8, <4>2, <4>3, <4>4
    <3>2. CASE Plain(o)
      <4>1. low'.any = low.any /\ p >= low.any
        BY <1>2, <1>8, <3>2 DEF Plain
      <4>2. CASE i < p
        <5>1. i \in 1..n /\ list'[i] = list[i]
          BY <1>4, <1>8, <1>9, <4>2
        <5>2. QED
          BY <1>3, <4>1, <5>1
      <4>3. CASE i = p
        BY <1>4, <1>8, <1>9, <3>2, <4>1, <4>3
      <4>4. CASE i > p
        <5>1. i - 1 \in 1..n /\ list'[i] = list[i - 1] /\ ~(i - 1 < low.any) /\ ~(i < low.any)
          BY <1>4, <1>8, <1>9, <4>1, <4>4
        <5>2. QED
          BY <1>3, <4>1, <5>1
      <4>5. QED
        BY <1>8, <4>2, <4>3, <4>4
    <3>3. QED
      BY <3>1, <3>2
  <2>3. Len(objects) = Len(list') + Len(rest')
    BY <1>3, <1>4, <1>6, <1>9
  <2>4. ASSUME NEW j \in 1..Len(rest') PROVE rest'[j] = objects[Len(list') + j]
    <3>0. Len(rest') = Len(rest) - 1 /\ Len(rest) \in Nat /\ Len(list') = n + 1 /\ n \in Nat
      BY <1>4, <1>6, <1>9
    <3>1. j \in 1..(Len(rest) - 1) /\ j + 1 \in 1..Len(rest) /\ n + (j + 1) = Len(list') + j
      BY <3>0
    <3>2. QED
      BY <1>3, <1>6, <3>1
  <2>5. ASSUME NEW x \in ToSet(list') PROVE \E i \in 1..Len(list') : objects[i] = x
    <3>1. CASE x = o
      BY <1>4, <1>7, <1>9, <3>1
    <3>2. CASE x \in ToSet(list)
      <4>1. PICK i \in 1..n : objects[i] = x
        BY <1>3, <3>2
      <4>2. i \in 1..Len(list')
        BY <1>4, <1>9
      <4>3. QED
        BY <4>1, <4>2
    <3>3. QED
      BY <1>10, <3>1, <3>2
  <2>6. low'.any <= Len(list') + 1
    BY <1>4, <1>9, <2>1
  <2>7. \A i \in 1..Len(list') : i < low'.any <=> ~Plain(list'[i])
    BY <1>9, <2>2
  <2>8. script.objects' = objects /\ \A x : Plain(x)' <=> Plain(x)
    BY <1>2, <1>11
  <2> HIDE DEF objects
  <2>9. QED
    BY <2>1, <2>3, <2>4, <2>5, <2>6, <2>7, <2>8 DEF ChainOfFirst
<1>13. ASSUME ParentsFirst(list), NEW child \in ToSet(list'), NEW parent \in ToSet(list'), KeptLookup(child, parent)
       PROVE  Precedes(list', parent, child)
  <2>1. /\ \A a, b : Precedes(list, a, b) => Precedes(list', a, b)
        /\ \A j \in p..n : Precedes(list', o, list[j])
        /\ \A j \in 1..(p - 1) : Precedes(list', list[j], o)
    BY <1>1, <1>2, <1>8, InsertedOrder DEF n
  <2>2. /\ <<child, parent>> \in script.lookups /\ child # parent /\ Plain(child)
        /\ \/ ~Plain(parent)
           \/ Precedes(script.objects, child, parent)
           \/ ~\E x \in ToSet(script.objects) :
                 Plain(x) /\ <<x, child>> \in script.lookups /\ Precedes(script.objects, x, child)
    BY <1>13 DEF KeptLookup
  <2>3. CASE child \in ToSet(list) /\ parent \in ToSet(list)
    BY <1>13, <2>1, <2>3 DEF ParentsFirst
  <2>4. CASE child \in ToSet(list) /\ parent = o
    <3>1. PICK i \in 1..n : list[i] = child
      BY <1>4, <2>4 DEF ToSet
    <3>2. i >= low.any
      BY <1>3, <1>4, <2>2, <3>1
    <3>3. p <= i
      <4>1. CASE Plain(o)
        <5>1. i \in low.any..n /\ <<list[i], o>> \in script.lookups
          BY <1>4, <2>2, <2>4, <3>1, <3>2
        <5>2. QED
          BY <1>8, <4>1, <5>1
      <4>2. CASE ~Plain(o)
        BY <1>3, <1>4, <1>8, <3>2, <4>2 DEF Plain
      <4>3. QED
        BY <4>1, <4>2
    <3>4. i \in p..n
      BY <1>4, <1>8, <3>3
    <3>5. QED
      BY <2>1, <2>4, <3>1, <3>4
  <2>5. CASE child = o /\ parent \in ToSet(list)
    <3>1. PICK i \in 1..n : list[i] = parent
      BY <1>4, <2>5 DEF ToSet
    <3>2. ASSUME NEW x, x \in ToSet(list) PROVE Precedes(objects, x, o) /\ ~Precedes(objects, o, x) /\ x \in ToSet(objects)
      <4>1. PICK k \in 1..n : objects[k] = x
        BY <1>3, <3>2
      <4>2. k \in DOMAIN objects /\ n + 1 \in DOMAIN objects /\ k < n + 1
        BY <1>4, <1>5, <1>7
      <4>3. Precedes(objects, x, o) /\ x \in ToSet(objects)
        BY <1>7, <4>1, <4>2 DEF Precedes, ToSet
      <4>4. ASSUME Precedes(objects, o, x) PROVE FALSE
        <5>1. PICK l \in 1..Len(objects), m \in 1..Len(objects) : l < m /\ objects[l] = o /\ objects[m] = x
          BY <1>5, <4>4 DEF Precedes
        <5>2. l = n + 1 /\ m = k
          BY <1>5, <1>7, <4>1, <4>2, <5>1
        <5>3. QED
          BY <4>2, <5>1, <5>2
      <4>5. QED
        BY <4>3, <4>4
    <3>3. i < p
      <4>1. CASE ~Plain(parent)
        BY <1>3, <1>4, <1>8, <2>2, <2>5, <3>1, <4>1
      <4>2. CASE ~\E x \in ToSet(objects) : Plain(x) /\ <<x, o>> \in script.lookups /\ Precedes(objects, x, o)
        <5>1. ASSUME p # n + 1 PROVE FALSE
          <6>1. p \in low.any..n /\ <<list[p], o>> \in script.lookups
            BY <1>8, <2>2, <2>5, <5>1
          <6>2. p \in 1..n /\ ~(p < low.any)
            BY <1>4, <6>1
          <6>3. Plain(list[p]) /\ list[p] \in ToSet(list)
            BY <1>3, <1>4, <6>2 DEF ToSet
          <6>4. QED
            BY <3>2, <4>2, <6>1, <6>3
        <5>2. QED
          BY <1>4, <5>1
      <4>3. QED
        BY <2>2, <2>5, <3>2, <4>1, <4>2
    <3>4. i \in 1..(p - 1)
      BY <1>4, <1>8, <3>3
    <3>5. QED
      BY <2>1, <2>5, <3>1, <3>4
  <2>6. QED
    BY <1>10, <2>2, <2>3, <2>4, <2>5
<1>14. ASSUME ParentsFirst(list) PROVE ParentsFirst(list)'
  <2>1. \A child, parent : KeptLookup(child, parent)' <=> KeptLookup(child, parent)
    BY <1>2, <1>11 DEF KeptLookup
  <2>2. \A child, parent \in ToSet(list') : KeptLookup(child, parent) => Precedes(list', parent, child)
    BY <1>13, <1>14
  <2>3. QED
    BY <2>1, <2>2 DEF ParentsFirst, Precedes, ToSet
<1>15. QED
  BY <1>12, <1>14

\* The first object of a chain is inserted into nothing.
LEMMA LookupInit == Init => LookupInv
<1> SUFFICES ASSUME Init PROVE LookupInv
  OBVIOUS
<1>1. stage = (IF script.keepOrder THEN "keep" ELSE "chain") /\ building = "tasks" /\ list = <<>> /\ rest = script.objects
      /\ low = [any |-> 1, readonly |-> 1]
  BY DEF Init
<1>2. Ready = {}
  BY <1>1 DEF Ready
<1>3. ToSet(list) = {} /\ Len(list) = 0
  BY <1>1 DEF ToSet
<1>4. TypeOK
  BY PlanStarts DEF PlanInv
<1>5. Len(script.objects) \in Nat
  BY <1>4, ScriptOf, ListTyped
<1>6. ChainOfFirst
  BY <1>1, <1>3, <1>5 DEF ChainOfFirst
<1>7. ParentsFirst(list)
  BY <1>3 DEF ParentsFirst
<1>8. QED
  BY <1>1, <1>2, <1>6, <1>7 DEF LookupInv, KeepsOrder, ChainOrdered, TasksPlanOrdered

\* The script decides what is a lookup the chain keeps.
LEMMA SameLookups ==
  ASSUME script' = script
  PROVE  \A child, parent : KeptLookup(child, parent)' <=> KeptLookup(child, parent)
BY DEF KeptLookup, Plain, IsRecordType, IsReadonly, Precedes

\* Without masters nothing moves the objects of the chain.
LEMMA NothingMoved ==
  ASSUME ComparePair, stage = "masters", script.masters = {}
  PROVE  list' = list
BY DEF ComparePair, Wanted, MasterOf

\* Every step keeps what inserting guarantees.
LEMMA LookupStays == PlanInv /\ LookupInv /\ [Next]_vars => LookupInv'
<1> SUFFICES ASSUME PlanInv, LookupInv, [Next]_vars PROVE LookupInv'
  OBVIOUS
<1>1. TypeOK /\ DOMAIN plan = ListNames
  BY DEF PlanInv, TypeOK
<1>2. script' = script
  BY DEF Next, KeepOrder, Place, ChainDone, ComparePair, NextPass, MastersDone, QueryDone, CompareSpecial,
     SpecialDone, Planned, vars
<1>3. KeepsOrder'
  BY <1>2 DEF LookupInv, KeepsOrder, Next, KeepOrder, Place, ChainDone, ComparePair, NextPass, MastersDone, QueryDone,
     CompareSpecial, SpecialDone, Planned, vars, StartSort, StartChain
<1>4. ASSUME ~script.keepOrder PROVE ChainOfFirst'
  <2>1. ChainOfFirst
    BY <1>4 DEF LookupInv
  <2>2. CASE Place
    <3>1. CASE building = "tasks"
      BY <2>1, <2>2, <3>1, LookupPlaced
    <3>2. CASE building # "tasks"
      BY <2>2, <3>2 DEF Place, ChainOfFirst
    <3>3. QED
      BY <3>1, <3>2
  <2>3. CASE UNCHANGED vars \/ Planned
    <3>1. stage' = stage /\ building' = building /\ list' = list /\ rest' = rest /\ low' = low
      BY <2>3 DEF vars, Planned
    <3>2. QED
      BY <1>2, <2>1, <3>1 DEF ChainOfFirst, Plain, IsRecordType, IsReadonly
  <2>4. CASE KeepOrder \/ ChainDone \/ ComparePair \/ NextPass \/ MastersDone \/ QueryDone \/ CompareSpecial \/ SpecialDone
    <3>1. stage' # "chain" \/ building' # "tasks"
      BY <2>4 DEF KeepOrder, ChainDone, ComparePair, NextPass, MastersDone, QueryDone, CompareSpecial, SpecialDone,
         StartSort, StartChain
    <3>2. QED
      BY <3>1 DEF ChainOfFirst
  <2>5. QED
    BY <2>2, <2>3, <2>4 DEF Next
<1>5. ASSUME ~script.keepOrder, script.masters = {} PROVE ChainOrdered'
  <2> SUFFICES ASSUME building' = "tasks", stage' \in {"chain", "masters"} PROVE ParentsFirst(list)'
    BY DEF ChainOrdered
  <2>1. ChainOfFirst /\ ChainOrdered
    BY <1>5 DEF LookupInv
  <2>2. CASE Place
    BY <2>1, <2>2, LookupPlaced DEF ChainOrdered, Place
  <2>3. CASE ~Place
    <3>1. building = "tasks" /\ stage \in {"chain", "masters"} /\ list' = list
      <4>1. CASE ComparePair
        BY <1>5, <4>1, NothingMoved DEF ComparePair
      <4>2. CASE ~ComparePair
        BY <1>1, <2>3, <4>2 DEF Next, KeepOrder, ChainDone, NextPass, MastersDone, QueryDone, CompareSpecial, SpecialDone,
           Planned, vars, StartSort, StartChain, TypeOK
      <4>3. QED
        BY <4>1, <4>2
    <3>2. \A child, parent : KeptLookup(child, parent)' <=> KeptLookup(child, parent)
      BY <1>2, SameLookups
    <3>3. QED
      BY <2>1, <3>1, <3>2 DEF ChainOrdered, ParentsFirst, Precedes, ToSet
  <2>4. QED
    BY <2>2, <2>3
<1>6. ASSUME ~script.keepOrder, script.masters = {} PROVE TasksPlanOrdered'
  <2> SUFFICES ASSUME "tasks" \in Ready' PROVE ParentsFirst(plan["tasks"])'
    BY DEF TasksPlanOrdered
  <2>1. ChainOrdered /\ TasksPlanOrdered
    BY <1>6 DEF LookupInv
  <2>2. \A child, parent : KeptLookup(child, parent)' <=> KeptLookup(child, parent)
    BY <1>2, SameLookups
  <2>3. \E s : plan'["tasks"] = s /\ ParentsFirst(s)
    <3>1. CASE MastersDone /\ building = "tasks"
      <4>1. stage = "masters" /\ plan' = [plan EXCEPT !.tasks = list]
        BY <3>1 DEF MastersDone
      <4>2. plan'["tasks"] = list
        BY <1>1, <4>1 DEF ListNames
      <4>3. QED
        BY <2>1, <3>1, <4>1, <4>2 DEF ChainOrdered
    <3>2. CASE ~(MastersDone /\ building = "tasks")
      <4>1. ~KeepOrder
        BY <1>6 DEF KeepOrder, LookupInv, KeepsOrder
      <4>2. plan'["tasks"] = plan["tasks"] /\ "tasks" \in Ready
        <5>1. CASE SpecialDone
          <6>1. plan' = [plan EXCEPT ![building] = list] /\ building # "tasks" /\ stage = "special"
            BY <1>1, <5>1 DEF SpecialDone, TypeOK
          <6>2. QED
            BY <1>1, <6>1 DEF ListNames, Ready, TypeOK
        <5>2. CASE MastersDone
          <6>1. plan' = plan /\ stage = "masters" /\ building # "tasks"
            BY <3>2, <5>2 DEF MastersDone
          <6>2. QED
            BY <1>1, <6>1 DEF Ready, TypeOK
        <5>3. CASE QueryDone
          <6>1. plan' = [plan EXCEPT !.queryTasks = list] /\ stage = "query" /\ building = "tasks"
            BY <1>1, <5>3 DEF QueryDone, TypeOK
          <6>2. QED
            BY <1>1, <6>1 DEF ListNames, Ready
        <5>4. CASE Place \/ ChainDone \/ ComparePair \/ NextPass \/ CompareSpecial \/ Planned \/ UNCHANGED vars
          BY <1>1, <5>4 DEF Place, ChainDone, ComparePair, NextPass, CompareSpecial, Planned, vars, Ready, StartSort, TypeOK
        <5>5. QED
          BY <4>1, <5>1, <5>2, <5>3, <5>4 DEF Next
      <4>3. QED
        BY <2>1, <4>2 DEF TasksPlanOrdered
    <3>3. QED
      BY <3>1, <3>2
  <2>4. QED
    BY <2>2, <2>3 DEF ParentsFirst, Precedes, ToSet
<1>7. QED
  BY <1>2, <1>3, <1>4, <1>5, <1>6 DEF LookupInv

\* In the end the tasks keep those lookups.
LEMMA LookupEnds == PlanInv /\ LookupInv => LookupParentsFirst
<1> SUFFICES ASSUME PlanInv, LookupInv, Sorted, script.masters = {}, NEW e \in script.lookups,
                    Has(script.objects, e[1]), Has(script.objects, e[2]), KeptLookup(e[1], e[2])
             PROVE  Precedes(plan["tasks"], e[2], e[1])
  <2>1. ASSUME PlanInv, LookupInv, Sorted, script.masters = {} PROVE script.lookups \subseteq Objects \X Objects
    BY <2>1, ScriptAssumption DEF PlanInv, TypeOK, IsScript
  <2>2. QED
    BY <2>1 DEF LookupParentsFirst, KeptLookup
<1>1. "tasks" \in Ready /\ TasksPlanOrdered
  BY DEF LookupInv, Sorted, Ready, ListNames
<1>2. ToSet(plan["tasks"]) = ToSet(script.objects)
  BY <1>1, ScriptOf DEF PlanInv, ReadyHaveAll, IsListOf
<1>3. QED
  BY <1>1, <1>2 DEF TasksPlanOrdered, ParentsFirst, Has

\* Every list has its objects, each once; the update passes start with the parents of the
\* lookups that inserting can keep, circles or not; the objects read in full are queried
\* before those whose queries are built from what was read (_createTasks,
\* _buildTaskChain and the sorts), for any set of objects and any bound of the passes.
THEOREM PlanInOrder == Spec => []TasksOrdered
<1>1. Init => PlanInv /\ QueryInv /\ LookupInv
  BY PlanStarts, QueryInit, LookupInit
<1>2. PlanInv /\ QueryInv /\ LookupInv /\ [Next]_vars => PlanInv' /\ QueryInv' /\ LookupInv'
  BY PlanStays, QueryStays, LookupStays
<1>3. PlanInv /\ QueryInv /\ LookupInv => TasksOrdered
  BY PlanComplete, QueryEnds, LookupEnds DEF TasksOrdered
<1>4. QED
  BY <1>1, <1>2, <1>3, PTL DEF Spec
=============================================================================
