------------------------------- MODULE TaskPlan -------------------------------
(***************************************************************************)
(* The order in which a migration job handles its objects:                 *)
(* MigrationJob._createTasks and the methods it calls.  From the objects   *)
(* of the script it computes four lists of tasks: tasks (the update        *)
(* passes), queryTasks, updateTasks and deleteTasks.                       *)
(*                                                                         *)
(* Three lists start as a chain built by inserting one object after the    *)
(* other; a bounded number of passes over the pairs of a list then moves   *)
(* master-detail parents in front of their details; special pairs of       *)
(* objects are swapped last.  Every inserted object and every compared     *)
(* pair is a step.                                                         *)
(***************************************************************************)
EXTENDS Integers, Sequences, SequencesExt, Subsequences

CONSTANTS
  Objects,      \* the sObjects of the set
  Scripts,      \* the scripts to plan: see IsScript
  QueryFirst,   \* SPECIAL_OBJECT_QUERY_ORDER: <<object, the one it goes before>>
  UpdateFirst,  \* SPECIAL_OBJECT_UPDATE_ORDER
  DeleteFirst,  \* SPECIAL_OBJECT_DELETE_ORDER
  MaxPasses     \* passes of a sort: 10 in the code

\* What an object is, as far as planning looks at it: the RecordType object,
\* Readonly, Delete (with or without deleteByHierarchy), an object that is written,
\* or one that is written after its old data are deleted.
Kinds == {"RecordType", "Readonly", "Delete", "DeleteHierarchy", "Write", "Replace"}

IsScript(s) ==
  /\ s.objects \in Seq(Objects) /\ IsInjective(s.objects)
  /\ s.kind \in [Objects -> Kinds]
  /\ s.lookups \subseteq Objects \X Objects    \* <<child, parent>>
  /\ s.masters \subseteq Objects \X Objects    \* <<detail, master>>
  /\ s.main \subseteq Objects                  \* scriptObject.master, processed in full
  /\ s.limited \subseteq Objects               \* WHERE or LIMIT in the query
  /\ s.keepOrder \in BOOLEAN                   \* keepObjectOrderWhileExecute

ASSUME ScriptAssumption == \A s \in Scripts : IsScript(s)
ASSUME PassAssumption == MaxPasses \in Nat \ {0}

VARIABLES
  script,     \* the script, fixed
  stage,      \* what is being done ...
  building,   \* ... to which list
  list,       \* that list so far
  rest,       \* objects still to be inserted into the chain
  low,        \* lowerIndexForAnyObjects, lowerIndexForReadonlyObjects
  cursor,     \* the pair of snapshot positions a sort compares next
  plan        \* the finished lists

vars == <<script, stage, building, list, rest, low, cursor, plan>>
ListNames == {"tasks", "queryTasks", "updateTasks", "deleteTasks"}

IsReadonly(o) == script.kind[o] \in {"Readonly", "Delete"}
CanUpdate(o) == script.kind[o] \in {"Write", "Replace"}
CanDelete(o) == script.kind[o] \in {"Delete", "DeleteHierarchy", "Replace"}
ProcessedInFull(o) == o \in script.main \cup script.limited
Belongs(o, name) ==
  CASE name = "updateTasks" -> CanUpdate(o)
    [] name = "deleteTasks" -> CanDelete(o)
    [] OTHER -> TRUE
IsRecordType(o) == script.kind[o] = "RecordType"
RecordTypes == {o \in Objects : IsRecordType(o)}
InFull == {o \in Objects : ProcessedInFull(o)}
Members(name) == {o \in Objects : Belongs(o, name)}

-----------------------------------------------------------------------------

\* The element at position from moves to the earlier position to.
Moved(s, from, to) == InsertAt(RemoveAt(s, from), to, s[from])
PositionIn(s, o) == CHOOSE i \in DOMAIN s : s[i] = o

\* Where _buildTaskChain inserts an object: RecordType first, readonly objects
\* next, any other before the first one that looks up to it.
Position(o) ==
  LET children == {i \in low.any .. Len(list) : <<list[i], o>> \in script.lookups}
  IN  CASE IsRecordType(o) -> 1
        [] ~IsRecordType(o) /\ IsReadonly(o) -> low.readonly
        [] OTHER -> IF children = {} THEN Len(list) + 1
                    ELSE CHOOSE i \in children : \A j \in children : i <= j

\* Whether a sort wants right in front of left.
MasterOf(right, left) == <<left, right>> \in script.masters
QueriedBefore(right, left) ==
  <<right, left>> \in QueryFirst /\ (right \in script.main \/ left \notin script.main)
SpecialBefore(right, left) ==
  <<right, left>> \in (IF building = "updateTasks" THEN UpdateFirst ELSE DeleteFirst)

-----------------------------------------------------------------------------
\* A sort starts on a copy of the list.
FirstPass(s) == [snap |-> s, left |-> 1, right |-> 2, swapped |-> FALSE, pass |-> 1]
StartSort(kind, s) == stage' = kind /\ list' = s /\ cursor' = FirstPass(s)
StartChain(name) ==
  /\ building' = name /\ stage' = "chain" /\ list' = <<>>
  /\ rest' = Picked(script.objects, Members(name))
  /\ low' = [any |-> 1, readonly |-> 1]

Init ==
  /\ script \in Scripts
  /\ stage = (IF script.keepOrder THEN "keep" ELSE "chain")
  /\ building = "tasks" /\ list = <<>> /\ rest = script.objects
  /\ low = [any |-> 1, readonly |-> 1]
  /\ cursor = FirstPass(<<>>)
  /\ plan = [name \in ListNames |-> <<>>]

\* keepObjectOrderWhileExecute: only RecordType changes its place.
KeepOrder ==
  LET kept == Picked(rest, RecordTypes) \o Picked(rest, Objects \ RecordTypes)
  IN  /\ stage = "keep"
      /\ plan' = [name \in ListNames |-> Picked(kept, Members(name))]
      /\ stage' = "done"
      /\ UNCHANGED <<script, building, list, rest, low, cursor>>

\* _buildTaskChain, for one object.
Place ==
  /\ stage = "chain" /\ rest # <<>>
  /\ LET o == Head(rest) IN
     /\ list' = InsertAt(list, Position(o), o)
     /\ low' = [any |-> IF IsRecordType(o) \/ IsReadonly(o) THEN low.any + 1 ELSE low.any,
                readonly |-> IF IsRecordType(o) THEN low.readonly + 1 ELSE low.readonly]
  /\ rest' = Tail(rest)
  /\ UNCHANGED <<script, stage, building, cursor, plan>>

ChainDone ==
  /\ stage = "chain" /\ rest = <<>>
  /\ StartSort("masters", list)
  /\ UNCHANGED <<script, building, rest, low, plan>>

\* The next pair of positions.
NextPair(c) ==
  IF c.right < Len(c.snap) THEN [c EXCEPT !.right = c.right + 1]
  ELSE [c EXCEPT !.left = c.left + 1, !.right = c.left + 2]
PairLeft == cursor.left < Len(cursor.snap)

\* _putMasterDetailsBefore and _updateQueryTaskOrder, for one pair of the copy: the
\* right task is moved directly before the left one unless it already precedes it.
Wanted(right, left) ==
  IF stage = "masters" THEN MasterOf(right, left) ELSE QueriedBefore(right, left)
ComparePair ==
  LET left == cursor.snap[cursor.left]
      right == cursor.snap[cursor.right]
      from == PositionIn(list, right)
      to == PositionIn(list, left)
  IN  /\ stage \in {"masters", "query"} /\ PairLeft
      /\ IF Wanted(right, left) /\ from > to
         THEN list' = Moved(list, from, to) /\ cursor' = NextPair([cursor EXCEPT !.swapped = TRUE])
         ELSE list' = list /\ cursor' = NextPair(cursor)
      /\ UNCHANGED <<script, stage, building, rest, low, plan>>

\* One more pass if this one moved something, but not more than MaxPasses.
NextPass ==
  /\ stage \in {"masters", "query"} /\ ~PairLeft
  /\ cursor.swapped /\ cursor.pass < MaxPasses
  /\ cursor' = [FirstPass(list) EXCEPT !.pass = cursor.pass + 1]
  /\ UNCHANGED <<script, stage, building, list, rest, low, plan>>

\* Mutant: a sort may stop after a pass that still moved something.
LastPassDone_Swapped == ~PairLeft
LastPassDone == ~PairLeft /\ ~(cursor.swapped /\ cursor.pass < MaxPasses)

\* Mutant: the query list is the update list.
MastersDone_NoPartition ==
  /\ stage = "masters" /\ LastPassDone
  /\ IF building = "tasks"
     THEN plan' = [plan EXCEPT !.tasks = list] /\ StartSort("query", list)
     ELSE /\ StartSort("special", IF building = "deleteTasks" THEN Reverse(list) ELSE list)
          /\ UNCHANGED plan
  /\ UNCHANGED <<script, building, rest, low>>

\* The masters of a list stand before their details.  tasks is ready; queryTasks
\* starts from it, with the objects processed in full before the others;
\* deleteTasks is turned round.
MastersDone ==
  /\ stage = "masters" /\ LastPassDone
  /\ IF building = "tasks"
     THEN /\ plan' = [plan EXCEPT !.tasks = list]
          /\ StartSort("query", Picked(list, InFull) \o Picked(list, Objects \ InFull))
     ELSE /\ StartSort("special", IF building = "deleteTasks" THEN Reverse(list) ELSE list)
          /\ UNCHANGED plan
  /\ UNCHANGED <<script, building, rest, low>>

QueryDone ==
  /\ stage = "query" /\ LastPassDone
  /\ plan' = [plan EXCEPT !.queryTasks = list]
  /\ StartChain("updateTasks")
  /\ UNCHANGED <<script, cursor>>

\* applySpecialTaskOrder works on the list itself: the left task is read once for
\* each left position, the right one at each pair.
CompareSpecial ==
  LET left == cursor.snap[cursor.left]
      moves == SpecialBefore(list[cursor.right], left)
      moved == IF moves THEN Moved(list, cursor.right, cursor.left) ELSE list
      next == NextPair(cursor)
  IN  /\ stage = "special" /\ PairLeft
      /\ list' = moved
      /\ cursor' = IF next.left = cursor.left THEN next ELSE [next EXCEPT !.snap = moved]
      /\ UNCHANGED <<script, stage, building, rest, low, plan>>

SpecialDone ==
  /\ stage = "special" /\ ~PairLeft
  /\ plan' = [plan EXCEPT ![building] = list]
  /\ IF building = "updateTasks"
     THEN StartChain("deleteTasks")
     ELSE stage' = "done" /\ UNCHANGED <<building, list, rest, low>>
  /\ UNCHANGED <<script, cursor>>

Planned == stage = "done" /\ UNCHANGED vars

Next ==
  \/ KeepOrder \/ Place \/ ChainDone \/ ComparePair \/ NextPass \/ MastersDone
  \/ QueryDone \/ CompareSpecial \/ SpecialDone \/ Planned

Spec == Init /\ [][Next]_vars

-----------------------------------------------------------------------------
(***************************************************************************)
(* Properties.                                                             *)
(***************************************************************************)
Precedes(s, a, b) == \E i, j \in DOMAIN s : i < j /\ s[i] = a /\ s[j] = b
Has(s, a) == a \in ToSet(s)
Sorted == stage = "done" /\ ~script.keepOrder

NothingLost ==
  stage = "done" =>
    \A name \in ListNames :
      /\ IsInjective(plan[name])
      /\ ToSet(plan[name]) = {o \in ToSet(script.objects) : Belongs(o, name)}

MastersFirst ==
  Sorted => \A e \in script.masters :
    /\ \A name \in {"tasks", "updateTasks"} :
         Has(plan[name], e[1]) /\ Has(plan[name], e[2]) => Precedes(plan[name], e[2], e[1])
    /\ Has(plan.deleteTasks, e[1]) /\ Has(plan.deleteTasks, e[2])
         => Precedes(plan.deleteTasks, e[1], e[2])

Plain(o) == ~IsRecordType(o) /\ ~IsReadonly(o)
LookupParentsFirst ==
  Sorted /\ script.masters = {} =>
    \A e \in script.lookups :
      LET child == e[1]
          parent == e[2]
      IN  /\ child # parent /\ Plain(child) /\ Has(script.objects, child) /\ Has(script.objects, parent)
          /\ \/ ~Plain(parent)
             \/ Precedes(script.objects, child, parent)
             \/ ~\E x \in ToSet(script.objects) :
                   Plain(x) /\ <<x, child>> \in script.lookups /\ Precedes(script.objects, x, child)
          => Precedes(plan.tasks, parent, child)

\* Objects read in full are queried before those whose queries are built from what
\* was read (but for those that special pairs move forwards).
QueriedInFullFirst ==
  Sorted => \A a, b \in ToSet(script.objects) :
    ProcessedInFull(a) /\ ~ProcessedInFull(b) /\ (\A e \in QueryFirst : e[1] # b)
    => Precedes(plan.queryTasks, a, b)

\* However the objects were inserted, moved and turned round, every list ends with
\* exactly its objects, each once.  What inserting guarantees for ordinary lookups is
\* left, circles included: a parent that is readonly, or listed after its child, or
\* whose child had none of its own children inserted before it, is handled before the
\* child, so that the forward pass carries the lookup.  And objects read in full are
\* queried before the others.
TasksOrdered == NothingLost /\ LookupParentsFirst /\ QueriedInFullFirst

SpecialPairsFirst ==
  Sorted => \A e \in QueryFirst :
    Has(script.objects, e[1]) /\ Has(script.objects, e[2]) /\ QueriedBefore(e[1], e[2])
      => Precedes(plan.queryTasks, e[1], e[2])

\* The bounded number of passes is enough: master-detail parents are written before and
\* deleted after their details, the special query pairs keep their order, and neither
\* later moves nor the special pairs undo what a pass achieved.
SortsSuffice == MastersFirst /\ SpecialPairsFirst
=============================================================================
