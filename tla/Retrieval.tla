------------------------------ MODULE Retrieval ------------------------------
(***************************************************************************)
(* How a migration job counts and reads its records: _calculateRecord-     *)
(* CountsAsync and _retrieveRecordsAsync of MigrationJob, retrieveRecords- *)
(* Async of MigrationJobTask.  After the counts six passes visit the query *)
(* tasks one after the other.  An object processed in full is read by its  *)
(* own query in the first pass; any other one by that query narrowed to IN *)
(* clauses whose values come from what is already there: the parents its   *)
(* lookups point to (forwards, backwards), the lookups pointing to it      *)
(* (reversed), or, in the target, the external ids of the source.  A value *)
(* is asked for once per object and field.  The target is read in full     *)
(* where the counts found few rows.                                        *)
(*                                                                         *)
(* Source and target do not change meanwhile.  A record and its copy in    *)
(* the target are one row here, so is its external id, which is unique.    *)
(* A query that fails throws out of the job: the behaviour then just ends; *)
(* a count that fails does not.                                            *)
(***************************************************************************)
EXTENDS TaskQueries

CONSTANTS
  Rows,        \* the records of the orgs
  ObjectOf,    \* the sObject of each
  InTarget,    \* the rows the target has ...
  TargetScope, \* ... and those of them that match the filter of their object
  Scenarios    \* the scripts: see IsScenario

Objects == {ObjectOf[r] : r \in Rows}
Operations == {"Write", "Insert", "Delete", "DeleteHierarchy", "DeleteSource"}
Sides == {"source", "target"}

IsScenario(s) ==
  /\ {s.tasks, s.queryTasks} \subseteq Seq(Objects) \ {<<>>}  \* the same tasks: see TaskPlan
  /\ IsInjective(s.tasks) /\ IsInjective(s.queryTasks) /\ ToSet(s.tasks) = ToSet(s.queryTasks)
  /\ s.lookups \subseteq ToSet(s.tasks) \X ToSet(s.tasks)  \* <<child, parent>>: one lookup field each
  /\ s.inClause \subseteq s.lookups           \* includedInClauseFields
  /\ s.noInClause \subseteq s.lookups         \* excludedFromInClauseFields
  /\ s.master \subseteq Objects
  /\ s.special \subseteq Objects              \* User, Group and RecordType
  /\ s.csv \subseteq Objects                  \* useSourceCSVFile
  /\ s.composite \subseteq Objects            \* a composite external id, or one of a parent
  /\ s.lookupKey \subseteq Objects            \* externalId is a lookup
  /\ s.autonumber \subseteq Objects           \* externalId is an autonumber
  /\ s.byId \subseteq Objects                 \* externalId is Id
  /\ s.allTarget \subseteq Objects            \* queryAllTarget
  /\ s.deleteOldData \subseteq Objects
  /\ s.operation \in [Objects -> Operations]
  /\ s.fileTarget \in BOOLEAN
  /\ \A o \in Objects : IsQuery(s.query[o]) /\ s.query[o].object = o
  /\ s.kept \subseteq Rows                    \* the rows that match the sourceRecordsFilter
  /\ s.filters \subseteq Objects              \* ... of these objects
  /\ s.badFilters \subseteq s.csv             \* filters that are no SQL
  /\ s.threshold \in [Objects -> Nat]         \* targetFullQueryRecordsThreshold
  /\ s.room \in Nat \ {0}                     \* values that fit into an IN clause

ASSUME RowAssumption == IsFiniteSet(Rows) /\ TargetScope \subseteq InTarget /\ InTarget \subseteq Rows
\* An IN clause on a lookup bears the name of the parent object.
ASSUME NameAssumption == Objects \cap {"Filter", "RecordsFilter", "IsDeleted", "Id", "ExternalId"} = {}
ASSUME ScenarioAssumption == \A s \in Scenarios : IsScenario(s)

VARIABLES
  script, \* the scenario, fixed
  link,   \* <<row, parent>>: the lookup values in the source, fixed
  scope,  \* the source rows that match the filter of their object, fixed
  pass,   \* 0 while records are counted, then the pass under way
  at,     \* the task that is next in it
  counts, \* totalRecordCount of sourceData and targetData after the counts
  source, \* sourceData.idRecordsMap of all tasks
  target, \* targetData.idRecordsMap of all tasks
  cache,  \* _filteredQueryValueCache: <<object, field name, value>>
  first,  \* history: the pass that read a source row, 0 for none
  failed  \* history: <<object, side>> whose count failed

vars == <<script, link, scope, pass, at, counts, source, target, cache, first, failed>>
given == <<script, link, scope>>

-----------------------------------------------------------------------------
\* The queries

\* Mutant: one pass less for the parents.
Passes_OneReversed == <<"forwards", "backwards", "backwards", "backwards", "reversed", "target">>
\* "reversed" is mode forwards with reversed set.
Passes == <<"forwards", "backwards", "backwards", "reversed", "reversed", "target">>
Mode == Passes[pass]
Done == pass > Len(Passes)
TasksOf(p) == IF p = 0 THEN script.tasks ELSE script.queryTasks
Task == TasksOf(pass)[at]

Of(o, rows) == {r \in rows : ObjectOf[r] = o}
IndexOf(o) == CHOOSE i \in DOMAIN script.tasks : script.tasks[i] = o
PivotObjects(o) ==
  {p \in Objects : IF Mode = "forwards" THEN IndexOf(p) > IndexOf(o) ELSE IndexOf(p) < IndexOf(o)}

\* processAllSource: masters, special objects and objects without relationships
ProcessAllSource(o) ==
  o \in script.master \cup script.special \/ \A l \in script.lookups : o # l[1] /\ o # l[2]
\* processAllTarget, resolved after the counts
ProcessAllTarget(o) ==
  \/ o \in script.allTarget \cup script.composite \cup script.autonumber \cup script.byId \cup script.special
  \/ counts[o]["target"] < script.threshold[o]

\* The query of an object for an org
SourceQuery(o) ==
  IF o \in script.filters THEN Merged(script.query[o], Condition("RecordsFilter", {})) ELSE script.query[o]
TargetQuery(o) ==
  IF script.operation[o] = "DeleteHierarchy" \/ o \in script.allTarget
  THEN WithoutLimits(WithoutWhere(script.query[o])) ELSE WithoutIsDeleted(script.query[o])
QueryFor(o, side) == IF side = "source" THEN SourceQuery(o) ELSE TargetQuery(o)

\* The rows of an org that match: IsDeleted = true finds nothing in the target, where
\* nothing was deleted.
Passed(c, side, r) ==
  CASE c.on = "Filter" -> r \in (IF side = "source" THEN scope ELSE TargetScope)
    [] c.on = "RecordsFilter" -> r \in script.kept
    [] c.on = "IsDeleted" -> side = "source"
    [] c.on \in {"Id", "ExternalId"} -> r \in c.values
    [] OTHER -> \E v \in c.values : <<r, v>> \in link
Matching(q, side) ==
  {r \in Of(q.object, IF side = "source" THEN Rows ELSE InTarget) :
     \A i \in DOMAIN q.where : Passed(q.where[i], side, r)}
\* What a sequence of queries may bring
Joined(found, q, side) == {x \cup y : x \in found, y \in Answers(q, Matching(q, side))}
Results(queries, side) ==
  LET found[i \in 0..Len(queries)] == IF i = 0 THEN {{}} ELSE Joined(found[i - 1], queries[i], side)
  IN  found[Len(queries)]

\* IN values are pairs <<field name, value>>.  A lookup field bears its parent's name.
MayNarrow(l) ==
  /\ l \in script.inClause \/ {k \in script.inClause : k[1] = l[1]} = {}
  /\ l \notin script.noInClause
ParentValues(o) ==
  {v \in Objects \X source :
     /\ v[1] = ObjectOf[v[2]] /\ v[1] \in PivotObjects(o) \ script.special
     /\ <<o, v[1]>> \in script.lookups /\ MayNarrow(<<o, v[1]>>)}
ChildValues(o) ==
  {<<"Id", l[2]>> : l \in {k \in link : ObjectOf[k[2]] = o /\ k[1] \in source /\ o \notin script.special}}
\* Only a simple field that is no lookup is asked for as the external id.
KeyIsSimple(o) == o \notin script.composite \cup script.lookupKey
ExternalIdField(o) == IF o \in script.byId THEN "Id" ELSE "ExternalId"
ExternalIdValues(o) == IF KeyIsSimple(o) THEN {ExternalIdField(o)} \X Of(o, source) ELSE {}

FilterValues(o) ==
  CASE Mode = "target" -> ExternalIdValues(o)
    [] Mode = "reversed" -> ChildValues(o)
    [] OTHER -> ParentValues(o)
NewValues(o) == {v \in FilterValues(o) : <<o, v[1], v[2]>> \notin cache}

\* Mutant: the query without IN clause is sent as well.
InQueries_Unfiltered(o, values, side) ==
  LET fields == SetToSeq({v[1] : v \in values})
      of(f) == SetToSeq({v[2] : v \in {w \in values : w[1] = f}})
  IN  <<QueryFor(o, side)>> \o FlattenSeq([i \in DOMAIN fields |->
         FilteredQueries(QueryFor(o, side), fields[i], of(fields[i]), script.room)])
\* The queries for the values of each field: none is sent without values.
InQueries(o, values, side) ==
  LET fields == SetToSeq({v[1] : v \in values})
      of(f) == SetToSeq({v[2] : v \in {w \in values : w[1] = f}})
  IN  FlattenSeq([i \in DOMAIN fields |->
         FilteredQueries(QueryFor(o, side), fields[i], of(fields[i]), script.room)])

\* _retrieveSelfReferenceRecordsAsync, which does not use the cache
SelfReferences(o, read) ==
  IF Mode \in {"forwards", "reversed"} /\ ~ProcessAllSource(o) /\ <<o, o>> \in script.lookups
  THEN InQueries(o, {<<"Id", l[2]>> : l \in {k \in link : k[1] \in Of(o, read) /\ ObjectOf[k[2]] = o}}, "source")
  ELSE <<>>

-----------------------------------------------------------------------------
\* Counting

Init ==
  /\ script \in Scenarios
  /\ link \in SUBSET {l \in Rows \X Rows : <<ObjectOf[l[1]], ObjectOf[l[2]]>> \in script.lookups}
  /\ \A l, k \in link : l[1] = k[1] /\ ObjectOf[l[2]] = ObjectOf[k[2]] => l = k
  /\ scope \in SUBSET Rows
  /\ pass = 0 /\ at = 1
  /\ counts = [o \in Objects |-> [side \in Sides |-> 0]]
  /\ source = {} /\ target = {} /\ cache = {}
  /\ first = [r \in Rows |-> 0] /\ failed = {}

NextTask ==
  /\ at' = IF at < Len(TasksOf(pass)) THEN at + 1 ELSE 1
  /\ pass' = IF at < Len(TasksOf(pass)) THEN pass ELSE pass + 1
  /\ UNCHANGED given

\* preflightEligibility
CanQueryTarget(o) == ~script.fileTarget /\ (o \in script.deleteOldData \/ script.operation[o] # "Insert")
IsCountedByQuery(o, side) == IF side = "source" THEN o \notin script.csv ELSE CanQueryTarget(o)

\* Without a query: the rows of the file, or none.
Uncounted(o, side) == IF side = "source" THEN Cardinality(Of(o, scope)) ELSE 0
\* Mutant: a count is not cut to the limit of the query.
Counted_Unlimited(o, side, fails) ==
  LET n == Cardinality(Matching(CountQuery(QueryFor(o, side)), side))
  IN  CASE ~IsCountedByQuery(o, side) -> Uncounted(o, side)
        [] IsCountedByQuery(o, side) /\ fails -> script.query[o].limit
        [] OTHER -> n

\* A count is cut to the limit of the query; when it fails, the limit stands for it.
Counted(o, side, fails) ==
  LET n == Cardinality(Matching(CountQuery(QueryFor(o, side)), side))
      limit == script.query[o].limit
  IN  CASE ~IsCountedByQuery(o, side) -> Uncounted(o, side)
        [] IsCountedByQuery(o, side) /\ fails -> limit
        [] OTHER -> AtMost(n, limit)

CountRecords ==
  /\ pass = 0
  /\ \E fails \in SUBSET {side \in Sides : IsCountedByQuery(Task, side)} :
       /\ counts' = [counts EXCEPT ![Task] = [side \in Sides |-> Counted(Task, side, side \in fails)]]
       /\ failed' = failed \cup {Task} \X fails
  /\ NextTask /\ UNCHANGED <<source, target, cache, first>>

-----------------------------------------------------------------------------
\* The tasks of a pass

Register(rows) ==
  /\ source' = source \cup rows
  /\ first' = [r \in Rows |-> IF r \in rows \ source THEN pass ELSE first[r]]
Asked(o) == cache \cup {<<o, v[1], v[2]>> : v \in NewValues(o)}

HasNoSource(o) == script.operation[o] = "Delete"
HasNoTarget(o) ==
  script.operation[o] \in {"Delete", "DeleteSource", "Insert"} \/ ~CanQueryTarget(o)

\* The rows of a file; the query of the object does not apply to it, its filter does.
FileRows(o) == {r \in Of(o, scope) : o \in script.filters \ script.badFilters => r \in script.kept}
\* What the first query of a task brings, and the records it refers to itself
RetrieveSource(o, found) ==
  \E rows \in found :
    \E more \in Results(SelfReferences(o, source \cup rows), "source") : Register(rows \cup more)

RetrieveCsv ==
  /\ Mode = "forwards" /\ Task \in script.csv /\ ~HasNoSource(Task)
  /\ RetrieveSource(Task, {FileRows(Task)})
  /\ NextTask /\ UNCHANGED <<counts, failed, target, cache>>

RetrieveAll ==
  /\ Mode = "forwards" /\ Task \notin script.csv /\ ProcessAllSource(Task) /\ ~HasNoSource(Task)
  /\ RetrieveSource(Task, Results(<<SourceQuery(Task)>>, "source"))
  /\ NextTask /\ UNCHANGED <<counts, failed, target, cache>>

RetrieveFiltered ==
  /\ Mode # "target" /\ ~ProcessAllSource(Task) /\ ~HasNoSource(Task)
  /\ ~(Mode = "forwards" /\ Task \in script.csv)
  /\ RetrieveSource(Task, Results(InQueries(Task, NewValues(Task), "source"), "source"))
  /\ cache' = Asked(Task)
  /\ NextTask /\ UNCHANGED <<counts, failed, target>>

\* Deleting by hierarchy never reads the target in full.
FullTarget(o) == ProcessAllTarget(o) /\ script.operation[o] # "DeleteHierarchy"
RetrieveTarget ==
  /\ Mode = "target" /\ ~HasNoTarget(Task)
  /\ LET full == FullTarget(Task)
         queries == IF full THEN <<TargetQuery(Task)>> ELSE InQueries(Task, NewValues(Task), "target")
     IN /\ \E rows \in Results(queries, "target") : target' = target \cup rows
        /\ cache' = IF full THEN cache ELSE Asked(Task)
  /\ NextTask /\ UNCHANGED <<counts, failed, source, first>>

SkipTask ==
  /\ IF Mode = "target" THEN HasNoTarget(Task)
     ELSE HasNoSource(Task) \/ (ProcessAllSource(Task) /\ Mode # "forwards")
  /\ NextTask /\ UNCHANGED <<counts, failed, source, target, cache, first>>

\* The data are retrieved; the update passes come next.
Retrieved == Done /\ UNCHANGED vars

Next ==
  \/ CountRecords
  \/ /\ pass > 0 /\ ~Done
     /\ RetrieveCsv \/ RetrieveAll \/ RetrieveFiltered \/ RetrieveTarget \/ SkipTask
  \/ Retrieved
Spec == Init /\ [][Next]_vars

-----------------------------------------------------------------------------
\* Properties

Neighbours(rows) == {r \in source : \E q \in rows : <<r, q>> \in link \/ <<q, r>> \in link}
Required[n \in 0..Cardinality(Rows)] ==
  IF n = 0 THEN {r \in source : ProcessAllSource(ObjectOf[r]) \/ ObjectOf[r] \in script.csv}
  ELSE Required[n - 1] \cup Neighbours(Required[n - 1])

\* Nothing is read that no relationship requires (ScriptObject.master: false): through
\* retrieved rows, every retrieved row is linked with one of an object read in full.
OnlyRequired == source \subseteq Required[Cardinality(Rows)]

\* Rows their queries would bring, were they asked for
Unlimited(o) == script.query[o].limit = 0
IsWanted(r) ==
  LET o == ObjectOf[r]
  IN /\ ~HasNoSource(o) /\ Unlimited(o)
     /\ r \in Matching(SourceQuery(o), "source") /\ (o \in script.csv => r \in FileRows(o))

\* The two reversed passes bring the parents and the grandparents, if they match
\* their queries, of every row that was read before them; the job can then link those.
TwoLevelsOfParents ==
  Done => \A l \in link :
    (first[l[1]] \in 1..3 /\ IsWanted(l[2])) =>
      /\ l[2] \in source
      /\ \A k \in link : (k[1] = l[2] /\ IsWanted(k[2])) => k[2] \in source

\* The backward passes bring the children of a row read by the first or second pass,
\* if their object comes later and the lookup may be used in an IN clause.
ChildrenRetrieved ==
  Done => \A l \in link :
    (/\ first[l[2]] \in 1..2 /\ IsWanted(l[1])
     /\ IndexOf(ObjectOf[l[2]]) < IndexOf(ObjectOf[l[1]]) /\ ObjectOf[l[2]] \notin script.special
     /\ MayNarrow(<<ObjectOf[l[1]], ObjectOf[l[2]]>>)) => l[1] \in source

\* With both, what a migrated record is linked with is migrated as well.
RelativesRetrieved == TwoLevelsOfParents /\ ChildrenRetrieved

\* The target query asks for all records, or for those of the filter.
IgnoresFilter(o) == script.operation[o] = "DeleteHierarchy" \/ o \in script.allTarget

\* Whichever way the target is read, in full where it is small or by external ids in as
\* many queries as they need, every target record that matches the filter and has the
\* external id of a retrieved source record is found: otherwise the job misses what it has
\* to update or delete, and inserts it again.  Three cases are excepted: under a LIMIT, which
\* is applied to the target as well, not all rows are found; rows matched by Id that are
\* deleted by hierarchy may have been asked for in the source already; and for an external id
\* that is composite, of a parent or a lookup nothing is asked at all, so that such rows are
\* found only where the target is read in full: by hierarchy none of them is deleted.
TargetComplete ==
  Done => \A r \in source \cap InTarget : LET o == ObjectOf[r] IN
    (/\ ~HasNoTarget(o)
     /\ IgnoresFilter(o) \/ (Unlimited(o) /\ r \in TargetScope)
     /\ ~(o \in script.byId /\ script.operation[o] = "DeleteHierarchy")
     /\ KeyIsSimple(o) \/ FullTarget(o)) => r \in target

\* The counts tell what is read: exactly for an object read in full, whatever its filters and
\* its limit, and never too few for one read through lookups, unless the count failed.
CountsRight ==
  Done => \A o \in Objects :
    /\ (o \notin script.csv /\ ~HasNoSource(o) /\ <<o, "source">> \notin failed) =>
         LET n == Cardinality(Of(o, source)) count == counts[o]["source"]
         IN IF ProcessAllSource(o) THEN n = count ELSE Unlimited(o) => n <= count
    /\ (~HasNoTarget(o) /\ <<o, "target">> \notin failed /\ ~IgnoresFilter(o)) =>
         LET n == Cardinality(Of(o, target)) count == counts[o]["target"]
         IN IF ProcessAllTarget(o) THEN n = count ELSE Unlimited(o) => n <= count
=============================================================================
