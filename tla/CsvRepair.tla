------------------------------- MODULE CsvRepair -------------------------------
(***************************************************************************)
(* MigrationJob.processCsvAsync: the CSV files a user supplies are         *)
(* validated, repaired in a cache (column names, Ids, the two columns of   *)
(* every lookup, missing parents) and written to the source directory,     *)
(* where the job reads them in the tool's internal format.                 *)
(*                                                                         *)
(* A file is a sequence of rows, a row a function from columns to values.  *)
(* The cached file is an ordered map, as the Map of the code: a row put    *)
(* under a key that is there replaces the row of that key.                 *)
(***************************************************************************)
EXTENDS Integers, Sequences, FiniteSets, SequencesExt, TLC

CONSTANTS
  Tasks,         \* the objects with a task, in the order of the query tasks
  Lookups,       \* Lookups[o]: its writable lookups, each a record
                 \*   [id, ref, back: columns, parent: object, legacy: columns]
  KeyColumn,     \* KeyColumn[o]: the column of its external id ...
  KeyParts,      \* ... and the columns it was once made of
  QueryColumns,  \* QueryColumns[o]: the fields of its query
  Required,      \* Required[o]: its fields to update
  Trimmed,       \* Trimmed[s]: s without surrounding blanks, where that differs
  Lowered,       \* Lowered[c]: a column name whatever its case, where that differs
  Dotted,        \* Dotted[c]: the parts of a column name with dots
  UserOrGroup,   \* UserOrGroup[id]: what the prefix of an Id says
  Jobs           \* the scripts and files considered: see IsJob

Null == "null"
Combined == "UserAndGroup"                 \* USER_AND_GROUP_FILENAME
Objects == ToSet(Tasks)

IsJob(j) ==
  /\ DOMAIN j.raw \subseteq Objects \cup {Combined}         \* the files there are
  /\ \A o \in DOMAIN j.raw : j.raw[o].idFirst \in BOOLEAN   \* Id is the first column
  /\ j.csv \in SUBSET Objects \ {{}}                        \* objects read from files
  /\ {j.excludeIds, j.asIs, j.validateOnly, j.prompt} \subseteq BOOLEAN

ASSUME JobAssumption == \A j \in Jobs : IsJob(j)
ASSUME LookupAssumption ==
  \A o \in Objects : \A i \in DOMAIN Lookups[o] : Lookups[o][i].parent \in Objects

VARIABLES
  job,      \* script and raw files: fixed, but for the files split off UserAndGroup
  source,   \* source[o]: the file in the source directory, if there is one
  work,     \* [cache, updated, ids, issues]: cachedCsvContent and csvIssues
  phase,
  todo,     \* tasks the phase has left
  report,   \* the issues in the report file
  prompted  \* the user has been asked about issues

vars == <<job, source, work, phase, todo, report, prompted>>

-----------------------------------------------------------------------------
(* Rows and ordered maps.                                                  *)

Map(f, x) == IF x \in DOMAIN f THEN f[x] ELSE x
Trim(s) == Map(Trimmed, s)
Lower(c) == Map(Lowered, c)
Has(row, c) == c \in DOMAIN row
Value(row, c) == IF Has(row, c) THEN row[c] ELSE Null
Blank(v) == v \in {Null, ""}
With(row, c, v) == [x \in DOMAIN row \cup {c} |-> IF x = c THEN v ELSE row[x]]
Without(row, cs) == [x \in DOMAIN row \ cs |-> row[x]]

Put(entries, key, row) ==
  IF \E i \in DOMAIN entries : entries[i].key = key
    THEN [i \in DOMAIN entries |-> IF entries[i].key = key THEN [key |-> key, row |-> row] ELSE entries[i]]
    ELSE Append(entries, [key |-> key, row |-> row])
RowsOf(entries) == [i \in DOMAIN entries |-> entries[i].row]
MapRows(entries, F(_)) == [i \in DOMAIN entries |-> [entries[i] EXCEPT !.row = F(@)]]

\* makeId: a random name, here one that is used nowhere else.
Random(o, i) == "R" \o o \o ToString(i)
\* nextId: numbered, whatever the files hold.
NextId(n) == "ID" \o ToString(n)

\* A file in the cache: rows by their Id; a row without one by a random key.
Loaded(o, rows) ==
  FoldLeft(LAMBDA es, i : Put(es, IF Value(rows[i], "Id") = Null THEN Random(o, i) ELSE rows[i]["Id"], rows[i]),
           <<>>, [i \in DOMAIN rows |-> i])

IsCached(st, o) == o \in DOMAIN st.cache
Cached(st, o) == IF IsCached(st, o) THEN st.cache[o] ELSE <<>>
WithFile(st, o, entries) == [st EXCEPT !.cache = With(@, o, entries)]
Changed(st, o) == [st EXCEPT !.updated = @ \cup {o}]
\* A new content, marked as updated if it was touched; or if it is one.
Stored(st, o, entries, touched) == IF touched THEN Changed(WithFile(st, o, entries), o) ELSE st
\* Mutant: a new content is not marked.
Rewritten_Unmarked(st, o, entries) == WithFile(st, o, entries)
Rewritten(st, o, entries) == Stored(st, o, entries, entries # st.cache[o])

-----------------------------------------------------------------------------
(* Validation of the header.                                               *)

Matches(field, column) == \/ Lower(Trim(column)) = Lower(Trim(field))
                          \/ column \in DOMAIN Dotted /\ field \in Dotted[column]
HasColumn(o, field) == \E c \in DOMAIN job.raw[o].rows[1] : Matches(field, c)
IdFields(o) == {Lookups[o][i].id : i \in DOMAIN Lookups[o]} \cup {"Id"}

MissingColumns(o) ==
  LET required == Required[o] \cup IF job.excludeIds THEN {} ELSE {"Id"}
      paired == {Lookups[o][i].id : i \in {i \in DOMAIN Lookups[o] : HasColumn(o, Lookups[o][i].ref)}}
      optional == IF job.excludeIds THEN IdFields(o) ELSE {}
  IN  {f \in (required \cup paired) \ optional : ~HasColumn(o, f)}

Issue(o, field, what) == [object |-> o, field |-> field, what |-> what]
HeaderIssues(o) ==
  CASE o \notin DOMAIN job.raw -> IF job.excludeIds THEN {} ELSE {Issue(o, Null, "missing file")}
    [] o \in DOMAIN job.raw /\ job.raw[o].rows = <<>> -> {}
    [] OTHER -> {Issue(o, f, "missing column") : f \in MissingColumns(o)}

-----------------------------------------------------------------------------
(* First pass: column names and Ids.                                       *)

CanonicalName(o, c) ==
  IF \E q \in QueryColumns[o] : Lower(q) = Lower(c)
    THEN CHOOSE q \in QueryColumns[o] : Lower(q) = Lower(c) ELSE c
\* A column whose name has blanks takes the place of one that is there under the bare name.
TrimmedNames(row) ==
  LET Padded(n) == {c \in DOMAIN row : Trim(c) = n /\ c # n}
  IN  [n \in {Trim(c) : c \in DOMAIN row} |->
         IF Padded(n) = {} THEN row[n] ELSE row[CHOOSE c \in Padded(n) : TRUE]]
\* One in another case is dropped if there is one under the name of the query.
CanonicalNames(o, row) ==
  [n \in {CanonicalName(o, c) : c \in DOMAIN row} |->
     IF Has(row, n) THEN row[n] ELSE row[CHOOSE c \in DOMAIN row : CanonicalName(o, c) = n]]

\* A file without the column Id gets the keys of the cache as Ids.
WithIds(entries) ==
  IF entries = <<>> \/ Has(entries[1].row, "Id") THEN entries
  ELSE [i \in DOMAIN entries |-> [entries[i] EXCEPT !.row = With(@, "Id", entries[i].key)]]

ColumnsRepaired(o, entries) ==
  WithIds(MapRows(entries, LAMBDA row : CanonicalNames(o, TrimmedNames(row))))

-----------------------------------------------------------------------------
(* Second pass: lookups.                                                   *)

\* A composed external id: its parts, without the empty ones.
Composed(row, parts) ==
  LET filled == SelectSeq(parts, LAMBDA c : ~Blank(Value(row, c)))
  IN  FoldLeft(LAMBDA acc, c : IF acc = "" THEN row[c] ELSE acc \o ";" \o row[c], "", filled)
HasLegacy(row, l) == \E i \in DOMAIN l.legacy : Has(row, l.legacy[i])

\* Record types: the columns of earlier versions are put together.
RecordTypeLookup(o) == {i \in DOMAIN Lookups[o] : Lookups[o][i].parent = "RecordType"}
RecordTypeField(o) == Lookups[o][CHOOSE i \in RecordTypeLookup(o) : TRUE]
NeedsRecordType(o, row) ==
  IF o = "RecordType" THEN ~Has(row, KeyColumn[o])
  ELSE RecordTypeLookup(o) # {} /\ HasLegacy(row, RecordTypeField(o))
RecordTypeFixed(o, row) ==
  CASE ~NeedsRecordType(o, row) -> row
    [] NeedsRecordType(o, row) /\ o # "RecordType" ->
         LET l == RecordTypeField(o)
             value == Composed(row, l.legacy)
             left == Without(row, ToSet(l.legacy) \ {l.ref})
         IN  IF value = "" THEN left ELSE With(left, l.ref, value)
    [] OTHER ->
         With(Without(row, {c \in ToSet(KeyParts[o]) : ~Blank(Value(row, c))}),
              KeyColumn[o], Composed(row, KeyParts[o]))

\* The last row with this external id; the row of this Id, by key or by value.  0: none.
LastWith(entries, column, v) ==
  LET found == {i \in DOMAIN entries : Value(entries[i].row, column) = v}
  IN  IF found = {} THEN 0 ELSE CHOOSE i \in found : \A j \in found : j <= i
FindById(entries, v) ==
  LET byKey == {i \in DOMAIN entries : entries[i].key = v}
      byValue == {i \in DOMAIN entries : Value(entries[i].row, "Id") = v}
      First(S) == IF S = {} THEN 0 ELSE CHOOSE i \in S : \A j \in S : i <= j
  IN  IF byKey # {} THEN First(byKey) ELSE First(byValue)

SetRow(st, o, p, row) == Changed([st EXCEPT !.cache[o][p].row = row], o)
AddIssue(st, issue) == [st EXCEPT !.issues = Append(@, issue)]
AddParent(st, l, id, key) ==
  LET parent == [c \in {"Id", KeyColumn[l.parent]} |-> IF c = "Id" THEN id ELSE key]
  IN  Changed(WithFile(st, l.parent, Put(st.cache[l.parent], id, parent)), l.parent)

\* Both columns: the Id wins, if there is a parent with it; then the reference.
ResolveConflict(st, o, l, p) ==
  LET row == st.cache[o][p].row
      parents == st.cache[l.parent]
      id == Value(row, l.id)
      ref == Value(row, l.ref)
      byId == FindById(parents, id)
      byRef == LastWith(parents, KeyColumn[l.parent], ref)
      right == IF byId # 0 THEN Value(parents[byId].row, KeyColumn[l.parent])
               ELSE IF byRef # 0 THEN Value(parents[byRef].row, "Id") ELSE Null
  IN  CASE Blank(id) \/ Blank(ref) -> st
        [] ~(Blank(id) \/ Blank(ref)) /\ byId = 0 /\ byRef = 0 -> AddIssue(st, Issue(o, l.id, "conflict"))
        [] ~(Blank(id) \/ Blank(ref)) /\ byId # 0 ->
             IF Blank(right) \/ right = ref THEN st ELSE SetRow(st, o, p, With(row, l.ref, right))
        [] OTHER -> IF Blank(right) \/ right = id THEN st ELSE SetRow(st, o, p, With(row, l.id, right))

\* Only the reference: the Id of the parent, which is made up when Ids are excluded.
MissingId(st, o, l, p) ==
  LET old == st.cache[o][p].row
      legacy == Len(l.legacy) > 1 /\ ~Has(old, l.ref) /\ HasLegacy(old, l)
      row == IF legacy THEN With(Without(old, ToSet(l.legacy)), l.ref, Composed(old, l.legacy)) ELSE old
      ref == Value(row, l.ref)
      parent == LastWith(st.cache[l.parent], KeyColumn[l.parent], ref)
      parentId == IF parent = 0 THEN Null ELSE Value(st.cache[l.parent][parent].row, "Id")
      Take(n) == [st EXCEPT !.ids = @ + n]
  IN  CASE ~Has(row, l.ref) /\ job.excludeIds ->
             SetRow(Take(2), o, p, With(With(row, l.id, NextId(st.ids)), l.ref, NextId(st.ids + 1)))
        [] ~Has(row, l.ref) /\ ~job.excludeIds -> SetRow(st, o, p, With(With(row, l.id, Null), l.ref, Null))
        [] Has(row, l.ref) /\ (Blank(ref) \/ ~job.excludeIds \/ (parent = 0 /\ l.parent = o)) ->
             SetRow(st, o, p, With(row, l.id, Null))
        [] OTHER ->
             IF parent # 0 /\ ~Blank(parentId) THEN SetRow(st, o, p, With(row, l.id, parentId))
             ELSE LET numbered == SetRow(Take(1), o, p, With(row, l.id, NextId(st.ids)))
                  IN  IF parent # 0 THEN numbered ELSE AddParent(numbered, l, NextId(st.ids), ref)

\* Only the Id: the external id of the parent.
MissingRef(st, o, l, p) ==
  LET row == st.cache[o][p].row
      id == Value(row, l.id)
      parent == FindById(st.cache[l.parent], id)
      lost == IF job.excludeIds THEN st ELSE AddIssue(st, Issue(o, l.id, "missing parent"))
  IN  CASE Blank(id) -> SetRow(st, o, p, With(row, l.ref, Null))
        [] ~Blank(id) /\ parent # 0 ->
             SetRow(st, o, p, With(row, l.ref, Value(st.cache[l.parent][parent].row, KeyColumn[l.parent])))
        [] ~Blank(id) /\ parent = 0 /\ job.excludeIds /\ l.parent # o ->
             AddParent(SetRow([st EXCEPT !.ids = @ + 1], o, p, With(row, l.ref, NextId(st.ids))),
                       l, id, NextId(st.ids))
        [] OTHER -> SetRow(lost, o, p, With(row, l.ref, Null))

\* Mutant: only rows whose reference is missing are completed.
LookupRepaired_RefOnly(st, o, l, p) ==
  LET row == st.cache[o][p].row
  IN  IF ~Has(row, l.ref) THEN MissingRef(st, o, l, p) ELSE st

LookupRepaired(st, o, l, p) ==
  LET row == st.cache[o][p].row
  IN  CASE Has(row, l.id) /\ Has(row, l.ref) -> ResolveConflict(st, o, l, p)
        [] ~Has(row, l.id) -> MissingId(st, o, l, p)
        [] OTHER -> MissingRef(st, o, l, p)

\* A parent that is not read from a file has no row, and what is added to it is lost.
LookupsRepaired(st, o) ==
  FoldLeft(LAMBDA s, i :
             LET l == Lookups[o][i]
                 ready == IF l.parent \in job.csv /\ IsCached(s, l.parent) THEN s ELSE WithFile(s, l.parent, <<>>)
             IN  FoldLeft(LAMBDA t, p : LookupRepaired(t, o, l, p), ready, [p \in DOMAIN s.cache[o] |-> p]),
           st, [i \in DOMAIN Lookups[o] |-> i])

\* With Ids excluded, children get the Ids of this file for their references to it.
ChildrenUpdated(st, o) ==
  LET links == UNION {{c} \X {l \in ToSet(Lookups[c]) : l.parent = o} : c \in job.csv}
      Update(s, link) ==
        LET l == link[2]
            children == Cached(s, link[1])
            ParentId(row) ==
              LET parent == IF Blank(Value(row, l.ref)) THEN 0 ELSE LastWith(s.cache[o], KeyColumn[o], row[l.ref])
              IN  IF parent = 0 THEN Null ELSE Value(s.cache[o][parent].row, "Id")
            Linked(row) ==
              IF Blank(ParentId(row)) THEN row ELSE With(With(row, l.id, ParentId(row)), l.back, ParentId(row))
        IN  IF children = <<>> \/ ~Has(children[1].row, l.ref) THEN s
            ELSE Stored(s, link[1], MapRows(children, Linked), \E i \in DOMAIN children : ~Blank(ParentId(children[i].row)))
  IN  IF job.excludeIds /\ KeyColumn[o] # "Id" THEN FoldLeft(Update, st, SetToSeq(links)) ELSE st

\* Columns nobody queries leave the file.
OnlyQueried(o, row) ==
  Without(row, {c \in DOMAIN row : \A q \in QueryColumns[o] : Lower(q) # Lower(c)})

FileRepaired(st, o) ==
  LET typed == Stored(st, o, MapRows(st.cache[o], LAMBDA row : RecordTypeFixed(o, row)),
                      \E i \in DOMAIN st.cache[o] : NeedsRecordType(o, st.cache[o][i].row))
      linked == LookupsRepaired(typed, o)
  IN  Rewritten(linked, o, MapRows(linked.cache[o], LAMBDA row : OnlyQueried(o, row)))

-----------------------------------------------------------------------------
(* Last pass: every row gets an Id of its own.                             *)

IdsRepaired(o, entries) ==
  LET NewId(used, i, row) ==
        LET id == Trim(Value(row, "Id"))
        IN  IF Blank(id) \/ id \in used THEN Random(o, 100 + i) ELSE id
      Step(acc, i) ==
        LET id == NewId(acc.used, i, entries[i].row)
        IN  [used |-> acc.used \cup {id}, rows |-> Append(acc.rows, [entries[i] EXCEPT !.row = With(@, "Id", id)])]
  IN  FoldLeft(Step, [used |-> {}, rows |-> <<>>], [i \in DOMAIN entries |-> i]).rows

-----------------------------------------------------------------------------
(* The stage.                                                              *)

GoTo(next) == phase' = next /\ todo' = job.csv
NoFile == [format |-> "none", rows |-> <<>>]
File(format, rows) == [format |-> format, rows |-> rows]
NextTask == CHOOSE o \in todo : \A d \in todo :
              (CHOOSE i \in DOMAIN Tasks : Tasks[i] = o) <= (CHOOSE i \in DOMAIN Tasks : Tasks[i] = d)

\* User and Group may come from one file, told apart by the prefix of the Id.
SplitOff ==
  LET needed == (job.csv \cap {"User", "Group"}) \ DOMAIN job.raw
      From(o) == SelectSeq(job.raw[Combined].rows,
                   LAMBDA row : Map(UserOrGroup, Trim(Value(row, "Id"))) = o)
  IN  IF Combined \in DOMAIN job.raw /\ job.raw[Combined].rows # <<>>
        THEN [o \in DOMAIN job.raw \cup needed |->
                IF o \in needed THEN [rows |-> From(o), idFirst |-> job.raw[Combined].idFirst] ELSE job.raw[o]]
        ELSE job.raw

PrepareUserAndGroup ==
  /\ phase = "start"
  /\ job' = [job EXCEPT !.raw = SplitOff]
  /\ source' = [o \in Objects |-> NoFile]
  /\ GoTo(IF job.asIs THEN "copy" ELSE "validate")
  /\ UNCHANGED <<work, report, prompted>>

\* importCSVFilesAsIs, all files at once: rewritten in the internal format.
CopyAsIs(o) ==
  /\ phase = "copy" /\ o \in todo
  /\ source' = [source EXCEPT ![o] = File("internal", IF o \in DOMAIN job.raw THEN job.raw[o].rows ELSE <<>>)]
  /\ todo' = todo \ {o}
  /\ phase' = IF todo' = {} THEN "done" ELSE phase
  /\ UNCHANGED <<job, work, report, prompted>>

Validate(o) ==
  /\ phase = "validate" /\ o \in todo
  /\ work' = [work EXCEPT !.issues = @ \o SetToSeq(HeaderIssues(o))]
  /\ source' = IF o \in DOMAIN job.raw THEN source ELSE [source EXCEPT ![o] = File("internal", <<>>)]
  /\ IF todo = {o} THEN GoTo("ask") ELSE todo' = todo \ {o} /\ UNCHANGED phase
  /\ UNCHANGED <<job, report, prompted>>

\* _promptToAbortCsvIssuesAsync: the report is written before an abort, or without a prompt.
PromptToAbort(next) ==
  \/ ~job.prompt /\ report' = ToSet(work.issues) /\ GoTo(next)
  \/ job.prompt /\ report' = ToSet(work.issues) /\ phase' = "aborted" /\ UNCHANGED todo
  \/ job.prompt /\ UNCHANGED report /\ GoTo(next)

Ask ==
  /\ phase = "ask"
  /\ IF work.issues # <<>> /\ ~job.validateOnly
       THEN PromptToAbort("columns") /\ prompted' = TRUE
       ELSE GoTo("columns") /\ UNCHANGED <<report, prompted>>
  /\ UNCHANGED <<job, source, work>>

Advance(next) == IF todo = {NextTask} THEN GoTo(next) ELSE todo' = todo \ {NextTask} /\ UNCHANGED phase

RepairColumns ==
  /\ phase = "columns"
  /\ LET o == NextTask
         loaded == WithFile(work, o, Loaded(o, job.raw[o].rows))
     IN  work' = IF o \in DOMAIN job.raw THEN Rewritten(loaded, o, ColumnsRepaired(o, loaded.cache[o])) ELSE work
  /\ Advance("lookups")
  /\ UNCHANGED <<job, source, report, prompted>>

RepairLookups ==
  /\ phase = "lookups"
  /\ work' = IF Cached(work, NextTask) = <<>> THEN work ELSE FileRepaired(ChildrenUpdated(work, NextTask), NextTask)
  /\ Advance("ids")
  /\ UNCHANGED <<job, source, report, prompted>>

RepairIds ==
  /\ phase = "ids"
  /\ work' = IF Cached(work, NextTask) = <<>> THEN work
             ELSE Rewritten(work, NextTask, IdsRepaired(NextTask, work.cache[NextTask]))
  /\ Advance("save")
  /\ UNCHANGED <<job, source, report, prompted>>

\* The columns of the first row are those of the file.
Written(entries) ==
  [i \in DOMAIN entries |-> [c \in DOMAIN entries[1].row |-> Value(entries[i].row, c)]]

\* A cached file is written if anything changed, the order of its columns included, or
\* if there is no raw file; otherwise the raw file is copied as it is.
Save ==
  /\ phase = "save"
  /\ LET o == NextTask
         exists == o \in DOMAIN job.raw
         entries == work.cache[o]
         reordered == exists /\ entries # <<>> /\ ~job.raw[o].idFirst
     IN  source' = CASE ~IsCached(work, o) -> source
                     [] IsCached(work, o) /\ (o \in work.updated \/ reordered \/ ~exists) ->
                          [source EXCEPT ![o] = File("internal", Written(entries))]
                     [] OTHER -> [source EXCEPT ![o] = File("raw", job.raw[o].rows)]
  /\ Advance("report")
  /\ UNCHANGED <<job, work, report, prompted>>

Report ==
  /\ phase = "report"
  /\ CASE work.issues = <<>> -> phase' = "done" /\ UNCHANGED <<report, todo>>
       [] work.issues # <<>> /\ (job.validateOnly \/ prompted) ->
            report' = ToSet(work.issues) /\ phase' = "done" /\ UNCHANGED todo
       [] OTHER -> PromptToAbort("done")
  /\ UNCHANGED <<job, source, work, prompted>>

Init ==
  /\ job \in Jobs
  /\ source = [o \in Objects |-> NoFile]
  /\ work = [cache |-> <<>>, updated |-> {}, ids |-> 1, issues |-> <<>>]
  /\ phase = "start" /\ todo = {} /\ report = {} /\ prompted = FALSE

Next ==
  \/ PrepareUserAndGroup
  \/ \E o \in Objects : CopyAsIs(o) \/ Validate(o)
  \/ Ask \/ RepairColumns \/ RepairLookups \/ RepairIds \/ Save \/ Report

Spec == Init /\ [][Next]_vars

-----------------------------------------------------------------------------
Repaired == phase = "done" /\ ~job.asIs
FilesOf(o) == source[o].rows

\* The Ids a user gives tell the rows of a file apart.
DistinctIds(o) ==
  o \in DOMAIN job.raw =>
    \A i, j \in DOMAIN job.raw[o].rows :
      i # j => LET a == Value(job.raw[o].rows[i], "Id")
                   b == Value(job.raw[o].rows[j], "Id") IN a = Null \/ a # b

\* They are neither blank nor surrounded by blanks, if there are any.
CleanIds(o) ==
  o \in DOMAIN job.raw =>
    \A i \in DOMAIN job.raw[o].rows : \A h \in DOMAIN job.raw[o].rows[i] :
      LET v == job.raw[o].rows[i][h] IN
      CanonicalName(o, Trim(h)) = "Id" => ~Blank(v) /\ Trim(v) = v

LinkColumns(o) == UNION {{l.id, l.ref, l.back} \cup ToSet(l.legacy) : l \in ToSet(Lookups[o])}
PlainColumns(o) == (QueryColumns[o] \ LinkColumns(o)) \ ({"Id"} \cup {KeyColumn[o]})

NothingDropped ==
  Repaired =>
    \A o \in job.csv \cap DOMAIN job.raw : DistinctIds(o) =>
      /\ Len(FilesOf(o)) >= Len(job.raw[o].rows)
      /\ \A i \in DOMAIN job.raw[o].rows : \A h \in DOMAIN job.raw[o].rows[i] :
           LET c == CanonicalName(o, Trim(h))
               same == {k \in DOMAIN job.raw[o].rows[i] : CanonicalName(o, Trim(k)) = c} IN
           c \in PlainColumns(o) => FilesOf(o)[i][c] \in {job.raw[o].rows[i][k] : k \in same}

IdsUnique ==
  Repaired =>
    \A o \in job.csv : DistinctIds(o) => \A i, j \in DOMAIN FilesOf(o) :
      /\ Has(FilesOf(o)[i], "Id") /\ ~Blank(FilesOf(o)[i]["Id"])
      /\ FilesOf(o)[i]["Id"] = FilesOf(o)[j]["Id"] => i = j

LookupsAgree ==
  Repaired =>
    \A o \in job.csv \cap DOMAIN job.raw : \A i \in DOMAIN job.raw[o].rows : \A l \in ToSet(Lookups[o]) :
      LET given == DOMAIN job.raw[o].rows[i]
          row == FilesOf(o)[i]
          Parents(column, v) == {p \in DOMAIN FilesOf(l.parent) : Value(FilesOf(l.parent)[p], column) = v}
      IN  /\ DistinctIds(o) /\ DistinctIds(l.parent) /\ CleanIds(l.parent) /\ l.parent \in job.csv
          /\ given \cap ({l.id, l.ref} \cup ToSet(l.legacy)) # {}
          => /\ {l.id, l.ref} \subseteq DOMAIN row
             /\ ~Blank(row[l.id]) /\ ~Blank(row[l.ref]) =>
                  \/ Parents("Id", row[l.id]) \cap Parents(KeyColumn[l.parent], row[l.ref]) # {}
                  \/ Issue(o, l.id, "conflict") \in ToSet(work.issues)

\* Every row of a repaired file has an Id, and no two rows have the same; and both
\* columns of a lookup of a user's row lead to one row of the parent's file, or a
\* conflict is reported: whichever column was missing, and whichever row had to be
\* added.  (A row that has neither column gets two Ids that lead nowhere.)
RowsAreLinked == IdsUnique /\ LookupsAgree

CacheIsSaved ==
  Repaired => \A o \in job.csv : IsCached(work, o) /\ DistinctIds(o) => FilesOf(o) = Written(work.cache[o])

\* No row of a user's file and no value of a queried column is lost or changes its row on
\* the way through the cache, whatever is renamed, added, removed or numbered, rows that
\* have one Id excepted, and of columns that come to one name all but one; and the job
\* reads what was repaired: no repair is left behind in the cache, no raw file takes the
\* place of a repaired one.
RowsKept == NothingDropped /\ CacheIsSaved

=============================================================================
