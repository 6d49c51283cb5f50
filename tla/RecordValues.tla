---------------------------- MODULE RecordValues ----------------------------
(***************************************************************************)
(* What a task of a migration job does to the values of the records it is  *)
(* about to write: mocking (MigrationJobTask._applyMocking, MockGenerator),*)
(* truncation (_truncateRecords) and value mapping (_applyValueMapping).   *)
(*                                                                         *)
(* A record is a function from field names to values.  A regular           *)
(* expression is the set of values it matches.                             *)
(***************************************************************************)
EXTENDS Naturals, Sequences, TLC, SequencesExt

CONSTANTS
  Null,      \* null, and what is not there
  All,       \* the field name that stands for all fields in a mock pattern
  Yes, No,   \* the booleans
  Counted,   \* what c_seq_number makes of the numbers 1, 2, ...
  Cut,       \* value -> its start, of the length of its field
  Unknown,   \* <<expression, raw value>> -> how many unknown words the code holds
  Result,    \* <<expression, raw value>> -> what the code gives with these in quotes
  Trimmed    \* value -> the value without white space around it

Value(r, f) == IF f \in DOMAIN r THEN r[f] ELSE Null
Text(v) == CASE v = Null -> "" [] v = Yes -> "true" [] v = No -> "false" [] OTHER -> v
Falsy == {Null, "", No}

-----------------------------------------------------------------------------
\* Mocking: a mock field is [name, fn, value, excluded, included, excludedRow, includedRow,
\* but].  Without an included expression, included holds every value.

PatternOf(mocks, f) ==
  SelectSeq(mocks, LAMBDA k : k.name \in {f, All} /\ f \notin k.but)

\* The mock field of each field to mock: the first pattern for it, if the first record has
\* that column and it is not one of the task's own.
MockFields(mocks, fields, columns, own) ==
  [f \in {g \in fields \cap columns : g \notin own /\ PatternOf(mocks, g) # <<>>} |->
     Head(PatternOf(mocks, f))]

\* A row flag speaks for all fields of the record; that of an excluded value wins.
ToMock(fields, r) ==
  IF \E f \in DOMAIN fields : fields[f].excludedRow /\ Value(r, f) \in fields[f].excluded THEN {}
  ELSE IF \E f \in DOMAIN fields : fields[f].includedRow /\ Value(r, f) \in fields[f].included
       THEN DOMAIN fields
       ELSE {f \in DOMAIN fields : Value(r, f) \in fields[f].included \ fields[f].excluded}

\* The counter of a field runs over the records mocked so far in this call.
Count(fields, records, i, f) ==
  Len(SelectSeq(SubSeq(records, 1, i), LAMBDA r : f \in ToMock(fields, r)))

Mocked(fields, records, i, id, f) ==
  CASE fields[f].fn = "ids" -> id
    [] fields[f].fn = "c_seq_number" -> Counted[Count(fields, records, i, f)]
    [] OTHER -> fields[f].value

\* ids[i] is the Id of the i-th record or, without one, the task's own id for it.
ApplyMocking(mocks, fields, own, ids, records) ==
  IF records = <<>> THEN <<>>
  ELSE LET chosen == MockFields(mocks, fields, DOMAIN records[1], own)
       IN [i \in DOMAIN records |->
             [f \in DOMAIN records[i] |->
                IF f \in ToMock(chosen, records[i])
                THEN Mocked(chosen, records, i, ids[i], f) ELSE records[i][f]]]

-----------------------------------------------------------------------------
\* Truncation of the textual fields

TruncateRecords(allowed, textual, records) ==
  [i \in DOMAIN records |->
     [f \in DOMAIN records[i] |->
        IF allowed /\ f \in textual /\ records[i][f] \in DOMAIN Cut
        THEN Cut[records[i][f]] ELSE records[i][f]]]

-----------------------------------------------------------------------------
\* Value mapping: a table is [exact, patterns].  A mapped value is [code, value]: an
\* expression in eval( ) or a plain text.

Attempts == 5

\* An expression with unknown words is tried again with one more of them in quotes.
Evaluated(raw, mapped) ==
  IF ~mapped.code THEN mapped.value
  ELSE IF Unknown[<<mapped.value, raw>>] < Attempts THEN Result[<<mapped.value, raw>>] ELSE raw

Normal(v) ==
  CASE v \in {"TRUE", "true"} -> Yes
    [] v \in {"FALSE", "false"} -> No
    [] v \in {"null", "NULL", "undefined", "#N/A", Null} -> Null
    [] OTHER -> v

Plainly(v) == [code |-> FALSE, value |-> v]
IsUsed(table, v) == v \in DOMAIN table.exact /\ table.exact[v] # Plainly("")

\* Only the last pattern of a table counts, and only with a text to put in.
Replaced(table, raw) ==
  IF table.patterns = <<>> THEN Null
  ELSE LET p == table.patterns[Len(table.patterns)]
       IN IF p.active /\ raw \in DOMAIN p.replaced THEN p.replaced[raw] ELSE Null

MapValue(table, v) ==
  LET raw  == Trimmed[Text(v)]
      new  == Replaced(table, raw)
      text == IF new \notin Falsy THEN IF IsUsed(table, new) THEN table.exact[new] ELSE Plainly(new)
              ELSE IF IsUsed(table, raw) THEN table.exact[raw] ELSE Plainly(raw)
  IN IF text.code THEN Evaluated(raw, text) ELSE Normal(text.value)

\* The rows of ValueMapping.csv for a field: a later row replaces an earlier one for the
\* same raw value, in the earlier one's place.
AddRow(table, row) ==
  IF row.pattern
  THEN LET at == {i \in DOMAIN table.patterns : table.patterns[i].raw = row.raw}
           p  == [raw |-> row.raw, active |-> row.mapped # Plainly(""), replaced |-> row.replaced]
       IN IF at = {} THEN [table EXCEPT !.patterns = Append(@, p)]
          ELSE [table EXCEPT !.patterns[CHOOSE i \in at : TRUE] = p]
  ELSE [table EXCEPT !.exact = (row.raw :> row.mapped) @@ @]
TableOf(rows, o, f) ==
  FoldLeft(AddRow, [exact |-> <<>>, patterns |-> <<>>],
           SelectSeq(rows, LAMBDA r : r.object = o /\ r.field = f))
IsTable(rows, o, f) == \E i \in DOMAIN rows : rows[i].object = o /\ rows[i].field = f

\* The columns of the first record decide what is mapped, for every record.  lookup[f] is
\* <<the lookup field, external id -> Id>> for a field f of a parent.
MapValuesOf(rows, o, own, lookup, first, r) ==
  LET mapped == {f \in DOMAIN first \ own : IsTable(rows, o, f)}
      new(f) == MapValue(TableOf(rows, o, f), Value(r, f))
      parents == {f \in mapped \cap DOMAIN lookup : new(f) \in DOMAIN lookup[f][2]}
      ids == {lookup[f][1] : f \in parents}
  IN [c \in DOMAIN r \cup mapped \cup ids |->
        IF c \in ids THEN LET f == CHOOSE g \in parents : lookup[g][1] = c IN lookup[f][2][new(f)]
        ELSE IF c \in mapped THEN new(c) ELSE r[c]]
MapValues(rows, o, own, lookup, records) ==
  [i \in DOMAIN records |-> MapValuesOf(rows, o, own, lookup, records[1], records[i])]

=============================================================================
