------------------------------ MODULE CsvValues ------------------------------
(***************************************************************************)
(* The value of one cell on its way through CSV files: from an org to a    *)
(* file (MigrationJobTask._writePlainTargetCsvFileAsync), from the file of *)
(* a user into the cache without types, from there into the source         *)
(* directory in the internal format, and from there into the job by the    *)
(* type of the field (Common.readCsvFileAsync, Common.writeCsvFileAsync).  *)
(*                                                                         *)
(* A text is what matters of it: the word or the numbers it is made of,    *)
(* blanks around it, carriage returns at its end, and special characters.  *)
(***************************************************************************)
EXTENDS Integers, FiniteSets

CONSTANTS
  Types,        \* Types[f]: the type of field f in lower case: csvColumnDataTypeMap
  LowerCase,    \* LowerCase[w]: a word in lower case, where that differs
  Numbers,      \* Numbers[w]: the number a word stands for, if it is one
  Digits,       \* Digits[n]: the word for a number
  Cells         \* the cells considered: see IsCell

NullTokens == {"#n/a", "null", "undefined", "#error!", "#value!"}
TrueTokens == {"1", "true", "yes", "y", "on"}
FalseTokens == {"0", "false", "no", "n", "off"}
NumericTypes == {"int", "integer", "double", "currency", "percent", "long", "number", "decimal"}
Comma == ","                     \* INTERNAL_CSV_FILE_DELIMITER

Word(w) == [is |-> "word", word |-> w]
\* What a user writes: day, month, the digits of the year, and hour, minute, second.
Dots(d, m, y, digits, time) == [is |-> "dots", day |-> d, month |-> m, year |-> y, digits |-> digits, time |-> time]
Iso(y, m, d, time) == [is |-> "iso", year |-> y, month |-> m, day |-> d, time |-> time]
NoTime == <<>>

Text(core, pad, returns, special) == [core |-> core, pad |-> pad, returns |-> returns, special |-> special]
Plain(core) == Text(core, FALSE, FALSE, {})

\* Values of records.
Nothing == [is |-> "null"]
Boolean(b) == [is |-> "boolean", value |-> b]
Number(n) == [is |-> "number", value |-> n]
String(text) == [is |-> "string", value |-> text]

VARIABLES
  cell,     \* [from, given: value or text, column, insertNulls, european, delimiter, quoted, asIs]
  stage,    \* where it is: "org", "raw", "cache", "source", "job"
  line,     \* what the file of stages raw and source holds: text and quotes
  value     \* what a record of the other stages holds

cellVars == <<cell, stage, line, value>>

-----------------------------------------------------------------------------
(* Reading.                                                                *)

The(set) == CHOOSE x \in set : TRUE     \* the member of a set of one
LowerWord(w) == IF w \in DOMAIN LowerCase THEN LowerCase[w] ELSE w
IsBlank(text) == text.core = Word("")
IsNullToken(text) == text.core.is = "word" /\ LowerWord(text.core.word) \in NullTokens

DaysIn(year, month) ==
  CASE month \in {4, 6, 9, 11} -> 30
    [] month = 2 -> IF year % 4 = 0 /\ (year % 100 # 0 \/ year % 400 = 0) THEN 29 ELSE 28
    [] OTHER -> 31

\* Date.UTC carries days a month does not have over into the next one.
Utc(year, month, day) ==
  IF day <= DaysIn(year, month) THEN <<year, month, day>>
  ELSE <<IF month = 12 THEN year + 1 ELSE year, (month % 12) + 1, day - DaysIn(year, month)>>
IsValidDate(year, month, day) ==
  /\ month \in 1..12 /\ day \in 1..31 /\ year >= 1
  /\ Utc(year, month, day) = <<year, month, day>>

FullYear(y) == IF y >= 100 THEN y ELSE IF y <= 69 THEN 2000 + y ELSE 1900 + y

\* The date, if there is one.
EuropeanDate(core) ==
  IF core.time = NoTime /\ IsValidDate(FullYear(core.year), core.month, core.day)
    THEN {Iso(FullYear(core.year), core.month, core.day, NoTime)} ELSE {}
EuropeanDateTime(core) ==
  LET time == IF core.time = NoTime THEN <<0, 0, 0>> ELSE core.time
  IN  IF /\ IsValidDate(FullYear(core.year), core.month, core.day)
         /\ time[1] <= 23 /\ time[2] <= 59 /\ time[3] <= 59
        THEN {Iso(FullYear(core.year), core.month, core.day, time)} ELSE {}
Converted(core, type) ==
  CASE ~cell.european \/ core.is # "dots" -> {}
    [] cell.european /\ core.is = "dots" /\ type = "date" -> EuropeanDate(core)
    [] cell.european /\ core.is = "dots" /\ type = "datetime" -> EuropeanDateTime(core)
    [] OTHER -> {}

\* _castCsvValueByFieldType: what cannot be cast stays as it is.
Cast(text, type) ==
  LET isWord == text.core.is = "word"
      word == IF isWord THEN LowerWord(text.core.word) ELSE ""
  IN  CASE type = "boolean" /\ isWord /\ word \in TrueTokens -> Boolean(TRUE)
        [] type = "boolean" /\ isWord /\ word \in FalseTokens -> Boolean(FALSE)
        [] type \in NumericTypes /\ isWord /\ word \in DOMAIN Numbers -> Number(Numbers[word])
        [] OTHER -> LET dates == Converted(text.core, type)
                    IN  IF dates = {} THEN String(text) ELSE String(Plain(The(dates)))

\* By the name as it is, then by its name whatever its case.
TypeOf(column) ==
  IF column \in DOMAIN Types THEN {Types[column]}
  ELSE {Types[f] : f \in {f \in DOMAIN Types : LowerWord(f) = LowerWord(column)}}

\* _normalizeCsvCellValue
WithoutReturns(text) == Text(text.core, text.pad, FALSE, text.special)
Read(text, types) ==
  CASE IsBlank(text) -> IF cell.insertNulls THEN Nothing ELSE String(Plain(Word("")))
    [] ~IsBlank(text) /\ IsNullToken(text) -> Nothing
    [] OTHER -> LET base == WithoutReturns(text)
                IN  IF types = {} THEN String(base) ELSE Cast(base, The(types))

-----------------------------------------------------------------------------
(* Writing.                                                                *)

\* Mutant: false is taken for no value.
TextOf_FalseIsNothing(v) ==
  CASE v = Nothing \/ v = Boolean(FALSE) -> Plain(Word(IF cell.insertNulls THEN "#N/A" ELSE ""))
    [] v # Nothing /\ v.is = "boolean" -> Plain(Word("true"))
    [] v.is = "number" -> Plain(Word(Digits[v.value]))
    [] OTHER -> v.value

\* _convertCsvCellValue
TextOf(v) ==
  CASE v = Nothing -> Plain(Word(IF cell.insertNulls THEN "#N/A" ELSE ""))
    [] v.is = "boolean" -> Plain(Word(IF v.value THEN "true" ELSE "false"))
    [] v.is = "number" -> Plain(Word(Digits[v.value]))
    [] OTHER -> v.value

\* _escapeCsvCell: a file is written with one delimiter.
Line(text, delimiter, always) ==
  [text |-> text, delimiter |-> delimiter,
   quoted |-> \/ always \/ text.pad \/ text.returns
              \/ text.special \cap {"quote", "break", delimiter} # {}]

\* The parser: without quotes a delimiter or a line break ends the cell, and a file with
\* another delimiter has no such cell.
Garbled == Plain(Word("garbled"))
Parsed(l, delimiter) ==
  IF l.delimiter # delimiter \/ (~l.quoted /\ l.text.special \cap {"break", delimiter} # {})
    THEN Garbled ELSE l.text

-----------------------------------------------------------------------------
Export ==
  /\ stage = "org"
  /\ stage' = "raw" /\ line' = Line(TextOf(value), cell.delimiter, cell.quoted)
  /\ UNCHANGED <<cell, value>>

LoadIntoCache ==
  /\ stage = "raw"
  /\ stage' = "cache" /\ value' = Read(Parsed(line, cell.delimiter), {})
  /\ UNCHANGED <<cell, line>>

\* A repaired file, or one rewritten as it is.
SaveInternal ==
  /\ stage = "cache"
  /\ stage' = "source" /\ line' = Line(TextOf(value), Comma, TRUE)
  /\ UNCHANGED <<cell, value>>

\* A file nobody had to repair.
CopyRaw ==
  /\ stage = "cache" /\ ~cell.asIs
  /\ stage' = "source"
  /\ UNCHANGED <<cell, line, value>>

ReadByType ==
  /\ stage = "source"
  /\ stage' = "job" /\ value' = Read(Parsed(line, Comma), TypeOf(cell.column))
  /\ UNCHANGED <<cell, line>>

(* A cell at its start.  The values of an org fit the types of their       *)
(* fields, and its dates are in ISO format.                                *)

IsText(text) ==
  /\ text = Text(text.core, text.pad, text.returns, text.special)
  /\ {text.pad, text.returns} \subseteq BOOLEAN
  /\ text.core.is \in {"word", "dots", "iso"}
  /\ text.core.is = "word" => text.core = Word(text.core.word)
  /\ text.core.is = "dots" => {text.core.day, text.core.month, text.core.year} \subseteq Nat

HasTypeIn(column, types) == TypeOf(column) # {} /\ TypeOf(column) \subseteq types
IsOrgValue(v, column) ==
  \/ v = Nothing
  \/ v \in {Boolean(TRUE), Boolean(FALSE)} /\ HasTypeIn(column, {"boolean"})
  \/ v \in {Number(n) : n \in DOMAIN Digits} /\ HasTypeIn(column, NumericTypes)
  \/ /\ v = String(v.value) /\ IsText(v.value)
     /\ TypeOf(column) \cap ({"boolean"} \cup NumericTypes) = {}
     /\ v.value.core.is = "dots" => TypeOf(column) \cap {"date", "datetime"} = {}

IsCell(c) ==
  /\ {c.insertNulls, c.european, c.quoted, c.asIs} \subseteq BOOLEAN
  /\ c.delimiter \in {",", ";"}      \* csvReadFileDelimiter and csvWriteFileDelimiter
  /\ c.from \in {"org", "user"}
  /\ IF c.from = "user" THEN IsText(c.given) ELSE IsOrgValue(c.given, c.column)

ASSUME CellAssumption == \A c \in Cells : IsCell(c)

\* A number reads as itself, and lower case is what it is for the words the code writes.
ASSUME NumberAssumption ==
  \A n \in DOMAIN Digits :
    LET word == LowerWord(Digits[n])
    IN  /\ word \in DOMAIN Numbers /\ Numbers[word] = n
        /\ word \notin NullTokens /\ Digits[n] # ""
ASSUME WordAssumption ==
  LowerWord("#N/A") = "#n/a" /\ LowerWord("true") = "true" /\ LowerWord("false") = "false"

-----------------------------------------------------------------------------
NoLine == Line(Plain(Word("")), Comma, TRUE)
CellInit ==
  /\ cell \in Cells
  /\ IF cell.from = "org" THEN stage = "org" /\ value = cell.given /\ line = NoLine
     ELSE stage = "raw" /\ value = Nothing /\ line = Line(cell.given, cell.delimiter, cell.quoted)

CellNext == Export \/ LoadIntoCache \/ SaveInternal \/ CopyRaw \/ ReadByType
CellSpec == CellInit /\ [][CellNext]_cellVars

-----------------------------------------------------------------------------
IsNothing(v) == v = Nothing \/ v = String(Plain(Word("")))

\* In a CSV file a text that reads like nothing or ends in carriage returns is another.
Survives(v) == v.is # "string" \/ ~(IsBlank(v.value) \/ IsNullToken(v.value) \/ v.value.returns)

\* A date that was recognised is the one the user wrote.
SameDate(iso, dots) ==
  /\ iso.day = dots.day /\ iso.month = dots.month /\ iso.year % 100 = dots.year % 100
  /\ dots.year >= 100 => iso.year = dots.year
  /\ dots.day <= DaysIn(iso.year, dots.month)

\* Whichever way a cell takes through the cache, the job gets what reading the user's cell
\* by its type gives at once (without csvInsertNulls up to the kind of nothing), dates are
\* those the user wrote, and a value exported from an org comes back as it was.  Copied
\* files are those whose delimiter is the internal one.
ValuesKept ==
  stage = "job" /\ line.delimiter = Comma =>
    IF cell.from = "user"
      THEN LET direct == Read(cell.given, TypeOf(cell.column)) IN
           /\ value = direct \/ (~cell.insertNulls /\ IsNothing(value) /\ IsNothing(direct))
           /\ value.is = "string" /\ value.value.core.is = "iso" /\ cell.given.core.is = "dots" =>
                SameDate(value.value.core, cell.given.core)
      ELSE IF IsNothing(cell.given) THEN IsNothing(value)
           ELSE Survives(cell.given) => value = cell.given
=============================================================================
