---------------------------- MODULE MCCsvRepair ----------------------------
(***************************************************************************)
(* Instances of CsvRepair: accounts with a lookup to themselves, cases     *)
(* with lookups to an account and a record type, users and groups from one *)
(* file; files with and without the columns of lookups and Ids, headings   *)
(* in other case and with blanks, missing and empty files, equal, blank    *)
(* and missing Ids.  And of CsvValues, which follows one cell: either the  *)
(* files of a job are repaired, or a cell takes its way.                   *)
(***************************************************************************)
EXTENDS CsvRepair, CsvValues

Lookup(id, rel, key, parent, legacy) ==
  [id |-> id, ref |-> rel \o "." \o key, back |-> rel \o ".Id", parent |-> parent, legacy |-> legacy]
Up == Lookup("UpId", "Up", "Key", "Account", <<>>)
Acc == Lookup("AccId", "Acc", "Key", "Account", <<>>)
Type == Lookup("TypeId", "Type", "Full", "RecordType", <<"Type.Dev", "Type.For">>)
MCTasks == <<"RecordType", "User", "Group", "Account", "Case">>
MCLookups == [o \in ToSet(MCTasks) |->
  CASE o = "Account" -> <<Up>> [] o = "Case" -> <<Acc, Type>> [] OTHER -> <<>>]
MCKeyColumn == [o \in ToSet(MCTasks) |-> CASE o = "RecordType" -> "Full" [] o = "Case" -> "Sub" [] OTHER -> "Key"]
MCKeyParts == [o \in ToSet(MCTasks) |-> IF o = "RecordType" THEN <<"Dev", "For">> ELSE <<>>]
MCQueryColumns == [o \in ToSet(MCTasks) |->
  CASE o = "Account" -> {"Id", "Key", "Name", "UpId", "Up.Key"}
    [] o = "Case" -> {"Id", "Sub", "Text", "AccId", "Acc.Key", "TypeId", "Type.Full"}
    [] o = "RecordType" -> {"Id", "Full"} [] OTHER -> {"Id", "Key"}]
MCRequired == [o \in ToSet(MCTasks) |->
  CASE o = "Account" -> {"Key", "Name", "UpId"} [] o = "Case" -> {"Sub", "AccId"} [] OTHER -> {"Key"}]
MCTrimmed == " Id " :> "Id" @@ " a1 " :> "a1" @@ " Text" :> "Text"
MCLowered == "ID" :> "Id" @@ "TEXT" :> "Text"
MCDotted == "Acc.Key" :> {"Acc", "Key"} @@ "Up.Key" :> {"Up", "Key"}
MCUserOrGroup == "005u" :> "User" @@ "00Gg" :> "Group"

Raw(rows, first) == [rows |-> rows, idFirst |-> first]
AccountRow(id, key, name) == [Id |-> id, Key |-> key, Name |-> name]
AccountFiles ==
  {Raw(<<>>, TRUE),
   Raw(<<AccountRow("a1", "k1", "x"), AccountRow("a2", "k2", "y")>>, TRUE),
   Raw(<<[Key |-> "k1", Name |-> "x"], [Key |-> "k2", Name |-> "y"]>>, FALSE),
   Raw(<<"Up.Key" :> "k2" @@ AccountRow("a1", "k1", "x"), "Up.Key" :> "" @@ AccountRow("a2", "k2", "y")>>, TRUE),
   Raw(<<"Up.Key" :> "k2" @@ "UpId" :> Null @@ AccountRow("a1", "k1", "x"),
         "Up.Key" :> Null @@ "UpId" :> "a1" @@ AccountRow("a2", "k2", "y")>>, TRUE),
   Raw(<<AccountRow(Null, "k1", "x"), AccountRow("a2", "k2", "y")>>, TRUE),
   Raw(<<" Id " :> " a1 " @@ [Key |-> "k1", Name |-> "x"]>>, FALSE),
   Raw(<<"ID" :> "a1" @@ [Key |-> "k1", Name |-> "x", Other |-> "o"]>>, TRUE),
   Raw(<<AccountRow("a1", "k1", "x"), AccountRow("a1", "k2", "y")>>, TRUE)}
CaseRow(id) == [Id |-> id, Sub |-> "s"]
CaseFiles ==
  {Raw(<<CaseRow("c1")>>, TRUE),
   Raw(<<"Acc.Key" :> "k1" @@ CaseRow("c1"), "Acc.Key" :> "k3" @@ CaseRow("c2"), "Acc.Key" :> "k3" @@ CaseRow(Null)>>, TRUE),
   Raw(<<"AccId" :> "a1" @@ CaseRow("c1"), "AccId" :> "a9" @@ CaseRow("c2"), "AccId" :> "" @@ CaseRow("c3")>>, TRUE),
   Raw(<<"AccId" :> "a1" @@ "Acc.Key" :> "k1" @@ "TypeId" :> Null @@ "Type.Full" :> Null @@ CaseRow("c1")>>, TRUE),
   Raw(<<"AccId" :> "a1" @@ "Acc.Key" :> "k2" @@ CaseRow("c1"), "AccId" :> "a9" @@ "Acc.Key" :> "k2" @@ CaseRow("c2"),
         "AccId" :> "a9" @@ "Acc.Key" :> "k9" @@ CaseRow("c3")>>, TRUE),
   Raw(<<"Text" :> "o" @@ " Text" :> "t" @@ CaseRow("c1")>>, TRUE),
   Raw(<<"TEXT" :> "t" @@ [Sub |-> "s"], "TEXT" :> "u" @@ [Sub |-> "r"]>>, FALSE)}
TypeFiles ==
  {Raw(<<"Type.Dev" :> "d" @@ "Type.For" :> "f" @@ CaseRow("c1"), "Type.Dev" :> "e" @@ "Type.For" :> "" @@ CaseRow("c2")>>, TRUE),
   Raw(<<"TypeId" :> "t1" @@ "Type.Full" :> "d;f" @@ CaseRow("c1")>>, TRUE)}
RecordTypeFiles ==
  {Raw(<<[Id |-> "t1", Dev |-> "d", For |-> "f"]>>, TRUE), Raw(<<[Id |-> "t1", Full |-> "d;f"]>>, TRUE)}
UserFiles == {Raw(<<[Id |-> "005u", Key |-> "v", Other |-> "o"], [Id |-> "00Gg", Key |-> "w", Other |-> "o"],
                    [Id |-> "", Key |-> "n", Other |-> "o"]>>, f) : f \in BOOLEAN}

Flags ==
  {[excludeIds |-> e, asIs |-> a, validateOnly |-> v, prompt |-> p] :
     e \in BOOLEAN, a \in BOOLEAN, v \in BOOLEAN, p \in BOOLEAN}
SomeFlags == {f \in Flags : (f.asIs => ~f.validateOnly /\ ~f.excludeIds) /\ (f.validateOnly => f.prompt)}
RawFiles == {"Account" :> a @@ "Case" :> c : a \in AccountFiles, c \in CaseFiles} \cup {"Case" :> c : c \in CaseFiles}
Cases == {[raw |-> r, csv |-> s] : r \in RawFiles, s \in {{"Account", "Case"}, {"Case"}}}
RecordTypes ==
  {[raw |-> "RecordType" :> t @@ "Case" :> c, csv |-> {"RecordType", "Case"}] : t \in RecordTypeFiles, c \in TypeFiles}
Users ==
  {[raw |-> Combined :> u @@ more, csv |-> {"User", "Group"}] :
     u \in UserFiles, more \in {<<>>, "User" :> Raw(<<[Id |-> "005u", Key |-> "v"]>>, TRUE)}}
MCJobs == {f @@ c : f \in SomeFlags, c \in Cases \cup RecordTypes \cup Users}

-----------------------------------------------------------------------------
MCTypes == "Active" :> "boolean" @@ "Size" :> "double" @@ "Born" :> "date" @@ "Seen" :> "datetime" @@ "Text" :> "string"
MCLowerCase == "NULL" :> "null" @@ "#N/A" :> "#n/a" @@ "YES" :> "yes" @@ "BORN" :> "born" @@ "Born" :> "born"
MCNumbers == "1" :> 1 @@ "0" :> 0 @@ "012" :> 12 @@ "12" :> 12
MCDigits == 0 :> "0" @@ 1 :> "1" @@ 12 :> "12"
Dates ==
  {Dots(d, m, y, 4, NoTime) : d \in {0, 1, 28, 29, 30, 31, 32}, m \in {0, 2, 4, 12, 13}, y \in {1900, 2000, 2023, 2024}}
    \cup {Dots(3, 4, y, 2, NoTime) : y \in {0, 69, 70, 99}}
    \cup {Dots(29, 2, 2024, 4, <<h, 59, 59>>) : h \in {23, 24}}
Words == {Word(w) : w \in {"", "NULL", "#N/A", "YES", "off", "1", "0", "012", "word"}}
Specials == {{}, {","}, {";"}, {"quote", "break"}}
UserTexts ==
  {Text(w, p, FALSE, {}) : w \in Words, p \in BOOLEAN} \cup {Text(w, FALSE, TRUE, {}) : w \in Words}
    \cup {Text(w, FALSE, FALSE, sp) : w \in Words, sp \in Specials} \cup {Plain(d) : d \in Dates}
Options ==
  {[insertNulls |-> n, european |-> e, delimiter |-> d, quoted |-> q, asIs |-> a] :
     n \in BOOLEAN, e \in BOOLEAN, d \in {",", ";"}, q \in BOOLEAN, a \in BOOLEAN}
Given(from, column, given) == [from |-> from, column |-> column, given |-> given]
UserCells ==
  {Given("user", c, t) : c \in {"Active", "Size", "Text", "Other"}, t \in {t \in UserTexts : t.core.is = "word"}}
    \cup {Given("user", c, Plain(d)) : c \in {"Born", "BORN", "Seen", "Text"}, d \in Dates}
OrgCells ==
  {Given("org", "Active", v) : v \in {Nothing, Boolean(TRUE), Boolean(FALSE)}}
    \cup {Given("org", "Size", v) : v \in {Nothing, Number(0), Number(12)}}
    \cup {Given("org", "Text", String(t)) : t \in UserTexts}
    \cup {Given("org", "Born", String(Plain(Iso(2024, 2, 29, NoTime))))}
MCCells == {o @@ c : o \in Options, c \in UserCells \cup OrgCells}

NoCell == CHOOSE c \in MCCells : TRUE
NoJob == CHOOSE j \in MCJobs : TRUE
Repairs == Init /\ cell = NoCell /\ stage = "none" /\ line = NoLine /\ value = Nothing
OneCell ==
  /\ CellInit
  /\ job = NoJob
  /\ source = <<>> /\ work = <<>> /\ phase = "none" /\ todo = {} /\ report = {} /\ prompted = FALSE
MCInit == Repairs \/ OneCell
MCNext == (Next /\ UNCHANGED cellVars) \/ (CellNext /\ UNCHANGED vars)
MCSpec == MCInit /\ [][MCNext]_<<vars, cellVars>>
=============================================================================
