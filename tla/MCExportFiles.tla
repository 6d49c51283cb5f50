----------------------------- MODULE MCExportFiles -----------------------------
(***************************************************************************)
(* Instances of ExportFiles: two source records (both migrated, one not,   *)
(* none) with a shared file, a link and a file too large; a target that is *)
(* empty or has older, equal or shared files, and files of another record; *)
(* packages with and without links, with missing binaries and with equal   *)
(* titles.                                                                 *)
(***************************************************************************)
EXTENDS ExportFiles

Version(id, doc, title, url, sum, size, fits) ==
  [id |-> id, doc |-> doc, title |-> title, url |-> url, sum |-> sum, data |-> "/" \o sum, date |-> 1,
   size |-> size, fits |-> fits]
A == Version("VA", "DA", "a", None, "alpha", 2, TRUE)
B == Version("VB", "DB", "b", "http", None, 0, TRUE)
C == Version("VC", "DC", "c", None, "gamma", 2, TRUE)
Large == Version("VL", "DL", "l", None, "lambda", 9, FALSE)
Link(p, r) == [parent |-> p, ref |-> r]
Row(kind, p, name, body) == [kind |-> kind, parent |-> p, name |-> name, body |-> body]

Old(id, doc, title, url, sum) ==
  [id |-> id, doc |-> doc, title |-> title, url |-> url, sum |-> sum, date |-> 1, latest |-> TRUE]
Target(versions, links, rows) == [versions |-> versions, links |-> links, rows |-> rows, next |-> 5]
Other == "VZ" :> Old("VZ", "DZ", "z", None, "zeta")
OtherRows == <<Row("Note", "t1", "n", "old"), Row("Attachment", "t3", "m", "old")>>
Empty == Target(<<>>, <<>>, <<>>)
Older == Target(Other @@ "VX" :> Old("VX", "DX", "a", None, "old"), <<Link("t3", "DZ"), Link("t1", "DX")>>, OtherRows)
Same == Target("VX" :> Old("VX", "DX", "a", None, "alpha") @@ "VY" :> Old("VY", "DY", "b", "ftp", None),
               <<Link("t2", "DX"), Link("t1", "DY")>>, OtherRows)
UpperCase == Target("VX" :> Old("VX", "DX", "A", None, "old"), <<Link("t1", "DX")>>, <<>>)

Both == "p1" :> "t1" @@ "p2" :> "t2"
OneLost == "p1" :> "t1" @@ "p2" :> None
Base ==
  [op |-> "Insert", sourceFile |-> FALSE, targetFile |-> FALSE, deleteOld |-> FALSE, simulation |-> FALSE,
   separated |-> FALSE, feed |-> FALSE, set |-> 1, maxChunkSize |-> 3, parents |-> Both, targets |-> {"t1", "t2"},
   skip |-> {}, versions |-> <<A, B, C, Large>>,
   links |-> <<Link("p1", "DA"), Link("p1", "DB"), Link("p2", "DA"), Link("p2", "DL")>>,
   rows |-> <<Row("Attachment", "p1", "m", "/mu"), Row("Note", "p2", "n", "nu")>>, org |-> Older,
   files |-> <<>>, web |-> "/alpha" :> "alpha" @@ "/gamma" :> "gamma" @@ "/mu" :> "mu", base64 |-> {}]

Ops == {"Insert", "Update", "Upsert", "Delete", "Readonly"}
FromOrgToOrg ==
  {[Base EXCEPT !.op = op, !.deleteOld = d, !.org = o] : op \in Ops, d \in BOOLEAN, o \in {Empty, Older, Same}}
  \cup {[Base EXCEPT !.op = op, !.parents = OneLost, !.simulation = s] : op \in {"Upsert", "Delete"}, s \in BOOLEAN}
  \cup {[Base EXCEPT !.op = op, !.deleteOld = TRUE, !.parents = <<>>, !.links = <<>>, !.rows = <<>>] : op \in {"Insert", "Update"}}
  \cup {[Base EXCEPT !.op = op, !.deleteOld = d, !.skip = {"a"}] : op \in {"Insert", "Upsert"}, d \in BOOLEAN}
  \cup {[Base EXCEPT !.maxChunkSize = c, !.links = <<Link("p1", "DA"), Link("p2", "DC"), Link("p1", "DB")>>, !.rows = <<>>] :
          c \in {1, 4}}
Feeds ==
  {[Base EXCEPT !.op = op, !.feed = TRUE, !.deleteOld = d, !.links = <<Link("p1", "VA"), Link("p2", "VC")>>,
                !.org.links = <<Link("t1", "VX")>>, !.rows = <<>>] : op \in {"Insert", "Upsert", "Delete"}, d \in BOOLEAN}
ToFiles ==
  {[Base EXCEPT !.targetFile = TRUE, !.feed = f, !.web = w,
                !.links = @ \o <<Link("p1", "DC"), Link("p2", "DE")>>,
                !.versions = @ \o <<Version("VE", "DE", "a", None, "gamma", 1, TRUE)>>,
                !.rows = @ \o <<Row("Attachment", "p2", "m", "/alpha")>>] :
     f \in BOOLEAN, w \in {Base.web, "/gamma" :> "gamma"}}

CsvVersion(id, doc, title, url, data) == [id |-> id, doc |-> doc, title |-> title, url |-> url, data |-> data]
CsvVersions == <<CsvVersion("VA", "DA", "a", None, "a-1"), CsvVersion("VB", "DB", "b", "http", None),
                 CsvVersion("VC", "DC", "c", None, "lost"), CsvVersion(None, None, "d", None, "delta")>>
CsvLinks == <<Link("p1", "DA"), Link("p2", "DA"), Link("p2", "DB"), Link("p2", "DC"), Link("p9", "DB")>>
CsvFiles(folder, links) ==
  folder :> [csv |-> "versions" :> CsvVersions @@ "links" :> links
                     @@ "attachments" :> <<Row("Attachment", "p1", "m", "a-1"), Row("Attachment", "p1", "x", "lost")>>,
             binaries |-> <<>>]
  @@ "binaries" :> [csv |-> <<>>, binaries |-> "a-1" :> "alpha"]
  @@ "source" :> [csv |-> "links" :> <<Link("p2", "DB")>>, binaries |-> "a-1" :> "stale"]
FromFiles ==
  {[Base EXCEPT !.op = op, !.sourceFile = TRUE, !.deleteOld = d, !.org = o, !.base64 = {"delta"},
                !.files = CsvFiles("base", CsvLinks)] :
     op \in {"Insert", "Update", "Upsert"}, d \in BOOLEAN, o \in {Older, UpperCase}}
  \cup {[Base EXCEPT !.op = op, !.sourceFile = TRUE, !.separated = TRUE, !.set = 2, !.base64 = {"delta"},
                     !.simulation = s, !.files = CsvFiles(f, l)] :
          op \in {"Upsert", "Delete"}, s \in BOOLEAN, f \in {"raw", "set", "base"}, l \in {CsvLinks, <<>>}}

MCJobs == FromOrgToOrg \cup Feeds \cup ToFiles \cup FromFiles
MCFolded == "A" :> "a"
=============================================================================
