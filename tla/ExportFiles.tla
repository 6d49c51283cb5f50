------------------------------ MODULE ExportFiles ------------------------------
(***************************************************************************)
(* The core add-on ExportFiles: files (content versions and their links),  *)
(* attachments and notes of the records of one task follow the records     *)
(* from the source to the target.  Between two orgs the files are compared *)
(* and uploaded in chunks; when one side is CSV, a package of CSV files    *)
(* and binaries is written or applied.                                     *)
(*                                                                         *)
(* A version has an id of its own and the id of its document; a link leads *)
(* from a record to a document, a feed attachment to a version.  The org   *)
(* refuses rows whose references lead nowhere, and any row it likes.       *)
(***************************************************************************)
EXTENDS Integers, Sequences, FiniteSets, SequencesExt, TLC

CONSTANTS
  Jobs,      \* the calls considered: see IsJob
  Events,    \* the events the add-on is triggered at
  Folded     \* Folded[title]: a title as packages compare it, where that differs

None == ""
Folders == {"binaries", "base", "raw", "source", "set"}

\* A version: [id, doc, title, url, sum: its content, data: where the source says
\* the content is, date, size, fits: maxFileSize and sourceWhere let it pass];
\* a row: [kind, parent, name, body]; a link: [parent, ref].
IsJob(j) ==
  /\ j.op \in {"Insert", "Update", "Upsert", "Delete", "Readonly"}
  /\ {j.sourceFile, j.targetFile, j.deleteOld, j.simulation, j.separated, j.feed} \subseteq BOOLEAN
  /\ j.set \in 1..2                                   \* number of the object set
  /\ {j.parents[p] : p \in DOMAIN j.parents} \subseteq j.targets \cup {None}
  /\ \A p, q \in DOMAIN j.parents : j.parents[p] = j.parents[q] => p = q \/ j.parents[p] = None
  /\ j.maxChunkSize \in Nat
  /\ DOMAIN j.files \subseteq Folders                 \* the input directories
  /\ DOMAIN j.web \cap j.base64 = {}                  \* addresses that answer; data as it is

ASSUME JobAssumption == \A j \in Jobs : IsJob(j)

VARIABLES
  job,     \* the call and the source: fixed
  org,     \* target: [versions: id -> version, links, rows: sequences, next]
  run,     \* what one call of onExecute keeps
  phase,
  out,     \* the package written: [versions, rows, binaries]
  done     \* __exportFilesProcessedKeys

vars == <<job, org, run, phase, out, done>>

Idle == [event |-> None, op |-> None,
         links |-> <<>>, versions |-> <<>>, rows |-> <<>>, updates |-> <<>>,   \* the package, the plan
         seen |-> <<>>, kept |-> <<>>, doomed |-> {},        \* files of the target: links, versions, documents
         items |-> <<>>, chunks |-> <<>>, docs |-> <<>>,     \* files compared; documents made from a package
         up |-> <<>>, down |-> <<>>,                         \* parentTransferCounters
         before |-> <<>>, failed |-> FALSE]                  \* history: links before, rows refused
ZeroCounters == [p \in DOMAIN job.parents |-> 0]

-----------------------------------------------------------------------------
(* The target org and DML.                                                 *)

Direct == ~job.sourceFile /\ ~job.targetFile
SkipDml == job.simulation \/ job.targetFile            \* _shouldSkipDml
IsLatest(o, id) == o.versions[id].latest
DocsOf(o) == {o.versions[id].doc : id \in DOMAIN o.versions}
LatestOf(o, doc) == CHOOSE id \in DOMAIN o.versions : o.versions[id].doc = doc /\ IsLatest(o, id)

\* A row of ContentVersion is inserted: with a document it becomes its latest.
Accepted(o, row) == row.doc = None \/ row.doc \in DocsOf(o)
InsertVersion(o, row) ==
  LET id == "v" \o ToString(o.next)
      doc == IF row.doc = None THEN "d" \o ToString(o.next) ELSE row.doc
      older == [i \in DOMAIN o.versions |-> IF o.versions[i].doc = doc
                                             THEN [o.versions[i] EXCEPT !.latest = FALSE] ELSE o.versions[i]]
  IN  [o EXCEPT !.versions = id :> [id |-> id, doc |-> doc, title |-> row.title, sum |-> row.sum, url |-> row.url,
                                    date |-> o.next, latest |-> TRUE] @@ older,
                !.next = @ + 1]

\* The rows are inserted but for those in bad; ids: what each has got.
InsertVersions(o, rows, bad) ==
  FoldLeft(LAMBDA acc, i :
             IF i \in bad \/ ~Accepted(acc.org, rows[i])
               THEN [acc EXCEPT !.ids = Append(@, None)]
               ELSE [org |-> InsertVersion(acc.org, rows[i]), ids |-> Append(acc.ids, "v" \o ToString(acc.org.next))],
           [org |-> o, ids |-> <<>>], [i \in DOMAIN rows |-> i])

Exists(o, ref) == ref \in DocsOf(o) \cup DOMAIN o.versions
InsertLinks(o, rows, bad) ==
  FoldLeft(LAMBDA acc, i :
             IF i \in bad \/ ~Exists(acc.org, rows[i].ref) \/ rows[i] \in ToSet(acc.org.links)
               THEN acc
               ELSE [org |-> [acc.org EXCEPT !.links = Append(@, rows[i])], ok |-> acc.ok \cup {i}],
           [org |-> o, ok |-> {}], [i \in DOMAIN rows |-> i])

\* ContentDocument rows are deleted; ids that are no documents are refused.
DeleteDocs(o, docs) ==
  LET kept == {id \in DOMAIN o.versions : o.versions[id].doc \notin docs}
  IN  [o EXCEPT !.versions = [id \in kept |-> o.versions[id]],
                !.links = SelectSeq(@, LAMBDA l : Exists([o EXCEPT !.versions = [id \in kept |-> o.versions[id]]], l.ref))]
\* Rows of the parents are deleted; those in refused stay.
DeleteRows(o, parents, refused) ==
  [o EXCEPT !.rows = SelectSeq(@, LAMBDA r : r.parent \notin parents \/ r \in refused)]

MappedTargets == {job.parents[p] : p \in DOMAIN job.parents} \ {None}
DeletesOld(op) == job.deleteOld \/ op = "Delete"

Init ==
  /\ job \in Jobs
  /\ org = job.org
  /\ run = Idle
  /\ phase = "idle"
  /\ out = [versions |-> <<>>, links |-> <<>>, rows |-> <<>>, binaries |-> <<>>]
  /\ done = {}

\* onExecute: once for each event of the task.
FirstPhase == IF Direct THEN "target" ELSE "read"
\* Mutant: the call is not remembered for the task.
Processed_Forgotten(event) == FALSE
Processed(event) == event \in done

Trigger(event) ==
  /\ phase = "idle"
  /\ ~Processed(event)
  /\ job.op # "Readonly"
  /\ done' = done \cup {event}
  /\ run' = [Idle EXCEPT !.event = event, !.op = job.op, !.before = org.links,
                         !.up = ZeroCounters, !.down = ZeroCounters, !.failed = run.failed]
  /\ phase' = FirstPhase
  /\ UNCHANGED <<job, org, out>>

\* A second trigger, and one of a Readonly operation, do nothing.
Ignored(event) ==
  /\ phase = "idle"
  /\ Processed(event) \/ job.op = "Readonly"
  /\ done' = IF job.op = "Readonly" THEN done \cup {event} ELSE done
  /\ UNCHANGED <<job, org, run, phase, out>>

\* A query, a download or a call that throws ends the add-on.
Throws ==
  /\ phase \notin {"idle", "thrown"}
  /\ phase' = "thrown"
  /\ UNCHANGED <<job, org, run, out, done>>

-----------------------------------------------------------------------------
(* From org to org: reading, deleting, comparing.                          *)

Ref(v) == IF job.feed THEN v.id ELSE v.doc          \* what a link holds of a version
LatestBy(o, ref) == {id \in DOMAIN o.versions : IsLatest(o, id) /\ Ref(o.versions[id]) = ref}

ReadTarget ==
  /\ phase = "target"
  /\ LET reads == run.op # "Insert" \/ job.deleteOld
         links == IF reads THEN SelectSeq(org.links, LAMBDA l : l.parent \in job.targets) ELSE <<>>
         refs == {links[i].ref : i \in DOMAIN links}
         wanted == {r \in refs : LatestBy(org, r) # {} /\ \A id \in LatestBy(org, r) : org.versions[id].title \notin job.skip}
         found == IF run.op = "Insert" THEN {} ELSE wanted
     IN  run' = [run EXCEPT !.seen = links,
                            !.kept = [r \in found |-> org.versions[CHOOSE id \in LatestBy(org, r) : TRUE]],
                            !.doomed = IF run.op = "Insert" THEN refs ELSE wanted]
  /\ phase' = "delete"
  /\ UNCHANGED <<job, org, out, done>>

\* deleteTargetFilesAsync, and what follows it.
DeleteTargetFiles ==
  /\ phase = "delete"
  /\ \E bad \in SUBSET run.doomed :
       /\ bad # {} => DeletesOld(run.op) /\ ~SkipDml
       /\ org' = IF DeletesOld(run.op) /\ ~SkipDml THEN DeleteDocs(org, run.doomed \ bad) ELSE org
       /\ run' = [run EXCEPT !.failed = @ \/ bad # {},
                             !.op = IF @ = "Upsert" /\ DeletesOld(run.op) /\ job.parents # <<>> THEN "Insert" ELSE @]
  /\ phase' = IF run.op = "Delete" \/ (run.op = "Update" /\ DeletesOld(run.op)) \/ job.parents = <<>>
                THEN "rows" ELSE "compare"
  /\ UNCHANGED <<job, out, done>>

IsNewer(v, w) ==
  IF (v.url # None) # (w.url # None) THEN TRUE
  ELSE IF v.url # None THEN v.date > w.date \/ v.url # w.url
  ELSE v.sum # w.sum

Item(v) == [v |-> v, target |-> None, matched |-> FALSE, with |-> v, changed |-> FALSE, to |-> <<>>,
            targetId |-> None, error |-> FALSE]
SourceVersion(ref) == {i \in DOMAIN job.versions : job.versions[i].fits /\ Ref(job.versions[i]) = ref}

\* The files of one target record that have the title of the version.
Matching(t, v) ==
  SelectSeq(run.seen, LAMBDA l : l.parent = t /\ l.ref \in DOMAIN run.kept /\ run.kept[l.ref].title = v.title)

\* One source link: the file is found with the target record, or linked to it.
Compared(item, t) ==
  LET found == Matching(t, item.v)
      with == IF item.matched THEN item.with ELSE run.kept[found[1].ref]
  IN  IF found = <<>>
        THEN IF run.op = "Update" THEN item ELSE [item EXCEPT !.to = Append(@, t)]
        ELSE [item EXCEPT !.matched = TRUE, !.with = with,
                          !.target = IF @ = None THEN found[1].ref ELSE @,
                          !.changed = @ \/ IsNewer(item.v, with)]
AddLink(items, link) ==
  LET v == job.versions[CHOOSE i \in SourceVersion(link.ref) : TRUE]
      t == job.parents[link.parent]
      at == SelectInSeq(items, LAMBDA x : x.v = v)
      known == IF at = 0 THEN Append(items, Item(v)) ELSE items
      k == IF at = 0 THEN Len(known) ELSE at
  IN  IF SourceVersion(link.ref) = {} THEN items
      ELSE IF t = None THEN known
      ELSE [known EXCEPT ![k] = Compared(@, t)]

\* Without a target version a file is new.
Items ==
  LET items == FoldLeft(AddLink, <<>>, job.links)
  IN  [i \in DOMAIN items |-> [items[i] EXCEPT !.changed = @ \/ ~items[i].matched]]

\* Chunks of positions, none larger than allowed unless it is one file; URLs last.
ToUpload(items, url) ==
  SelectSeq([i \in DOMAIN items |-> i], LAMBDA i : items[i].changed /\ (items[i].v.url # None) = url)
AddToChunk(items, acc, i) ==
  IF acc.size + items[i].v.size > job.maxChunkSize /\ acc.current # <<>>
    THEN [chunks |-> Append(acc.chunks, acc.current), current |-> <<i>>, size |-> items[i].v.size]
    ELSE [acc EXCEPT !.current = Append(@, i), !.size = @ + items[i].v.size]
FileChunks(items) ==
  FoldLeft(LAMBDA acc, i : AddToChunk(items, acc, i), [chunks |-> <<>>, current |-> <<>>, size |-> 0], ToUpload(items, FALSE))
Chunked(items) ==
  SelectSeq(FileChunks(items).chunks \o <<FileChunks(items).current, ToUpload(items, TRUE)>>, LAMBDA c : c # <<>>)

Count(links, p, known) == Cardinality({i \in DOMAIN links : links[i].parent = p /\ links[i].ref \in known})
KnownRefs == {job.links[i].ref : i \in {k \in DOMAIN job.links : SourceVersion(job.links[k].ref) # {}}}

Compare ==
  /\ phase = "compare"
  /\ \E items \in {Items} :
       run' = [run EXCEPT !.items = items, !.chunks = Chunked(items),
                          !.down = [p \in DOMAIN @ |-> Count(job.links, p, KnownRefs)]]
  /\ phase' = "upload"
  /\ UNCHANGED <<job, org, out, done>>

-----------------------------------------------------------------------------
(* Uploading a chunk, and linking.                                         *)

UploadRow(item) == [doc |-> item.target, title |-> item.v.title, url |-> item.v.url,
                    sum |-> IF item.v.url # None THEN None ELSE item.v.sum]

\* The id a row of the chunk has got.
\* Mutant: the ids that came back are handed out in order.
IdOf_InOrder(ids, k) ==
  LET got == SelectSeq(ids, LAMBDA x : x # None) IN IF k <= Len(got) THEN got[k] ELSE None
IdOf(ids, k) == ids[k]
\* It goes to the version the row was made from; then its document is queried.
Uploaded(items, chunk, ids, o) ==
  [i \in DOMAIN items |->
     IF i \notin ToSet(chunk) THEN items[i]
     ELSE LET id == IdOf(ids, SelectInSeq(chunk, LAMBDA x : x = i))
          IN  [items[i] EXCEPT !.targetId = id, !.error = id = None /\ ~SkipDml,
                               !.target = IF @ = None /\ id # None THEN o.versions[id].doc ELSE @]]

UploadChunk ==
  /\ phase = "upload"
  /\ run.chunks # <<>>
  /\ LET chunk == run.chunks[1]
         rows == [k \in DOMAIN chunk |-> UploadRow(run.items[chunk[k]])]
     IN  \E bad \in IF SkipDml THEN {DOMAIN chunk} ELSE SUBSET DOMAIN chunk :
         \E result \in {InsertVersions(org, rows, bad)} :
           /\ org' = result.org
           /\ run' = [run EXCEPT !.items = Uploaded(run.items, chunk, result.ids, result.org),
                                 !.chunks = Tail(@), !.failed = @ \/ bad # {}]
  /\ UNCHANGED <<job, phase, out, done>>

\* When nothing could be uploaded, nothing is linked.
Linkable ==
  LET sent == {i \in DOMAIN run.items : run.items[i].changed}
  IN  IF sent # {} /\ \A i \in sent : run.items[i].error THEN <<>> ELSE run.items
LinkRow(item, t) == [parent |-> t, ref |-> IF job.feed THEN item.targetId ELSE item.target]
LinkPayload == FoldLeft(LAMBDA acc, x : acc \o [k \in DOMAIN x.to |-> LinkRow(x, x.to[k])], <<>>, Linkable)

\* The counters of the source record, by the target record of each payload row.
SourceParent(t) == {p \in DOMAIN job.parents : job.parents[p] = t}
CountUploads(up, rows, ok) ==
  [p \in DOMAIN up |-> up[p] + Cardinality({i \in ok : p \in SourceParent(rows[i].parent)})]

\* Links (of files, of feeds) are inserted, and counted when they succeed;
\* a simulation counts them all.
WriteLinks(rows, next) ==
  \E bad \in IF SkipDml THEN {{}} ELSE SUBSET DOMAIN rows :
  \E result \in {InsertLinks(org, rows, bad)} :
    /\ org' = IF SkipDml THEN org ELSE result.org
    /\ run' = [run EXCEPT !.up = CountUploads(@, rows, IF SkipDml THEN DOMAIN rows ELSE result.ok),
                          !.failed = @ \/ bad # {}]
    /\ phase' = next
    /\ UNCHANGED <<job, out, done>>

LinkFiles ==
  /\ phase = "upload"
  /\ run.chunks = <<>>
  /\ WriteLinks(LinkPayload, "rows")

-----------------------------------------------------------------------------
(* The package: four CSV files and binaries.                               *)

\* The directories a file is looked for in.
CsvFolders == (IF job.separated THEN <<"raw", "source">> \o (IF job.set > 1 THEN <<"set">> ELSE <<>>)
               ELSE <<"base", "raw", "source">>) \o <<"base">>
BinaryFolders == <<"binaries">> \o (IF job.separated THEN <<"source", "set">> ELSE <<>>) \o <<"base">>
FirstOf(folders, holding) == SelectInSeq(folders, LAMBDA f : f \in holding)

CsvInput(name) ==
  LET at == FirstOf(CsvFolders, {f \in DOMAIN job.files : name \in DOMAIN job.files[f].csv})
  IN  IF at = 0 THEN <<>> ELSE job.files[CsvFolders[at]].csv[name]

\* A body: an address in the source org, a file, or base64 as it is.
Resolved(value) ==
  LET at == FirstOf(BinaryFolders, {f \in DOMAIN job.files : value \in DOMAIN job.files[f].binaries})
  IN  IF value \in DOMAIN job.web THEN IF job.sourceFile THEN None ELSE job.web[value]
      ELSE IF at # 0 THEN job.files[BinaryFolders[at]].binaries[value]
      ELSE IF value \in job.base64 THEN value
      ELSE None

IsMine(row) == row.parent \in DOMAIN job.parents
FromCsv ==
  LET links == SelectSeq(CsvInput("links"), IsMine)
      docs == {links[i].ref : i \in DOMAIN links}
  IN  [links |-> links,
       versions |-> SelectSeq(CsvInput("versions"), LAMBDA v : v.doc = None \/ docs = {} \/ v.doc \in docs),
       rows |-> SelectSeq(CsvInput("attachments") \o CsvInput("notes"), IsMine)]
\* Files of a feed are not part of a package.
FromOrg ==
  LET docs == {job.links[i].ref : i \in DOMAIN job.links}
  IN  [links |-> IF job.feed THEN <<>> ELSE job.links,
       versions |-> IF job.feed THEN <<>> ELSE SelectSeq(job.versions, LAMBDA v : v.fits /\ v.doc \in docs),
       rows |-> job.rows]

Key(v) == IF v.doc # None THEN v.doc ELSE v.id
ReadPackage ==
  /\ phase = "read"
  /\ LET package == IF job.sourceFile THEN FromCsv ELSE FromOrg
         keys == {Key(package.versions[i]) : i \in DOMAIN package.versions} \ {None}
     IN  run' = [run EXCEPT !.links = package.links, !.versions = package.versions, !.rows = package.rows,
                            !.down = [p \in DOMAIN @ |-> Count(package.links, p, keys)]]
  /\ phase' = IF job.targetFile THEN "write" ELSE "remove"
  /\ UNCHANGED <<job, org, out, done>>

\* A binary is named after its title and numbered; numbers go to the rows in
\* the order in which their downloads end.
\* Mutant: the number is left out.
BinaryName_Unnumbered(title, n) == title
BinaryName(title, n) == title \o "-" \o ToString(n)
Numbers(rows) ==
  {f \in [DOMAIN rows -> 1..Len(rows)] :
     \A i, k \in DOMAIN rows : rows[i].title = rows[k].title =>
        (i # k => f[i] # f[k]) /\ f[i] <= Cardinality({x \in DOMAIN rows : rows[x].title = rows[i].title})}
\* Rows as written, with the name of their binary; the binaries.
Binary(row) == IF row.url # None THEN None ELSE Resolved(row.data)
AsVersion(r) == [id |-> r.name, title |-> r.name, url |-> None, data |-> r.body]
Written(rows, number) ==
  [i \in DOMAIN rows |-> [row |-> rows[i], file |-> IF Binary(rows[i]) = None THEN None
                                                     ELSE BinaryName(rows[i].title, number[i])]]
BinariesOf(written) ==
  [f \in {written[i].file : i \in DOMAIN written} \ {None} |->
     Binary(written[CHOOSE i \in DOMAIN written : written[i].file = f].row)]

WritePackage ==
  /\ phase = "write"
  /\ LET attachments == SelectSeq(run.rows, LAMBDA r : r.kind = "Attachment")
         bodies == [i \in DOMAIN attachments |-> AsVersion(attachments[i])]
         withBinary(rows) == SelectSeq(rows, LAMBDA r : Binary(r) # None)
         without(rows) == SelectSeq(rows, LAMBDA r : Binary(r) = None)
         ordered(rows) == withBinary(rows) \o without(rows)
     IN  \E n \in Numbers(withBinary(run.versions)), k \in Numbers(withBinary(bodies)) :
         \E v \in {Written(ordered(run.versions), n)}, a \in {Written(ordered(bodies), k)} :
           out' = [versions |-> v, links |-> run.links, rows |-> a, binaries |-> BinariesOf(a) @@ BinariesOf(v)]
  /\ phase' = "idle"
  /\ UNCHANGED <<job, org, run, done>>

\* What is deleted before the package is applied.
DocsLinked(o, parents) == {o.links[i].ref : i \in {i \in DOMAIN o.links : o.links[i].parent \in parents}}
RowsOf(o, parents) == {o.rows[i] : i \in {i \in DOMAIN o.rows : o.rows[i].parent \in parents}}
RemoveOld ==
  /\ phase = "remove"
  /\ IF DeletesOld(run.op) /\ ~SkipDml
       THEN \E bad \in SUBSET DocsLinked(org, MappedTargets), refused \in SUBSET RowsOf(org, MappedTargets) :
              /\ org' = DeleteRows(DeleteDocs(org, DocsLinked(org, MappedTargets) \ bad), MappedTargets, refused)
              /\ run' = [run EXCEPT !.failed = @ \/ bad # {} \/ refused # {}]
       ELSE UNCHANGED <<org, run>>
  /\ phase' = IF run.op = "Delete" THEN "idle" ELSE "plan"
  /\ UNCHANGED <<job, out, done>>

Fold(title) == IF title \in DOMAIN Folded THEN Folded[title] ELSE title
\* The first file of a target record with a title, whatever its case.
TargetDoc(t, title) ==
  LET at == SelectInSeq(org.links, LAMBDA l : l.parent = t /\ l.ref \in DocsOf(org)
                                               /\ Fold(org.versions[LatestOf(org, l.ref)].title) = Fold(title))
  IN  IF at = 0 THEN None ELSE org.links[at].ref

\* The last version of a document in the package.
VersionOf(doc) == SelectLastInSeq(run.versions, LAMBDA v : Key(v) = doc /\ doc # None)
Unique(versions) ==
  FoldLeft(LAMBDA acc, v : IF Key(v) = None \/ \E i \in DOMAIN acc : Key(acc[i]) = Key(v) THEN acc ELSE Append(acc, v), <<>>, versions)

\* Update and Upsert: a link is a file the target record has, or a new one.
PlanLink(plan, l) ==
  LET t == job.parents[l.parent]
      at == VersionOf(l.ref)
      v == run.versions[at]
      doc == TargetDoc(t, v.title)
  IN  IF t = None \/ at = 0 THEN plan
      ELSE IF doc # None
        THEN [plan EXCEPT !.update = IF \E i \in DOMAIN @ : @[i].doc = doc THEN @ ELSE Append(@, [v EXCEPT !.doc = doc])]
      ELSE IF run.op = "Upsert"
        THEN [plan EXCEPT !.insert = Unique(Append(@, v)), !.links = Append(@, l)]
      ELSE plan
Plan ==
  IF run.op = "Insert" THEN [update |-> <<>>, insert |-> Unique(run.versions), links |-> run.links]
  ELSE FoldLeft(PlanLink, [update |-> <<>>, insert |-> <<>>, links |-> <<>>], run.links)

MakePlan ==
  /\ phase = "plan"
  /\ \E plan \in {Plan} :
       run' = [run EXCEPT !.updates = plan.update, !.versions = plan.insert, !.links = plan.links]
  /\ phase' = "update"
  /\ UNCHANGED <<job, org, out, done>>

\* A version needs its URL or its data; a new one must not have a document.
Sendable(v) == v.url # None \/ Resolved(v.data) # None
PackageRow(v, doc) == [doc |-> doc, title |-> v.title, url |-> v.url, 
                       sum |-> IF v.url # None THEN None ELSE Resolved(v.data)]

UpdateVersions ==
  /\ phase = "update"
  /\ LET sent == SelectSeq(run.updates, Sendable)
         rows == [i \in DOMAIN sent |-> PackageRow(sent[i], sent[i].doc)]
     IN  \E bad \in IF SkipDml THEN {DOMAIN rows} ELSE SUBSET DOMAIN rows :
           /\ org' = InsertVersions(org, rows, bad).org
           /\ run' = [run EXCEPT !.failed = @ \/ bad # {}]
  /\ phase' = "insert"
  /\ UNCHANGED <<job, out, done>>

\* Which document each source document has become.
DocMap(sent, ids, o) ==
  [d \in {Key(sent[i]) : i \in {i \in DOMAIN sent : ids[i] # None}} |->
     o.versions[ids[SelectInSeq(sent, LAMBDA v : Key(v) = d)]].doc]

InsertNew ==
  /\ phase = "insert"
  /\ LET sent == SelectSeq(run.versions, Sendable)
         rows == [i \in DOMAIN sent |-> PackageRow(sent[i], None)]
     IN  \E bad \in IF SkipDml THEN {DOMAIN rows} ELSE SUBSET DOMAIN rows :
         \E result \in {InsertVersions(org, rows, bad)} :
           /\ org' = result.org
           /\ run' = [run EXCEPT !.docs = DocMap(sent, result.ids, result.org), !.failed = @ \/ bad # {}]
  /\ phase' = "links"
  /\ UNCHANGED <<job, out, done>>

PackageLinks ==
  LET sent == SelectSeq(run.links, LAMBDA l : job.parents[l.parent] # None /\ l.ref \in DOMAIN run.docs)
  IN  [i \in DOMAIN sent |-> [parent |-> job.parents[sent[i].parent], ref |-> run.docs[sent[i].ref]]]
LinkPackage ==
  /\ phase = "links"
  /\ WriteLinks(PackageLinks, "insertRows")

-----------------------------------------------------------------------------
(* Attachments and notes, which are never compared.                        *)

\* Between orgs they are read now, and the old ones deleted.
\* Mutant: of all target records, not only of those in the mapping.
RowParents_All == {job.org.rows[i].parent : i \in DOMAIN job.org.rows}
RowParents == MappedTargets
StartRows ==
  /\ phase = "rows"
  /\ IF DeletesOld(run.op) /\ ~SkipDml
       THEN \E refused \in SUBSET RowsOf(org, RowParents) :
              /\ org' = DeleteRows(org, RowParents, refused)
              /\ run' = [run EXCEPT !.rows = job.rows, !.failed = @ \/ refused # {}]
       ELSE org' = org /\ run' = [run EXCEPT !.rows = job.rows]
  /\ phase' = IF run.op = "Delete" THEN "idle" ELSE "insertRows"
  /\ UNCHANGED <<job, out, done>>

TargetRow(r) == [r EXCEPT !.parent = job.parents[r.parent],
                          !.body = IF r.kind = "Attachment" THEN Resolved(r.body) ELSE @]
RowPayload ==
  LET mapped == SelectSeq(run.rows, LAMBDA r : job.parents[r.parent] # None
                                               /\ (r.kind = "Attachment" => Resolved(r.body) # None))
  IN  [i \in DOMAIN mapped |-> TargetRow(mapped[i])]
Without(rows, bad) ==
  LET kept == SelectSeq([i \in DOMAIN rows |-> i], LAMBDA i : i \notin bad) IN [k \in DOMAIN kept |-> rows[kept[k]]]
InsertRows ==
  /\ phase = "insertRows"
  /\ \E bad \in IF SkipDml THEN {DOMAIN RowPayload} ELSE SUBSET DOMAIN RowPayload :
       /\ org' = [org EXCEPT !.rows = @ \o Without(RowPayload, bad)]
       /\ run' = [run EXCEPT !.failed = @ \/ bad # {}]
  /\ phase' = "idle"
  /\ UNCHANGED <<job, out, done>>

Next ==
  \/ \E e \in Events : Trigger(e) \/ Ignored(e)
  \/ Throws
  \/ ReadTarget \/ DeleteTargetFiles \/ Compare \/ UploadChunk \/ LinkFiles
  \/ ReadPackage \/ WritePackage \/ RemoveOld \/ MakePlan \/ UpdateVersions \/ InsertNew \/ LinkPackage
  \/ StartRows \/ InsertRows

Spec == Init /\ [][Next]_vars

-----------------------------------------------------------------------------
(* Properties.                                                             *)

Finished == phase = "idle" /\ run.event # None
SourceLinks == IF job.sourceFile THEN SelectSeq(CsvInput("links"), IsMine) ELSE job.links
SourceVersions == IF job.sourceFile THEN CsvInput("versions") ELSE SelectSeq(job.versions, LAMBDA v : v.fits)
KeyOfSource(v) == IF job.sourceFile THEN Key(v) ELSE Ref(v)
ContentOf(v) == IF v.url # None THEN v.url ELSE IF job.sourceFile THEN Resolved(v.data) ELSE v.sum
HasContent(w, c) == c = IF w.url # None THEN w.url ELSE w.sum
\* The version a link of the target shows.
Shown(ref) == org.versions[IF ref \in DOMAIN org.versions THEN ref ELSE LatestOf(org, ref)]
\* The source version v is a file of the target record t.
IsFileOf(v, t) ==
  \E i \in DOMAIN org.links : /\ org.links[i].parent = t
                              /\ Fold(Shown(org.links[i].ref).title) = Fold(v.title)
                              /\ HasContent(Shown(org.links[i].ref), ContentOf(v))
AllTitles(versions) == [i \in DOMAIN versions |-> Fold(versions[i].title)]
\* Titles tell files apart, in the source and in the target.
TitlesTellApart ==
  /\ IsInjective(AllTitles(SourceVersions))
  /\ \A i, k \in DOMAIN job.org.versions :
       Fold(job.org.versions[i].title) = Fold(job.org.versions[k].title) => job.org.versions[i].doc = job.org.versions[k].doc

LinksToOwnFiles ==
  \A i \in DOMAIN org.links :
    org.links[i] \notin ToSet(run.before) \cup ToSet(job.org.links) =>
      \E k \in DOMAIN SourceLinks, n \in DOMAIN SourceVersions :
        /\ job.parents[SourceLinks[k].parent] = org.links[i].parent
        /\ KeyOfSource(SourceVersions[n]) = SourceLinks[k].ref
        /\ Fold(SourceVersions[n].title) = Fold(Shown(org.links[i].ref).title)

FilesComplete ==
  Finished /\ ~run.failed /\ ~SkipDml /\ job.op \in {"Insert", "Upsert"} /\ TitlesTellApart
           /\ ~(Direct /\ job.op = "Upsert" /\ (job.deleteOld \/ job.feed))
  => \A k \in DOMAIN SourceLinks, n \in DOMAIN SourceVersions :
       /\ KeyOfSource(SourceVersions[n]) = SourceLinks[k].ref
       /\ job.parents[SourceLinks[k].parent] # None
       /\ ContentOf(SourceVersions[n]) # None
       => IsFileOf(SourceVersions[n], job.parents[SourceLinks[k].parent])

\* Files, attachments and notes of other records are never deleted, those of
\* the task's records only by Delete or deleteOldData; a simulation, a
\* Readonly operation and an export to files change nothing in the target.
OnlyAskedChanges ==
  [][/\ SkipDml \/ job.op = "Readonly" => org' = org
     /\ \A id \in DOMAIN org.versions \ DOMAIN org'.versions :
          /\ DeletesOld(job.op)
          /\ \E i \in DOMAIN org.links : /\ org.links[i].parent \in job.targets
                                        /\ Shown(org.links[i].ref).doc = org.versions[id].doc
     /\ \A r \in ToSet(org.rows) \ ToSet(org'.rows) : DeletesOld(job.op) /\ r.parent \in MappedTargets]_vars

Copies(v) ==
  Cardinality({id \in DOMAIN org.versions \ DOMAIN job.org.versions :
                 org.versions[id].title = v.title /\ HasContent(org.versions[id], ContentOf(v))})
UploadedOnce ==
  Direct /\ ~run.failed /\ TitlesTellApart /\ ~job.feed /\ job.skip = {} /\ None \notin {job.parents[p] : p \in DOMAIN job.parents} =>
    \A n \in DOMAIN SourceVersions :
      /\ job.op = "Insert" => Copies(SourceVersions[n]) <= Cardinality(done)
      /\ job.op = "Upsert" => Copies(SourceVersions[n]) <= 1

\* After an Insert or an Upsert without refused rows every file of a migrated
\* record is a file of its target record, with the content of the source.
\* (Not for Upsert with deleteOldData between orgs, nor for Upsert of feeds.)
\* And a file is uploaded once: by Upsert, however often the add-on runs for the
\* task, by Insert once for each event, also when its trigger is repeated.
\* (Not when targetWhere hides files or records have no target.)
UploadsAreRight == FilesComplete /\ UploadedOnce

NewLinks(t) == {i \in DOMAIN org.links : org.links[i].parent = t /\ org.links[i] \notin ToSet(run.before)}
CountersRight ==
  Finished /\ ~SkipDml =>
    \A p \in DOMAIN job.parents :
      /\ run.up[p] <= run.down[p]
      /\ job.parents[p] # None => run.up[p] = Cardinality(NewLinks(job.parents[p]))

\* A link the add-on makes leads to a file with the title of a source file of
\* the same parent: results of uploads, documents and parents are told apart
\* even when some rows of a chunk are refused.  And the summary of a parent tells
\* how many links it has got, never more than there were files for it.
LinksAreRight == LinksToOwnFiles /\ CountersRight

\* Every row of the package has a binary of its own with its own content,
\* whatever the order in which downloads end.  (Not when an attachment and a
\* file have the same name.)
ApartNames == ToSet(AllTitles(run.versions)) \cap {Fold(run.rows[i].name) : i \in DOMAIN run.rows} = {}
PackageOwnContent ==
  Finished /\ job.targetFile /\ ApartNames =>
    \A rows \in {out.versions, out.rows} : \A i \in DOMAIN rows :
      IF Binary(rows[i].row) = None THEN rows[i].file = None
      ELSE out.binaries[rows[i].file] = Binary(rows[i].row)
=============================================================================
