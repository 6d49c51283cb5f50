# SFDMU in TLA+

TLA+ models of the SFDX Data Move Utility (`sf sfdmu run`): how a script becomes
tasks, what is read, what happens to the values of records and of CSV files on the
way, what is written to a target org, in which order, and what a user may rely on
when calls fail, answers come late or a run is started again. TLC checks the models
on small instances; TLAPS proves the central invariants for every instance.

Line numbers refer to `src/src/modules/...`; J is `models/job/MigrationJob.ts`, T
`models/job/MigrationJobTask.ts`, O `models/script/ScriptObject.ts`, E the `index.ts` of
ExportFiles. `PROJECT.json` maps every definition to the lines it stands for.

## 1. The system

A run loads `export.json` into a *script*: object sets, each a list of *script
objects* (a query, an operation, an external id and options). For each set the
run service builds a `MigrationJob`, which describes the objects, repairs CSV
sources, plans the order of its tasks and executes them. A `MigrationJobTask`
handles one object: it queries source and target, matches records by external id
and sends inserts, updates and deletes through an *API engine*.

| Component | State | Operations | Talks to | Modelled by |
|---|---|---|---|---|
| Run service (`SfdmuRunService`, the command) | the current set, exit status, target directories | object sets one after the other, stages of a job, finish | job, add-ons, orgs, the user | `RunService` (partly) |
| Script model (`Script`, `ScriptObject`, `ScriptOrg`, `ScriptLoader`) | the configuration | build object sets, defaults, normalise operations, queries and flags; the production prompt | the whole system reads it | `JobSetup`, `RunService`, `FieldMapping` (partly) |
| Describe and completion of the script (`setupAsync`, `OrgMetadataProvider`) | the shared metadata caches, fields, operations and exclusions of script objects | concurrent describes, add parents, link lookups, adapt operations, exclude objects, fields and lookups | org metadata | `JobSetup` (partly) |
| CSV source files and their repair (`processCsvAsync`, `CsvValidationService`, `Common`) | raw files, cached tables, the set of updated files, issues | validate, repair columns, lookups and Ids, save, report; read and write cells | files, the user (prompt) | `CsvRepair`, `CsvValues` (partly) |
| Task planning (`_createTasks`) | `tasks`, `queryTasks`, `updateTasks`, `deleteTasks` | chain of insertions, bounded sorts, special orders | script objects (read) | `TaskPlan` |
| Retrieval (`_calculateRecordCountsAsync`, `_retrieveRecordsAsync`, `retrieveRecordsAsync`) | counts, records per task and side, values already asked for | counting; five passes over the source, one over the target, with filtered queries | org queries | `TaskQueries`, `Retrieval` (partly) |
| Update passes of a job (`MigrationJob`, `MigrationJobTask`, `TaskData`, `TaskOrgData`, `ProcessedData`) | `sourceToTargetRecordMap`, the records held in memory, lists of records to insert and update, the missing-parents report, the prompt flag | delete old data, three update passes with insert and update calls, person accounts, file targets, reports, hierarchical delete, abort | engines (calls), the user (prompt), add-ons (hooks) | `MigrationUpdate` (which rows), `Records` (which values) (partly) |
| Field, object and value mapping, masking (`MappingResolver`, `ObjectMapping`, `MockGenerator`) | tables from CSV files, mock counters | rename objects, fields, values; mask, truncate | script, tasks | `FieldMapping`, `RecordValues` (partly) |
| DML calls and API engines (`_executeCrudAsync`, `RestApiEngine`, `BulkApiV1Engine`, `BulkApiV2Engine`) | chunks, batches, promises, pollers, error fields of records | choose an engine, send chunks in parallel and batches serially, poll, give up, fall back to REST, match results | the org, jsforce events | `DmlCall`, `DmlContract`, `BulkV1Job`, `ResultMatching` (partly) |
| Add-on manager and runtime | loaded add-ons by event | load, run handlers in order, expose data and services | job (shared task data) | `RunService`, `ExportFiles` (uploads) (partly) |
| Core add-ons (`ExportFiles`, `RecordsTransform`, `RecordsFilter`) | the keys processed in a run, files of source and target, packages | copy files with links, attachments and notes between orgs, to and from packages | engines, task data, files | `ExportFiles` (partly) |
| Org queries and connections | connection, query-bulk threshold | REST, bulk and CSV reads | jsforce | `Retrieval` (a query is one answer), `CsvValues` (files) (partly) |
| Logging | log buffers | messages, anonymising | none | not modelled: decides nothing, prompts apart, which are in the models that ask |
| Add-on SDK and examples | none | declarations, examples | none | not modelled: no behaviour of its own |

### Where it is hard, and what must hold

*Interleaving.* The job itself is serial (`Common.serialExecAsync`), but a DML
call is not: chunks run in parallel, go on after the call has thrown, and a Bulk
API 1.0 batch is settled by whichever comes first of library events, the engine's
poller and the clock. A call must come back, must not send a record twice, and
what it reports must be what the org did. Describes run concurrently on shared,
mutable descriptions that later object sets find as earlier ones left them: the same
set must give the same tasks. Downloads of a package end in any order.

*Partial failure and restart.* The org refuses rows; a call throws after other
batches were committed; the user refuses to go on; then the job is started again.
Rows must be neither duplicated nor lost, links must stay right, and every lookup
that can be completed must be; files must reach their own parents whichever rows of
a chunk were refused.

*Ordering.* Master-detail lookups can only be written on creation, so masters come
first; circular and self references need the backward passes; deletes go the other
way round. Filtered queries need the records retrieved before. Results of a bulk
insert come back in another order than the records; filters of users and add-ons
drop and reorder records between two lists that are joined again later.

*Stale state.* Records held in memory are compared instead of the rows they stand
for; IN values already asked for are remembered across passes and orgs; a repaired CSV
file is saved only when it was marked as updated.

*Protocol.* Before anything is changed, orgs are connected, production orgs confirmed
and add-ons loaded; handlers run between and inside the stages; any of them may throw,
and later object sets come after what earlier ones did. Removing an object removes lookups,
which may leave other objects without fields, and so on.

*Long ways of a value.* A value is trimmed, mapped, masked, cut, renamed, compared as a key,
written, and read again by the next run or from a file: it must not be lost, shown when
it is masked, or end in the row of another record.

*Numeric edges.* Chunk and batch sizes are rounded; sorts stop after ten passes;
records are matched by a 32-bit hash; IN clauses are cut by length; limits and counts.

`PROJECT.json` lists each such hazard at its line with the properties about it.

## 2. The modules

```
GraphCopy <-- MigrationRefinement --> MigrationUpdate
                     ^-- MCMigrationUpdate, MigrationUpdateProofs
FieldMapping, RecordValues <-- Records <-- MCRecords
Subsequences <-- TaskPlan              <-- MCTaskPlan, TaskPlanProofs
TaskQueries <-- Retrieval              <-- MCRetrieval, RetrievalProofs
JobSetup                               <-- MCJobSetup, PreparationProofs
CsvRepair, CsvValues                   <-- MCCsvRepair,  CsvValues <-- PreparationProofs
ExportFiles                            <-- MCExportFiles
DmlContract <-- DmlCall                <-- MCDmlCall, DmlProofs
      ^-------- BulkV1Job              <-- DmlProofs
ResultMatching                         <-- MCResultMatching, ResultMatchingProofs
Subsequences <-- RunService            <-- MCRunService, RunServiceProofs
Subsequences <-- SequenceFacts         <-- TaskPlanProofs, RetrievalProofs, RunServiceProofs, PreparationProofs
```

`RunService` is the command around the jobs. The other models follow the stages of one job.
`JobSetup` turns the script into tasks, `CsvRepair` prepares the files it reads,
`TaskPlan` yields the lists of tasks that `Retrieval` and `MigrationUpdate` take as
constants. `MigrationUpdate` is about which rows there are and where they point, with one
value for a payload; `Records` is about the values, with one pass of each kind. Each
insert, update or delete of `MigrationUpdate` is a DML call, which that module takes at
its contract: `DmlContract`, implemented by `DmlCall` and, for the batches of a Bulk API 1.0
job, by `BulkV1Job`. That a record gets its own Id back is what `ResultMatching` is about.
`ExportFiles` runs at the events `RunService` triggers, with the links from source to
target records that a job has made.

### MigrationUpdate

One object set with a target org: `MigrationJob.executeAsync` (J:472)
from `_deleteOldRecordsAsync` to the hierarchical delete. `phase` is the stage, `k`
the task whose turn it is, `step` how far its `updateRecordsAsync` (T:659) has come.

| Action | Code |
|---|---|
| `DeleteOld` | `deleteOldRecordsAsync`, one task |
| `Retrieve` | the target pass as far as matching goes: `registerRecords`, `_linkSourceToTargetRecord` |
| `Prepare` | `_createProcessedDataAsync` (lookups, target filter, comparison, classification), the missing-parents report and prompt, `_populateProcessedRecords` |
| `InsertRows`, `InsertThrows` | the insert call of `_updateRecordsForPassAsync` with `_registerInsertedTargetRecords` |
| `UpdateRows`, `UpdateThrows` | the update call |
| `SkipTask`, `PassDone`, `Finish` | the loops over tasks and passes in `_updateRecordsAsync` |
| `DeleteHierarchy` | `deleteRecordsAsync` |
| `Rerun` | the same job is started again; only the orgs remember |

`link` is `sourceToTargetRecordMap`, `snap` the linked target record held in memory,
`org` and `live` the rows of the target. A payload is one value; external ids are
model values; the operation is the normalised one, with Delete and deleteByHierarchy
written `DeleteHierarchy`. `failed`, `born`, `created`, `settled` are history.

The org accepts any subset of the rows of a call. A call that throws may have created
or changed any subset too, and the job aborts (`DmlContract` is why nothing more is
needed). Assumed: calls in flight have settled before the job is started again.

`GraphCopy` says what a job of Upsert, Update and Readonly objects promises over all
its starts: copies and carried-over references only ever grow. `MigrationRefinement`
gives the mapping: the copy of a record is the row with its external id.

Not modelled: deletion from the source (`DeleteSource`), which is a stage of
`RunService` without records, simulation mode, and what add-ons do to records.

### FieldMapping, RecordValues, Records

What becomes of the values. `FieldMapping` holds the operators that name objects and fields
in the target (`MappingResolver`, `ObjectMapping`, `targetQuery`,
`_precomputeMappedFieldNames`), `RecordValues` those that mask, truncate and map values.
A name is a sequence of paths, so that complex external ids and fields of parents can be
taken apart; a value is a model value with tables for what the code makes of it (trimmed,
cut, joined first and last names, the outcome of an expression).

`Records` runs a job of two objects twice:

| Action | Code |
|---|---|
| `Retrieve` | `_retrieveTargetRecordsAsync`, `registerRecords`, `_linkSourceToTargetRecord`, one step for all tasks |
| `Prepare` | `_createProcessedDataAsync`: clones, lookups, person and business fields, masking, truncation, value and field mapping, filters, pairing the clones with their sources again |
| `WriteRows` | `_updateRecordsForPassAsync` with its reports |
| `PersonContacts` | `_insertPersonContactsFromPersonAccountsAsync` |
| `WriteFile` | `_updateRecordsForFileTargetAsync`, `_writePlainTargetCsvFileAsync` |
| `RunAgain` | the same job is started again |

The target org makes a contact for each person account inserted and answers queries by
path. A filter (the target records filter, an add-on at `filterRecords`) returns any of the
records in any order.

Not modelled: polymorphic names, normalisation of casing, locales, random mocks,
`creatable`/`updateable` flags and `skipExistingRecords` (`MigrationUpdate` has them),
the second backward pass, records replaced at `onBeforeUpdate`, simulation. Person fields are first and last
name; parents of file targets have plain keys.

Three properties except what the code does not give. `MaskedThroughout`: a reference column that the child's source
record has itself is not filled in (T:1270) and keeps the parent's unmasked key. `InsertsReported`: report files
are named after the target object (T:3491), so that of the objects mapped to one target object the last report
replaces the others. `FoundAgain`: a complex key behind a mapped relationship is not read.

### JobSetup

`ScriptLoader` (script/ScriptLoader.ts:91) and `MigrationJob.setupAsync` for one object set after
the other. An org is a constant: what it says of its objects. `describes` is the mutable part
of the describes in the caches all sets share; `phase` is the step of `setupAsync`, `resume` the
one that follows the describes under way.

| Action | Code |
|---|---|
| `LoadSet` | `createScriptForObjectSet`, `ScriptObject.setup` |
| `DescribeSource`, `DescribeTarget`, `FixPolymorphic` | `_describeObjectsAsync` (J:1526), `ScriptObject.describeAsync`, one answer of one call at a time, in any order; each may fail |
| `DescribesDone` | the `Promise.all` around them |
| `AddParents` | `_ensureParentLookupObjectsAsync`, which describes what it adds and starts over |
| `Link` | `_linkLookupRelationships` |
| `NormaliseOperations` | `_normalizeOperationsByMetadata` |
| `Exclude` | `_excludeObjectsAfterDescribe` |
| `AddUserGroup` | `_ensureUserGroupPairAfterExcludeAsync` |
| `RemoveLookups` | `_removeLookupsToExcludedObjects` |
| `CreateTasks`, `PrepareTask`, `SetDone` | the tasks and their preflight (`_prepareTaskForPreflightAsync`, in any order) |

Parents that are added come in one order (`Listed`), on which nothing depends. Assumed of a script and the orgs
(`IsScript`, `OrgAssumption`): not both sides are files, a set lists an object once, what an org
says of an object is finite, every object has an Id, and neither that nor the names of users and groups are lookups.

Not modelled: parsing of queries, complex and RecordType external ids, compound fields, field mapping, an
object listed twice in a set, describes made for relationship fields.

### CsvRepair, CsvValues

`CsvRepair` is `processCsvAsync` (J:412): `PrepareUserAndGroup`, then `CopyAsIs` or
`Validate` for each task, `Ask`, and over the cached files `RepairColumns`, `RepairLookups`,
`RepairIds`, `Save`, `Report`, one task at a time as in the serial loops of the code. A file is
a sequence of rows, a cached file an ordered map by Id, as the `Map` of the code; `work.updated` is
`updatedFilenames`, which decides whether the raw file or the cache is saved.

`CsvValues` follows one cell: `Export` (writing a target file), `LoadIntoCache` (reading a user's
file without types), `SaveInternal` or `CopyRaw` (into the source directory) and `ReadByType` (into
the job). A text is a word or the numbers of a date, with blanks, carriage returns and
special characters as attributes. A value that comes from an org (`IsOrgValue`) is null, a boolean, a number or
a text where the column has that type; texts of dates are in the format of the API.

Not modelled: `forcePostProcessCsvIdFix`, failing writes, rows the parser cannot read, encodings,
`preserveRawNullTokens`, four-digit years below 100.

### TaskPlan

`_createTasks` (J:381) with `_buildTaskChain`, the master-detail sort,
the query sort, the special orders and `keepObjectOrderWhileExecute`. Each insertion
into a chain and each pair a sort compares is a step; sorts iterate over a copy of the
list while they splice it, as in the code. `Picked` of `Subsequences` is the `filter` of a list.

`TasksOrdered` is what holds of the three finished lists whatever the script looks like: each has every
task once, a parent the chain puts first stays before its child in the order of lookups, and objects
queried in full come before filtered ones. `SortsSuffice` is what ten passes of the two sorts of the
update order achieve in the graphs of the run.

### TaskQueries, Retrieval

`CountRecords` is `_calculateRecordCountsAsync`. Then the six serial passes of
`_retrieveRecordsAsync` (J:1141): forwards, backwards twice, reversed twice over the source,
then the target, one task in a step: `RetrieveCsv`, `RetrieveAll`, `RetrieveFiltered`,
`RetrieveTarget`, `SkipTask`. A query is full or filtered by the values of lookups to (or
from) records found so far; `queried` is the cache of IN values, shared by both sides.
`TaskQueries` says what is done to the text of a query: conditions added, removed and cut
into several IN clauses, limits kept and dropped. A failing query throws out of the job, so
behaviours just end there, a failing count does not; orgs do not change while records are read.
The target is asked for by external ids only where the key is a plain field (`KeyIsSimple`, T:3996), and an object
deleted by hierarchy is never read in full (`FullTarget`, T:4767): with a composite key, one through a
parent or a lookup as key nothing of it is found, which `TargetComplete` excepts, next to a LIMIT and to
deleting by hierarchy what is matched by Id.

Not modelled: OR and parentheses, ORDER BY, OFFSET and GROUP BY, paging, the cache of source
records, the lookup maps that only feed reports, DandBCompany.

### DmlCall, DmlContract

One `_executeCrudAsync` (T:3569). Chunks, batches, the throttle of
`parallelExecAsync`, rejection by the first failing chunk, chunks nobody waits for any
more, batches the org runs after the client gave up, the choice of the engine
(`resolveEngineType`, T:3688), the REST repetition of a hard delete that Bulk API 2.0
refuses, and the two requests of a hard delete over REST (`_emptyRecycleBinAsync`), either
of which may fail or be carried out late. `call`, one of the constant `Calls`, holds the
arguments and the script's settings. `DmlContract` is what callers rely on: a call
that returned has settled every record and leaves the org alone, verdicts tell what
the org took; a call that threw may still change the org. A hard delete that purges has
taken a record once it left the recycle bin: a row deleted but not purged has an error.

Not modelled: simulation mode, an empty answer to `emptyRecycleBin` (the results of the
delete are kept), rows that were in the recycle bin before.

Script-level `parallelRestJobs` never takes effect (`ScriptObject.parallelRestJobs`
defaults to 1): the constant is the object's value.

### BulkV1Job

`_executeBulkV1Async` and `_executeBulkV1BatchAsync` (BulkApiV1Engine.ts:124-285). For
each batch: the jsforce batch with its events (external), `pollAsync`, and whether
POLL_TIMEOUT has passed. A promise is settled once; late pollers must notice. A
batch is taken or refused as a whole here; single records are `DmlCall`'s subject.

### ResultMatching

`_applyBulkV2Results` (BulkApiV2Engine.ts:281) with `compareArraysByHashcode`,
`compareArraysByProperty` and `getObjectHashcode` (Common.ts:361-533). The hash is
computed as in the code from normalised values joined without separators.

### ExportFiles

The core add-on at one task, triggered at its events, also repeatedly (`Trigger`, `Ignored`:
`onExecute`, E:188). `run` is what one call keeps, `org` the target's versions, links and rows,
`done` the processed keys, `out` the package.

| Action | Code |
|---|---|
| `ReadTarget`, `DeleteTargetFiles` | `readTargetContentVersionsAsync`, `deleteTargetFilesAsync` |
| `Compare` | `readFileSourceRecordsAsync`, `compareContentVersionsAsync`, the chunks by size |
| `UploadChunk` | `transferContentVersions` (SfdmuRunAddonRuntime.ts:279) |
| `LinkFiles` | `writeFileTargetRecordsAsync`, `writeFeedAttachmentTargetRecordsAsync` |
| `ReadPackage`, `WritePackage` | `_executeFileMediaModeAsync`: the package from CSV or the org, to CSV with binaries |
| `RemoveOld`, `MakePlan`, `UpdateVersions`, `InsertNew`, `LinkPackage` | applying a package: `_buildFileOperationPlanAsync` and its execution |
| `StartRows`, `InsertRows` | attachments and notes |
| `Throws` | a call of any of these fails |

Not modelled: counters of attachments, absolute and wildcard paths of binaries, choice of the output directory,
the parser of duplicate delimiters, an unreachable branch (E:1568), what `onInit` changes in
queries. Taken for granted: parents of feeds are content posts, and different source records
have different target records.

### RunService

One command: `SfdmuRunService.executeAsync` (SfdmuRunService.ts:124) and, for each object
set, `_runObjectSetAsync` with the stages of `MigrationJob.runPipelineAsync`. `stage` is
where the object set stands, `k` and `step` the task and its turn in a stage, `queue` the
handlers the current event still has to run, `status` the exit status.

| Action | Code |
|---|---|
| `Start` | `executeAsync` up to the first set, with the organization types read for the summary |
| `ClearTargetDirectory` | `_clearTargetDirectoryForObjectSetAsync` |
| `SetupOrg`, `PromptUser` | `ScriptOrg.setupAsync`, `promptUserForProductionModificationAsync` |
| `InitializeAddons`, `RunHandler` | `initializeAsync` with the three sources of add-ons, `triggerAddonModuleMethodAsync` |
| `SetupJob`, `ProcessCsv`, `Prepare` | the stages of the same names; what they compute is a choice |
| `GlobalEvent`, `ObjectEvent` | `_runAddonEventAsync`, `_runObjectAddonEventAsync` |
| `DeleteRecords`, `RetrieveRecords`, `UpdateRecords`, `DeleteSourceRecords` | the stages of `executeAsync` and of an update pass, for orgs and files |
| `UpdateFails` and each `Throw` | an exception, as `_finishWithError` maps it to a status |
| `NextObjectSet` | the loop over object sets |

`SetupJob` leaves any of the objects of a set, in any order: which order is `TaskPlan`'s subject.
`TasksAt` is the list a stage goes through. When some task deletes from the source, the forward pass has those
tasks only (`deleteTasks`, J:1233), while the backward passes have all: an object that is only written gets two
turns then instead of three, and none into a file (`Turns`).
`changed` records which side of which set was changed by which operation, `log` the
handlers and DML calls of the set, `files` who wrote the target directories. Which
orgs answer, which modules load, what users and handlers do is nondeterministic.

Not modelled: --version, simulation mode, the choice of the API version, one org given for
both sides, fallbacks of module paths, modules without `onInit`, pass numbers given to handlers,
CSV files written for the source.

## 3. Runs

One run for each question, each over all the instances that bear on it.

| Run | States | Question and instances |
|---|---|---|
| MCUpsert | 215 225 | Two objects upserted, prompts, rejected rows, throwing calls, two starts: are rows linked by key and never duplicated, lookups completed, never misdirected, and reported when lost? Does the job implement `GraphCopy`, and does a start after a clean run change nothing? |
| MCDelete | 394 198 | Old data deleted first, inserts of source records that share an external id, a target filter that lets fewer records through in the backward passes, a hierarchical delete last, two starts: do only rows disappear that the script asks for, and does every started job end? |
| Records | 63 204 | Filters that drop and reorder, refused rows, person accounts however the flag is spelled, renamed objects and fields with keys that hold the parent's key, two objects mapped to one, masking, truncation and value mapping, into an org and into files, two runs: does each row hold its own record's values, is nothing masked shown in rows and filled-in references, do references meet rows, are rows found again and reported? |
| Setup | 53 483 | 313 scripts: every operation on objects that allow it or not, into and out of orgs and files; chains of lookups with objects excluded, missing or left with their Id; excluded fields, the Id among them; a key that is a lookup, lost with its parent or joined late; lookups that may refer to users, excluded or joining the set again; three object sets that share describes: are only asked writes left, do tasks fit the orgs and each other, does a set give the same tasks whatever came before, and does setup end? |
| Csv | 173 291 | Files with and without the columns of lookups and Ids, headings in other case and with blanks, twice the same one, missing and empty files, equal, blank and missing Ids, users and groups in one file; and every kind of cell by every type: are all rows and values kept, do both columns of a lookup lead to one row, does a cell arrive as what the user wrote? |
| Plan | 403 212 | Every acyclic master-detail graph of four objects, every lookup graph of three next to RecordType, readonly and deleted objects, partly processed objects, special pairs, kept order, in every listed order: does planning lose nothing and order tasks and queries as later stages need? |
| Retrieve | 634 158 | Thirteen scripts: children and parents of an object read in full, circles, self lookups, a CSV source, filters that fail, excluded fields, limits, either query order, full and filtered target queries, failing counts: does everything come that must, nothing that need not, is the target found, and do the counts tell what is read? |
| Dml | 48 101 | A REST insert in two parallel chunks of two and one batches, a bulk update of three jobs at the threshold, a bulk hard delete that is refused and is or is not repeated, with and without purging, a hard delete of an object without Bulk API, an ordered delete: does the call keep its contract, send nothing twice and come back? |
| BulkV1Job | 14 131 | Three batches, events, poller and clock in every order: the same contract, and no late checks |
| Results | 101 528 | Inserts and updates of three records, every outcome and order of the result lists: does each record get its own result when Ids or hashes tell it apart? |
| Files | 1 245 120 | 88 calls of ExportFiles: every operation with and without old data deleted, between orgs with an empty, older or equal target, feeds, chunks, packages written and applied with links, missing binaries and equal titles, refused rows and failing calls, repeated triggers: do links lead to the right files, are files uploaded once, has every row of a package its own binary, and is nothing changed that was not asked for? |
| RunService | 58 925 | Thirty-five commands of two object sets (A and B, then C), some of which delete from the source, between production orgs, sandboxes and files, with every operation, add-ons from the script, the core and custom manifests, warnings taken as errors, and failures everywhere: are production orgs changed only when confirmed, do handlers run when and as often as declared, do output files stay, and is the exit status true? |

### Bounds, and why they are enough

*MigrationUpdate*: two objects, three source records, two rows at first and three
fresh Ids, at most two starts. The two objects refer to each other, one to
itself, one lookup is create-only and one is updateable, one reference leaves the
retrieved set: every kind of lookup next to every other. The initial orgs are empty,
stale, wrongly linked and already filled. Two starts suffice because only the org
remembers an earlier start and its type is the initial one again. Fresh Ids are
symmetric in MCUpsert, whose properties name no Id; MCDelete checks liveness and does
without. The operations Update and Readonly and a child's task before its parent's are
covered by the theorems, not by an instance.
*Records*: two or three accounts with a contact each; objects that share a target object have different keys. What could go wrong is a pairing of two
lists or a value of one of them, for which two records that differ in everything suffice; two
runs because only the target remembers the first.
*JobSetup*: two orgs of seven objects, sets of up to two entries that grow by the parents they
need, three sets, at most one failing call in a run (`MaxFaults`): after a failed describe an object is
either excluded or setup ends, so that a second failure meets nothing new. `MCPolymorphic` and `MCOrg` hold
each kind of lookup: to an object without a name, to one the target lacks, polymorphic ones, to users
and groups.
*CsvRepair*: five objects, files of up to three rows, so that two rows can collide and a third be
in between. *CsvValues*: one cell at a time; cells do not meet.
*TaskPlan*: four objects in every graph; `MaxPasses` = 10 as in the code.
Ten passes fail only for master-detail chains deeper than Salesforce's limit of three.
*Retrieval*: three objects of two rows, all links between them, at most one second row out of the scope
of its query, and either count of one object failing: a chain of three objects is the longest that the two passes
in each direction are meant for.
*DmlCall*: five records so that chunks and batches come out uneven, and bulk thresholds just reached and just missed.
*BulkV1Job*: three batches, since a batch only meets its predecessors' pollers.
*ExportFiles*: two source records with a shared file, a link and a file too large, two events; chunks
of one to four units.
*RunService*: two object sets of two and one objects, since a set only meets what earlier
sets did to orgs, files and prompts; at most three add-ons, one for each way of naming
objects; each operation and each kind of org meets the others it matters to.
*ResultMatching*: three records of two fields; the texts are too short to overflow the
32-bit hash (`StringHashcode`), so collisions are those of the normalisation, the joining and
the polynomial, which are there for short texts already.

Deadlock is not checked where the modelled thing ends: a DML call, a bulk job, a matching, the setup
of the sets, the repair of files, a cell, the calls of ExportFiles. In the other modules the end is an
explicit stuttering action, and a deadlock would be an error.

### Fairness

`MigrationUpdate`: weak fairness of `Step`: every await of the job settles, which is
what `CallSettles` and `JobSettles` establish for the DML calls; nothing obliges anyone to
start the job again. `JobSetup`: weak fairness of `Next`: every describe is answered or fails, and
the rest is synchronous. `DmlCall`: weak fairness of its steps: a request is answered,
fails or runs into its timeout. `BulkV1Job` assumes less: only the engine's own
requests and timers come back and time passes; neither the library's polling nor the
org is assumed to do anything, and the job still ends, by the engine's poller.

## 4. Theorems

| Theorem | Statement | Inductive invariant |
|---|---|---|
| `MigrationUpdateProofs!TypeCorrect` | `Spec => []TypeOK` | `TypeOK` |
| `LinksAreRight` | `Spec => []LinkedToOwnKey` | `LinkInv = TypeOK /\ LinkedToOwnKey /\ Unlinked`: `Unlinked` says that no record is linked before the target was read, so that deleting old data cannot break a link |
| `UpsertsAreUnique` | `UniqueKeys /\ Spec => []NoDuplicateRows` | `DuplicateInv`: adds that during the passes a record still unlinked has no row in the target (`KnownRows`), that only unlinked records are planned for insertion, and that nothing is planned before the passes: what makes an insert safe |
| `LookupsAreRight` | `Spec => []ParentsAreRight` | `ParentInv`: adds that a planned update is for a live row with the record's own key (`PlannedUpdates`) |
| `DeletionsAreAsked` | `Spec => OnlyAskedDeletions` | `LinkInv` |
| `LossesAreReported` | `Spec => []LossesReported` | `ReportInv = TypeOK /\ PlansAreCurrent /\ TasksReported /\ LossesReported`: plans belong to the task that has the turn, and in the last pass every task before it has reported what it could not resolve |
| `GraphIsComplete` | `UniqueSourceKeys` gives `Spec => []GraphComplete` | `GraphInv = RowsInv /\ TasksResolved /\ LookupsComplete`: no row is linked to two records, the record in memory agrees with its row except where the row is already right (`SnapshotsAreRight`, `CreatedAreRight`), and in the last pass every task before the current one is resolved |
| `GraphIsCopied` | `OnlyCopies` gives `Spec => CopiesGraph`: the job implements `GraphCopy` | `CopyInv = RowsInv /\ KnownSources`; each step is then a step of `GraphCopy` or leaves its variables alone |
| `RerunsChangeNothing` | `OnlyOnce` gives `Spec => SettledRerun` | `RestInv`: after a settled run every upserted record has its one row and the rows hold what the passes would write (`AtRest`); what a run plans is kept by the filter and asked for (`PlansAreAsked`); and while nothing was rejected, the forward pass has set the values and the last pass the lookups of every record it is through with (`Progress`) |
| `RetrievalProofs!RetrieveOnlyRequired` | `Spec => []OnlyRequired` | `TypeOK` and `Connected`: any set of rows in memory that holds those read on their own (in full or from a file) and, with a row, all rows linked with it holds every row in memory |
| `RetrieveCountsRight` | `Spec => []CountsRight` | only rows of tasks that match their query are read (`SourceMatches`, `TargetMatches`), those read in full by their pass and by no other (`SourceInFull`, `TargetInFull`), and a count that did not fail is that of the query (`CountsTaken`) |
| `RetrieveTargetComplete` | `Spec => []TargetComplete` | `SourceMatches`; external ids are cached by the last pass only (`ExternalIdsCached`), so that none is skipped for an earlier query; a key that is asked for is a plain one, and otherwise the target is read in full (`KeyIsSimple`, `FullTarget`); and the objects this pass is done with have their rows (`TargetFound`) |
| `RetrieveRelatives` | `Spec => []RelativesRetrieved` | `SourceInFull`, `FilesRead`; a cached value has brought the rows it stands for (`IdsCached`, `ParentsCached`); and for the row that came in a pass (`FirstRead`) what the later passes leave behind no more: no parent by a reversed one, no child by the second backward one (`ParentsRead`, `ChildrenRead`) |
| `TaskPlanProofs!PlanInOrder` | `Spec => []TasksOrdered` for any script, circular lookups included, and any number of passes | `PlanInv`: the chain and the objects still to be inserted, the list being sorted and the lists already made have the objects of their kind, each once. `QueryInv`: objects read in full come before those no special pair moves. `LookupInv`: the chain holds the first objects of the script, the ones that are not written at its beginning (`ChainOfFirst`), and the parents of the lookups it keeps precede their children (`ChainOrdered`) |
| `DmlProofs!JobTypeCorrect` | `JobSpec => []JobTypeOK` for any number of batches | `JobTypeOK` |
| `JobContractFulfilled` | `JobSpec => JobFulfilsContract` for any number of batches | `BatchInv`: a batch resolved with results was carried out by the org, a verdict says what the org did with its batch, and every batch before the current one has a verdict |
| `TypeCorrect`, `NothingTwice` | `Spec => []TypeOK`, `Spec => []AtMostOnce` | `DmlInv = TypeOK /\ CallInv /\ ChunkInv /\ RecordInv`: a record belongs to one batch of one chunk, and where that chunk stands says whether the org has taken it; a refused attempt has changed nothing before the next one starts |
| `ContractKept` | `Spec => FulfilsContract` for any number of records and any sizes of chunks and batches | `DmlInv` |
| `ResultMatchingProofs!ResultsReachRecords` | `Spec => []ResultsAreRight` for any hash | `MatchInv`: the org has answered for its records in some order, and either no result or every result was applied. The counters number the occurrences of a key, so that records and results of one key pair off |
| `RunServiceProofs!ProductionIsConfirmed` | `Spec => []ProductionConfirmed` for any number of sets | over `StateOK` (stages, sets and tasks are in range) `ConfirmInv`: past a prompt of a set the org's type is known and the prompt is settled for that set |
| `FilesStayFresh` | `Spec => []FilesAreFresh` | `FilesInv`: the sets whose directories were cleared hold no files of an earlier run, and only they have changed anything |
| `SuccessIsHonest` | `Spec => []SuccessIsComplete` | `SuccessInv`: a command that only validates never reaches a stage that changes data |
| `AddonsAreRight` | `Spec => []AddonsRunAsDeclared` for any add-ons, sets and tasks | `HookInv`: an add-on's calls in the log and in the queue are as many as its event has come up so far for an object it is meant for (`CallsCounted`; at most as many where there may be nothing to filter or no file), every write in the log and the one that is next have their `onBeforeUpdate` calls (`WritesPrepared`), what was changed was changed by a stage already reached (`ChangesInTime`), and what is queued may follow it (`QueueInTime`) |
| `PreparationProofs!OnlyAsked` | `Spec => []OnlyAskedWrites` | `SetupInv = SetOK /\ ObjectsOK /\ OnlyAskedWrites`: every object is within an entry of its set, or was added and asks for nothing (`AsAsked`); active objects are described before their operation is adapted (`StageOK`), and from then on the metadata allow what they ask for (`HasRights`, `Late`) |
| `TasksSound` | `Spec => []TasksAreSound` | over `SetupInv` `SoundInv`: the cached describes have the fields of the orgs and no link to a later set, and every object worked on is in them (`DescribesOK`); the query of an object is still that of its entry, as set up or as described (`QueriesOK`); what a lookup refers to is in the set or excluded from it once no parent is missing, linked once parents are, among those that stay once lookups were removed, and has a task when tasks are created (`LookupsOK`); users and groups that join late have no lookups (`NewcomersOK`); how far the objects are in each phase (`StagesOK`) |
| `CellsKeepValues` | `CellSpec => []ValuesKept` for any texts, columns and options | `CellInv`: what the file, the cache and the source directory hold, in terms of what the cell was given |

They hold for all objects, fields, records, graphs, scripts and orgs that satisfy the named
ASSUMEs of the modules, which TLC evaluates in the runs. These say how the constants are shaped, and: of a
set of records one was registered last (`LastAssumption`: ranks differ), a lookup refers to records
of the parent object of its field (`RefAssumption`), the tasks of a plan are different objects
(`TasksAssumption`), the text of a number is read as that number (`NumberAssumption`), lower case leaves the
reserved words of CSV files alone (`WordAssumption`), and scripts and orgs are as said under JobSetup (`ScriptAssumption`,
`OrgAssumption`). Those of `Retrieval` say that a scenario is one the program can meet (`ScenarioAssumption`): the two lists
of tasks hold the same objects, each once, and lookups are between objects with tasks, as `_createFilteredQueries` passes over a lookup
whose parent has none (T:3984); that there are finitely many rows (`RowAssumption`), and that no object is named like a field of
a condition (`NameAssumption`).
Four hypotheses belong to single theorems: `UniqueKeys` to
`UpsertsAreUnique` (with duplicate external ids the code does insert duplicates), `UniqueSourceKeys`,
its part about source records, to `GraphIsComplete`, and `OnlyCopies` (nothing is deleted, keys are unique) to
`GraphIsCopied`, which `OnlyOnce` extends for `RerunsChangeNothing`; the instance of MCUpsert satisfies all four. `OnlyOnce` needs
the rows of the target to have unique external ids, as a rerun may otherwise be linked to another row, and the filter to keep in
the backward passes what it keeps in the forward pass: else a lookup that cannot be written with its row is left to the next run.

The argument for `GraphIsComplete` is the least obvious one. A lookup that could not be written when its row was inserted is
written by the last pass only if the record in memory, which the code compares instead of the row, differs. The two may
disagree, as rejected updates and inserts leave memory as it was, but only where the row already has the value the lookup will
keep: the links of its parent object are final (`Final`), since the forward pass has been through the parent's task. And no row
may belong to two records, or one would undo what the other completed.

The argument for `OnlyAsked`: the operators on objects either keep what an object asks for or lower it (`Lowers`), and a lowered object
stays within its entry and within the metadata. The exception is the adaptation to the metadata, which may make an upsert an insert
or an update; it reads the describe, so the object must be described by then. Parents that are added get the names of no entry,
as every entry has its object, an excluded one too. The proof found two slips in the notation of the model that TLC's
reading had hidden, arms of a CASE that overlapped and a union without parentheses; both are mended.

The argument for `TasksSound` follows a query and a lookup through the phases. `FieldsAdapted` and `MissingRemoved` leave only fields of
both orgs; from then on a query loses lookups to excluded objects and gains keys of parents, which `applyDescribe` has checked. A lookup is
covered when `MissingParents` is empty; `Link` then gives it the parent it refers to, if that is active. An exclusion cannot take the parent
of a lookup away in the first round unseen, as the lookups to what was excluded are removed next, and `RemoveLookups` goes on to the tasks
only if there was none. In the second round every lookup that is left stays, and its parent is referenced: it can only be excluded for having
nothing but its Id, the exception the property names. What is loaded late cannot disturb this, as users and groups have no lookups.
The attempt showed that the property had said less than it seemed to: `ParentsHaveKeys` asked for objects at stage "ready" and for
their lookups, which were defined for stage "done" only, so that it looked at none. As it reads now it has to except a key that is a lookup and joins the query of a parent late, an Id that
is excluded, and lookups that may refer to users without being polymorphic; the scripts of run Setup reach each of them.

The argument for `RetrieveRelatives`: a row that comes into memory in some pass is followed by the passes that come after, each in an
order of the tasks. That a pass has asked for all relatives of the rows before it needs more than its own queries, as a value that was asked
for before is not asked for again: what the cache holds must have brought its rows (`IdsCached`, `ParentsCached`), which is true because
the conditions of a query that narrow it are the same each time. The cuts of a long IN clause are a recursive function, for which the
module proves that they lose no value (`Batches`, `Results`): the library's theorems on induction and recursion take operators, which the provers
cannot instantiate, so the module states its own, with the property a set and the step a function (`Induction`, `Recursion`), from the
library's definition of well-foundedness.

The argument for `PlanInOrder`: a parent inserted after its child is put before it. A child inserted after its parent goes to the end
of the chain, behind the parent, unless one of its own children is there already: it is put before that one, which may be left of
the parent. These are the cases of `LookupParentsFirst`, decided by the order of the script, which is what `ChainOfFirst` keeps; nothing
else changes the order of two objects in the chain. The sort that follows moves objects for master-detail lookups only, hence
`script.masters = {}` there. The lemmas on lists (an element inserted, removed, moved, picked, counted) are in `SequenceFacts`.

The argument for `AddonsAreRight` is one of counting. How often an event has come up for an object is written as a number that depends on
the stage, the task the stage is at and the turn that is under way (`Most`): one when a loop over the tasks has passed the object, and for the
update passes the rounds completed and the one begun, of which the forward one counts only for the tasks it has (`TasksAt`). Every step of a job either leaves that number alone or raises it by one and queues
the handlers of just this event and object (`Grows`), so that a handler counted in the log or in the queue is counted once: running
it moves it from one to the other. No task may be run twice in a pass for that, hence `IsInjective(tasks)`. When the object set is done the
number is the one of `Occasions`. The order of events and changes comes from the same stages: an entry of the queue is at most as old as its stage.

Only model-checked: what happens eventually (`JobEnds`, `SetupEnds`, `CallSettles`, `JobSettles`), as neither fairness nor
ENABLED is within the prover's reach; `SortsSuffice`, which is not true of every script: the passes of the sorts are limited and the pairs
must not contradict each other; and, of JobSetup, that the tasks are the same for the same object set (`SameSetSameTasks`), which
compares two ways through the setup. What `CsvRepair`, `ExportFiles` and `Records` say of whole files and record sets (`RowsKept`,
`RowsAreLinked`, `LinksAreRight`, `UploadsAreRight`, `PackageOwnContent`, `OnlyAskedChanges`, `OwnData`, `PersonContactsOfOwnAccount`, `MaskedThroughout`,
`ReferencesMeetRows`, `FoundAgain`, `InsertsReported`) rests on folds over sequences and on texts put together, that is on induction over data.

## 5. Where code and texts disagree

Met while modelling and followed as the code has it; a property that would not hold because of one of them
excepts it and says so. None is the subject of a run.

- *Update passes.* `skipExistingRecords` also skips records the job itself inserted, in the backward passes
  (T:3130; ScriptObject.ts:287 speaks of existing ones). `respectOrderByOnDeleteRecords` forces REST and batches of
  one but leaves parallel chunks (T:3696; ScriptObject.ts:236). When any object deletes from the source, the
  forward pass meets only the objects that delete, in the order of deletion (J:1233): one that is only written gets the
  two backward passes, which insert nothing, and none into a file. `onAfterUpdate` never runs for CSV targets. The report of the first
  pass is overwritten by later updates (T:3390), that of an object by those of another mapped to the same target object (T:3491).
- *Confirmation.* `deleteFromSource: true` changes a production source without a prompt, which looks for
  `DeleteSource` (ScriptOrg.ts:443 and 253). `ScriptOrg.isScratch` is never true (ScriptOrg.ts:396).
- *Matching.* Bulk API 2.0 inserts are paired by a hash of values or by place (Common.ts:531; ProcessedData.ts:52). A
  complex key that holds a parent's mapped field is not recognised in the target (O:3017), so that each run
  inserts again; so does a masked external id. Empty parts of complex keys are dropped (T:1808).
- *Retrieval.* The cache of IN values is shared by source and target (T:4008): with external id Id a
  hierarchical delete misses rows; with a composite or lookup key it asks for none (T:4769). A LIMIT is kept for the target and for each IN query (T:4083). Removing a condition on
  IsDeleted removes those after it (T:4134). An IN clause next to a WHERE of 3 900 characters never ends (Common.ts:1363).
  The file cache of queries is keyed by a hash of the query only (OrgDataService.ts:398).
- *CSV.* A file copied raw keeps the user's delimiter and is read in the internal format (J:3392; Script.ts:188). Words for
  null become "" by way of the cache, null without it. `validateCSVFilesOnly` does not stop a job with `importCSVFilesAsIs`
  (J:431; Script.ts:125). The report of issues is not written when the prompt was answered with yes (J:2638). Ids are
  trimmed in the last pass only (J:2975). Target column names are taken by place (J:849) and shift when the target query
  drops duplicates (T:4017).
- *File targets and values.* With field mapping the columns keep their source names (T:1019). Reference columns that the
  source has are not replaced, and a parent written later gives its source value (T:1264). Counters of `c_seq` mocks restart in each pass
  (T:2140). Only the last pattern of a field counts (T:2559); a null that no row matches becomes "" in a mapped
  field (T:2455); an expression with more than four unknown words gives the raw value (T:2670). Fields of person
  contacts are never transferred.
- *Setup.* Lookups to objects excluded in the second round stay. Declarations of polymorphic fields reach later sets. The
  external id is removed with an excluded parent. "all" cancels `excludedFromUpdateFields` (script-object.test.ts:68). User is
  added again when it was excluded but Group was not. An object deleted from the source keeps `deleteOldData` unchecked; one
  forced to Readonly for want of fields keeps it (J:1792, J:1950). `onInit` runs once for each object set.
- *ExportFiles.* Upsert with `deleteOldData` loses unchanged files (E:311, E:521). Versions without parents stay behind for
  Update and unmapped parents (E:554). For feeds, documents are deleted and updated by version Ids. Insert with
  `deleteOldData` ignores `targetWhere`. Attachments and notes are inserted again by each run. Files of different titles may get
  one name in a package (E:2566), `ContentVersion.csv` is overwritten by the next object and target CSV files by the next chunk. A package without
  links uploads every version (E:1086). Links of unchanged files are dropped when all uploads fail (E:680).

## 6. Not modelled, and plan

What is left out of a modelled part is listed with its module above. Left out altogether: logging and the
anonymiser (they decide nothing), the SDK and examples (declarations), connection set-up and paging of queries (input
and output; a query is one answer), `RecordsTransform` and `RecordsFilter` (functions of
records evaluated by libraries), parsing of flags, `export.json` and SOQL.
