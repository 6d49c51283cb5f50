----------------------------- MODULE RunService -----------------------------
(***************************************************************************)
(* One sfdmu:run command: SfdmuRunService.executeAsync takes the object    *)
(* sets of export.json one after the other; for each, MigrationJob goes    *)
(* through its stages: connect the orgs, ask before a production org is    *)
(* changed, load the add-ons, describe, process CSV files, prepare, and    *)
(* execute.  The add-on manager runs handlers between and inside stages.   *)
(*                                                                         *)
(* What the stages do to records is the subject of other modules (TaskPlan,*)
(* Retrieval, MigrationUpdate): here a DML call is one entry in `log'.     *)
(* Nondeterministic are the orgs, the files, the add-ons and the user.     *)
(* Left out: simulation mode, person accounts, --version, and what metadata *)
(* change about an operation (see JobSetup).                               *)
(***************************************************************************)
EXTENDS Integers, Sequences, FiniteSets, SequencesExt, Subsequences

CONSTANTS
  Objects,   \* sObject names
  Global,    \* the empty object name of a global event
  Configs    \* what a command may be given: see ConfigAssumption

Sides == {"source", "target"}
Operations ==
  {"Write", "Replace", "Readonly", "Delete", "DeleteHierarchy", "DeleteSource", "DeleteFlagged"}
Events == {"onBefore", "onDataRetrieved", "onAfter", "onBeforeUpdate", "onAfterUpdate", "filterRecords"}
\* Entries of addonsCore.json, of addons.json and of export.json; a module may be missing,
\* load, or fail to (not found, no class, no onExecute, an exception).
AddonEntries ==
  [from : {"core", "file", "script"}, event : Events \cup {"none"}, objectName : Objects \cup {Global},
   objects : SUBSET Objects, command : {"sfdmu:run", "blank", "other"}, excluded : BOOLEAN,
   module : {"none", "works", "fails"}]

\* "Write" stands for Insert, Update and Upsert, "Replace" for one of these with
\* deleteOldData: true, "DeleteFlagged" for Delete with deleteFromSource: true.
ASSUME ConfigAssumption ==
  \A c \in Configs :
    /\ c.sets \in Seq(Seq(Objects)) /\ c.op \in [Objects -> Operations]
    /\ c.addons \in Seq(AddonEntries)
    /\ c.kind \in [Sides -> {"file", "sandbox", "production"}]
    /\ c.canModify \in Sides \cup {"none"}
    /\ {c.failOnWarning, c.createTargetCSVFiles, c.importAsIs, c.validateOnly} \subseteq BOOLEAN
ASSUME GlobalAssumption == Global \notin Objects

VARIABLES
  config,     \* flags and export.json of this command
  set,        \* objectSetIndex + 1
  stage,      \* where _runObjectSetAsync and the job stand
  k,          \* index of the task the stage is at
  step,       \* where that task's update pass stands
  tasks,      \* job.tasks
  deleteTasks, \* job.deleteTasks
  loaded,     \* _addonsByEvent: the add-ons the manager of this object set has loaded
  queue,      \* handlers still to be run by the current trigger: <<kind, add-on, object>>
  known,      \* orgs whose organization type was read
  confirmed,  \* <<set, side>>: the user typed the domain of a production org
  status,     \* "running", or the exit status of the command
  log,        \* (history) what this object set did, in order
  changed,    \* (history) <<set, side, operation>>: records were changed
  files       \* the target CSV directory of each object set: who wrote its files

plan == <<tasks, deleteTasks>>
job == <<set, stage, k, step, plan, loaded, queue>>
world == <<known, confirmed, changed, files>>
vars == <<config, job, world, status, log>>

AllPasses == <<"forwards", "backwards1", "backwards2">>
Passes == Range(AllPasses)
\* Mutant: the global onBefore handlers run after old data was deleted.
Stages_AddonsLate ==
  <<"clear", "setupSource", "setupTarget", "promptSource", "promptTarget",
    "loadAddons", "describe", "processCsv", "prepare", "deleteOld", "addons",
    "retrieve", "objectBefore", "dataRetrieved", "forwards", "backwards1",
    "backwards2", "deleteHierarchy", "objectAfter", "after", "setDone">>

Stages == <<"clear", "setupSource", "setupTarget", "promptSource", "promptTarget",
            "loadAddons", "describe", "processCsv", "prepare", "addons", "deleteOld",
            "retrieve", "objectBefore", "dataRetrieved", "forwards", "backwards1",
            "backwards2", "deleteHierarchy", "objectAfter", "after", "setDone">>

IsFile(side) == config.kind[side] = "file"
Sets == DOMAIN config.sets

\* Mutant: a user who refuses to go on ends the command well.
StatusOf_UserIsSuccess(error) ==
  IF error = "CommandAbortedByUserError" THEN "SUCCESS" ELSE "COMMAND_UNEXPECTED_ERROR"

\* _finishWithError: the exit status of each class of errors.
StatusOf(error) ==
  CASE error = "SuccessExit" -> "SUCCESS"
    [] error = "CommandInitializationError" -> "COMMAND_INITIALIZATION_ERROR"
    [] error = "OrgMetadataError" -> "ORG_METADATA_ERROR"
    [] error = "CommandExecutionError" -> "COMMAND_EXECUTION_ERROR"
    [] error = "UnresolvableWarning" -> "UNRESOLVABLE_WARNING"
    [] error = "CommandAbortedByWarningError" -> "WARNING_AS_ERROR"
    [] error = "CommandAbortedByUserError" -> "COMMAND_ABORTED_BY_USER"
    [] error = "CommandAbortedByAddOnError" -> "COMMAND_ABORTED_BY_ADDON"
    [] OTHER -> "COMMAND_UNEXPECTED_ERROR"

\* An exception reaches the catch block of executeAsync from wherever it is thrown.
Throw(error) ==
  /\ status' = StatusOf(error)
  /\ stage' = "end" /\ queue' = <<>>
  /\ UNCHANGED <<config, set, k, step, plan, loaded, world, log>>

At(name) == status = "running" /\ stage = name /\ queue = <<>>

\* The stage after this one in _runObjectSetAsync and the methods it calls.
Following(name) == Stages[1 + CHOOSE i \in DOMAIN Stages : Stages[i] = name]
GoOn == /\ stage' = Following(stage)
        /\ k' = 1 /\ step' = "filter"

-----------------------------------------------------------------------------
(***************************************************************************)
(* Add-ons.                                                                *)
(***************************************************************************)
\* _appliesToObject, appliedToObject
AppliesToObject(a, o) ==
  /\ a.objectName # Global => a.objectName = o
  /\ \/ a.objectName # Global /\ a.objectName = o
     \/ a.objects = {} \/ o \in a.objects

CommandMatches(command) == command \in {"sfdmu:run", "blank"}

\* _loadAllManifestsAsync: core add-ons, those of addons.json, and those of this object
\* set's script, first the global ones and then those of its objects.
Addons == DOMAIN config.addons
Entries(from, names) ==
  Picked([i \in Addons |-> i], {i \in Addons : config.addons[i].from = from /\ config.addons[i].objectName \in names})
Manifests ==
  Entries("core", Objects \cup {Global}) \o Entries("file", Objects \cup {Global})
  \o Entries("script", {Global}) \o Entries("script", Range(config.sets[set]))

\* _createAddonsMapAsync, _loadAddonModuleEntryAsync
IsLoaded(a) ==
  /\ ~a.excluded /\ CommandMatches(a.command)
  /\ a.event # "none" /\ a.module = "works"

\* What the manager warns of; an entry for no known event is passed over in silence.
CannotLoad(a) ==
  /\ ~a.excluded /\ CommandMatches(a.command)
  /\ a.module = "none" \/ (a.event # "none" /\ a.module = "fails")

\* The handlers triggerAddonModuleMethodAsync calls, in the order of the manifests.
Handlers(event, o) ==
  LET matching == Picked(loaded, {i \in Addons : /\ config.addons[i].event = event
                                                 /\ AppliesToObject(config.addons[i], o)})
  IN  [n \in DOMAIN matching |-> <<event, matching[n], o>>]

\* triggerAddonModuleInitAsync goes through the events in the order they were first met.
InitHandlers(entries) ==
  LET event == [n \in DOMAIN entries |-> config.addons[entries[n]].event]
      firsts == Picked([n \in DOMAIN entries |-> n],
                       {n \in DOMAIN entries : \A m \in 1..(n - 1) : event[m] # event[n]})
      ofEvent(e) == Picked(entries, {i \in Addons : config.addons[i].event = e})
      order == FlattenSeq([n \in DOMAIN firsts |-> ofEvent(event[firsts[n]])])
  IN  [n \in DOMAIN order |-> <<"onInit", order[n], Global>>]

\* entry.executeAsync or entry.initAsync: the handler returns, cancels the job or throws.
RunHandler ==
  /\ status = "running" /\ queue # <<>>
  /\ \/ /\ log' = Append(log, Head(queue)) /\ queue' = Tail(queue)
        /\ UNCHANGED <<config, set, stage, k, step, plan, loaded, world, status>>
     \/ Throw("CommandAbortedByAddOnError")
     \/ Throw("Error")

-----------------------------------------------------------------------------
(***************************************************************************)
(* The command, and an object set up to its execution.                     *)
(***************************************************************************)
Init ==
  /\ config \in Configs
  /\ set = 1 /\ stage = "start" /\ k = 1 /\ step = "filter"
  /\ tasks = <<>> /\ deleteTasks = <<>> /\ loaded = <<>> /\ queue = <<>>
  /\ known = {} /\ confirmed = {} /\ changed = {}
  /\ files = [s \in DOMAIN config.sets |-> "earlier run"]
  /\ status = "running" /\ log = <<>>

\* executeAsync up to the first object set.  _resolveOrgTypesForSummaryAsync keeps
\* the default type, Developer Edition, of an org that does not answer.
Start ==
  /\ At("start")
  /\ \/ Throw("CommandInitializationError")
     \/ /\ ~(IsFile("source") /\ IsFile("target")) /\ config.sets # <<>>
        /\ \E S \in SUBSET {side \in Sides : ~IsFile(side)} : known' = S
        /\ stage' = "clear"
        /\ UNCHANGED <<config, set, k, step, plan, loaded, queue, confirmed, changed, files, status, log>>

\* Mutant: every object set clears the directory of the first one.
ClearedBy_First(s) == Sets

\* The directory of the first set contains the directories of the later ones.
ClearedBy(s) == IF s = 1 THEN Sets ELSE {s}

ClearTargetDirectory ==
  /\ At("clear")
  /\ \/ config.createTargetCSVFiles /\ Throw("CommandInitializationError")
     \/ /\ files' = IF config.createTargetCSVFiles
                    THEN [s \in Sets |-> IF s \in ClearedBy(set) THEN "nobody" ELSE files[s]]
                    ELSE files
        /\ GoOn
        /\ UNCHANGED <<config, set, plan, loaded, queue, known, confirmed, changed, status, log>>

\* ScriptOrg.setupAsync: connects and reads the organization type, or throws.
SetupOrg(side, name) ==
  /\ At(name)
  /\ \/ ~IsFile(side) /\ Throw("CommandInitializationError")
     \/ /\ known' = IF IsFile(side) THEN known ELSE known \cup {side}
        /\ GoOn
        /\ UNCHANGED <<config, set, plan, loaded, queue, confirmed, changed, files, status, log>>

IsProduction(side) == side \in known /\ config.kind[side] = "production"

\* _hasDeleteFromSourceOperation looks at the operations written in export.json.
HasDeleteFromSourceOperation ==
  \E s \in Sets : \E i \in DOMAIN config.sets[s] : config.op[config.sets[s][i]] = "DeleteSource"

\* Mutant: --canmodify is not compared with this org's domain.
NeedsConfirmation_AnyFlag(side) ==
  /\ IsProduction(side) /\ config.canModify = "none"
  /\ side = "target" \/ HasDeleteFromSourceOperation

NeedsConfirmation(side) ==
  /\ IsProduction(side) /\ config.canModify # side
  /\ side = "target" \/ HasDeleteFromSourceOperation

\* promptUserForProductionModificationAsync.  The question is itself a warning; no
\* answer in time, or --noprompt, is a wrong answer.
PromptUser(side, name) ==
  /\ At(name)
  /\ IF NeedsConfirmation(side)
     THEN IF config.failOnWarning
          THEN Throw("CommandAbortedByWarningError")
          ELSE \/ Throw("CommandAbortedByUserError")
               \/ /\ confirmed' = confirmed \cup {<<set, side>>}
                  /\ GoOn
                  /\ UNCHANGED <<config, set, plan, loaded, queue, known, changed, files, status, log>>
     ELSE /\ GoOn
          /\ UNCHANGED <<config, set, plan, loaded, queue, world, status, log>>

\* SfdmuRunAddonManager.initializeAsync: each object set has a manager of its own.
\* A manifest that cannot be parsed ends the command, a module that cannot be loaded
\* is a warning.  Then the onInit handlers run.
InitializeAddons ==
  /\ At("loadAddons")
  /\ \/ Throw("CommandInitializationError")
     \/ IF config.failOnWarning /\ \E i \in Range(Manifests) : CannotLoad(config.addons[i])
        THEN Throw("CommandAbortedByWarningError")
        ELSE /\ loaded' = Picked(Manifests, {i \in Addons : IsLoaded(config.addons[i])})
             /\ queue' = InitHandlers(loaded')
             /\ GoOn
             /\ UNCHANGED <<config, set, plan, world, status, log>>

\* A file cannot be deleted from: _applyTargetCsvOperationOverrides excludes the object.
ExcludedForFile(o) == IsFile("target") /\ config.op[o] \in {"Delete", "DeleteHierarchy"}

\* _canDeleteObject; deleteOldData is reset where the target is a file.
CanDelete(o) ==
  \/ config.op[o] \in {"Delete", "DeleteHierarchy", "DeleteSource", "DeleteFlagged"}
  \/ config.op[o] = "Replace" /\ ~IsFile("target")

\* The rest of setupAsync: metadata may exclude further objects.  An object set
\* without tasks is skipped with a warning.  In which order its tasks are run is
\* the subject of TaskPlan: here it is any.
SetupJob ==
  /\ At("describe")
  /\ \/ Throw("OrgMetadataError") \/ Throw("UnresolvableWarning")
     \/ \E S \in SUBSET Range(config.sets[set]) :
          LET kept == {o \in S : ~ExcludedForFile(o)}
          IN  IF kept = {} /\ config.failOnWarning
              THEN Throw("CommandAbortedByWarningError")
              ELSE /\ tasks' \in SetToSeqs(kept)
                   /\ deleteTasks' \in SetToSeqs({o \in kept : CanDelete(o)})
                   /\ IF kept # {} THEN GoOn ELSE stage' = "setDone" /\ UNCHANGED <<k, step>>
                   /\ UNCHANGED <<config, set, loaded, queue, world, status, log>>

\* Issues are a warning; without validateCSVFilesOnly the user may stop because of them.
CsvIssues ==
  \/ config.failOnWarning /\ Throw("CommandAbortedByWarningError")
  \/ ~config.failOnWarning /\ ~config.validateOnly /\ Throw("CommandAbortedByUserError")

\* processCsvAsync
ProcessCsv ==
  /\ At("processCsv")
  /\ \/ IsFile("source") /\ Throw("CommandExecutionError")
     \/ IsFile("source") /\ ~config.importAsIs /\ CsvIssues
     \/ IF IsFile("source") /\ ~config.importAsIs /\ config.validateOnly
        THEN Throw("SuccessExit")
        ELSE GoOn /\ UNCHANGED <<config, set, plan, loaded, queue, world, status, log>>

Prepare ==
  /\ At("prepare")
  /\ \/ Throw("CommandExecutionError")
     \/ GoOn /\ UNCHANGED <<config, set, plan, loaded, queue, world, status, log>>

-----------------------------------------------------------------------------
(***************************************************************************)
(* Execution of an object set.                                             *)
(***************************************************************************)
\* isDeletedFromSourceOperation
DeletesFromSource(o) == config.op[o] \in {"DeleteSource", "DeleteFlagged"} /\ ~IsFile("source")

\* Mutant: the forward pass is always that of all tasks.
TasksAt_Forwards(name) == IF name \in {"deleteOld", "deleteHierarchy"} THEN deleteTasks ELSE tasks

\* The tasks a stage goes through.  Where an object is deleted from the source, the forward
\* pass is for the tasks that delete; the backward passes are for all of them.
TasksAt(name) ==
  IF \/ name \in {"deleteOld", "deleteHierarchy"}
     \/ name = "forwards" /\ \E o \in Range(tasks) : DeletesFromSource(o)
  THEN deleteTasks ELSE tasks
Task == TasksAt(stage)[k]
NoTask == k > Len(TasksAt(stage))

\* runAddonsAsync and _runAddonEventAsync
GlobalEvent(name, event) ==
  /\ At(name)
  /\ queue' = Handlers(event, Global)
  /\ GoOn
  /\ UNCHANGED <<config, set, plan, loaded, world, status, log>>

\* _runObjectAddonEventAsync: all tasks, as queryTasks.
ObjectEvent(name, event) ==
  /\ At(name)
  /\ IF NoTask
     THEN GoOn /\ UNCHANGED queue
     ELSE queue' = Handlers(event, Task) /\ k' = k + 1 /\ UNCHANGED <<stage, step>>
  /\ UNCHANGED <<config, set, plan, loaded, world, status, log>>

\* A DML call on one side for the current task.
Dml(name, side) ==
  /\ log' = Append(log, <<name, 0, Task>>)
  /\ changed' = changed \cup {<<set, side, config.op[Task]>>}
  /\ files' = IF config.createTargetCSVFiles /\ side = "target"
              THEN [files EXCEPT ![set] = "this run"] ELSE files
NoDml == UNCHANGED <<log, changed, files>>

Writes(o) == config.op[o] \in {"Write", "Replace"}

\* deleteOldRecordsAsync, deleteRecordsAsync: one task after the other.
DeleteRecords(name, operations) ==
  /\ At(name)
  /\ IF NoTask
     THEN GoOn /\ NoDml /\ UNCHANGED <<config, set, plan, loaded, queue, known, confirmed, status>>
     ELSE \/ Throw("CommandExecutionError")
          \/ /\ IF config.op[Task] \in operations /\ ~IsFile("target") THEN Dml(name, "target") \/ NoDml ELSE NoDml
             /\ k' = k + 1
             /\ UNCHANGED <<config, set, stage, step, plan, loaded, queue, known, confirmed, status>>

RetrieveRecords ==
  /\ At("retrieve")
  /\ \/ Throw("CommandExecutionError")
     \/ GoOn /\ UNCHANGED <<config, set, plan, loaded, queue, world, status, log>>

\* The whole pass, or this task's turn in it, is over.
PassOver(pass) ==
  \/ NoTask
  \/ pass # "forwards" /\ IsFile("target")
EndOfPass(pass) ==
  /\ At(pass) /\ PassOver(pass)
  /\ GoOn
  /\ UNCHANGED <<config, set, plan, loaded, queue, world, status, log>>

\* updateRecordsAsync for a task that deletes from the source, or writes nothing.
DeleteSourceRecords(pass) ==
  /\ At(pass) /\ ~PassOver(pass)
  /\ ~Writes(Task)
  /\ \/ Throw("CommandExecutionError")
     \/ /\ IF pass = "forwards" /\ DeletesFromSource(Task)
           THEN Dml("deleteSource", "source") \/ NoDml
           ELSE NoDml
        /\ k' = k + 1
        /\ UNCHANGED <<config, set, stage, step, plan, loaded, queue, known, confirmed, status>>

\* _updateRecordsForPassAsync and _updateRecordsForFileTargetAsync: filter handlers if
\* there is anything to filter, onBeforeUpdate, the DML calls or the file, and
\* for an org onAfterUpdate.  A file with nothing to write is not written.
UpdateRecords(pass) ==
  /\ At(pass) /\ ~PassOver(pass)
  /\ Writes(Task)
  /\ \/ /\ step = "filter" /\ NoDml
        /\ \/ /\ queue' = Handlers("filterRecords", Task) /\ step' = "before" /\ UNCHANGED k
           \/ /\ queue' = <<>>
              /\ IF IsFile("target") THEN k' = k + 1 /\ UNCHANGED step ELSE step' = "before" /\ UNCHANGED k
     \/ /\ step = "before" /\ NoDml
        /\ queue' = Handlers("onBeforeUpdate", Task) /\ step' = "write" /\ UNCHANGED k
     \/ /\ step = "write"
        /\ Dml("write", "target") \/ NoDml
        /\ queue' = IF IsFile("target") THEN <<>> ELSE Handlers("onAfterUpdate", Task)
        /\ k' = k + 1 /\ step' = "filter"
  /\ UNCHANGED <<config, set, stage, plan, loaded, known, confirmed, status>>

\* An aborted DML call, or a user who does not go on without parents.
UpdateFails(pass) ==
  /\ At(pass) /\ ~PassOver(pass) /\ Writes(Task) /\ ~IsFile("target")
  /\ step \in {"before", "write"}
  /\ \/ /\ step = "before"
        /\ Throw(IF config.failOnWarning THEN "CommandAbortedByWarningError"
                                       ELSE "CommandAbortedByUserError")
     \/ step = "write" /\ Throw("CommandExecutionError")

\* executeAsync: the next object set, or the end of the command.
NextObjectSet ==
  /\ At("setDone")
  /\ IF set < Len(config.sets)
     THEN /\ set' = set + 1 /\ stage' = "clear" /\ k' = 1 /\ step' = "filter"
          /\ tasks' = <<>> /\ deleteTasks' = <<>> /\ loaded' = <<>> /\ log' = <<>> /\ UNCHANGED status
     ELSE /\ status' = "SUCCESS" /\ stage' = "end"
          /\ UNCHANGED <<set, k, step, plan, loaded, log>>
  /\ UNCHANGED <<config, queue, world>>

Ended == status # "running" /\ UNCHANGED vars

Prepares ==
  \/ Start \/ ClearTargetDirectory
  \/ SetupOrg("source", "setupSource") \/ SetupOrg("target", "setupTarget")
  \/ PromptUser("source", "promptSource") \/ PromptUser("target", "promptTarget")
  \/ InitializeAddons \/ SetupJob \/ ProcessCsv \/ Prepare
Executes ==
  \/ GlobalEvent("addons", "onBefore")
  \/ DeleteRecords("deleteOld", {"Delete", "Replace"})
  \/ RetrieveRecords
  \/ ObjectEvent("objectBefore", "onBefore")
  \/ GlobalEvent("dataRetrieved", "onDataRetrieved")
  \/ \E pass \in Passes :
       UpdateRecords(pass) \/ DeleteSourceRecords(pass) \/ UpdateFails(pass) \/ EndOfPass(pass)
  \/ DeleteRecords("deleteHierarchy", {"DeleteHierarchy"})
  \/ ObjectEvent("objectAfter", "onAfter")
  \/ GlobalEvent("after", "onAfter")
Runs == Prepares \/ Executes \/ RunHandler \/ NextObjectSet
Next == Runs \/ Ended

Spec == Init /\ [][Next]_vars

-----------------------------------------------------------------------------
(***************************************************************************)
(* Properties.                                                             *)
(***************************************************************************)
DmlNames == {"deleteOld", "write", "deleteSource", "deleteHierarchy"}
Confirmed(c) == config.canModify = c[2] \/ <<c[1], c[2]>> \in confirmed

\* No object set changes records of a production org, target or source, unless its
\* domain was given by --canmodify or typed by the user for this object set.  (An
\* object deleted from the source by deleteFromSource: true is another matter.)
ProductionConfirmed ==
  \A c \in changed :
    config.kind[c[2]] = "production" /\ c[3] # "DeleteFlagged" => Confirmed(c)

\* The objects (or Global) an add-on of this object set is meant for.
Meant(i) ==
  LET a == config.addons[i]
  IN  IF a.excluded \/ a.command = "other" \/ a.module # "works" THEN {}
      ELSE IF a.objectName # Global
           THEN IF a.from = "script" THEN {a.objectName} \cap Range(config.sets[set]) ELSE {a.objectName}
           ELSE IF a.objects # {} THEN a.objects ELSE Objects \cup {Global}
Times(call, n) == Cardinality({i \in 1..n : log[i] = call})
BeforeUpdateRan(j) ==
  \A i \in Addons : config.addons[i].event = "onBeforeUpdate" /\ log[j][3] \in Meant(i)
    => Times(<<"onBeforeUpdate", i, log[j][3]>>, j) >= Times(log[j], j)

\* Handlers see the data at the time their event names: onInit and the global
\* onBefore run before any DML call of the object set, the onBefore of an object and
\* onDataRetrieved before anything but old data was changed, onAfter when nothing
\* more is changed; and every write has had its onBeforeUpdate handlers.
HooksAroundData ==
  \A j \in DOMAIN log :
    /\ log[j][1] = "write" => BeforeUpdateRan(j)
    /\ \A i \in 1..(j - 1) :
         /\ log[j][1] = "onInit" \/ (log[j][1] = "onBefore" /\ log[j][3] = Global)
              => log[i][1] \notin DmlNames
         /\ log[j][1] \in {"onBefore", "onDataRetrieved"} => log[i][1] \notin DmlNames \ {"deleteOld"}
         /\ log[j][1] \in DmlNames => log[i][1] # "onAfter"

\* The update passes an object goes through, and how often an event comes up for it: at every
\* pass (but not where there was nothing to filter or no file to write), or once.  A file gets
\* the forward pass alone.  In a set that deletes from the source a written object has
\* no forward pass, unless its old data are deleted: into a file it is not written at all.
GoesForward(o) == (\E p \in Range(tasks) : DeletesFromSource(p)) => CanDelete(o)
Turns(o) ==
  IF o = Global \/ ~Writes(o) THEN 0
  ELSE (IF GoesForward(o) THEN 1 ELSE 0) + (IF IsFile("target") THEN 0 ELSE 2)
Occasions(event, o) ==
  CASE event \in {"onBefore", "onAfter"} -> {1}
    [] event = "onDataRetrieved" -> IF o = Global THEN {1} ELSE {0}
    [] event = "filterRecords" -> 0..Turns(o)
    [] event = "onBeforeUpdate" -> IF IsFile("target") THEN 0..Turns(o) ELSE {Turns(o)}
    [] event = "onAfterUpdate" -> IF IsFile("target") THEN {0} ELSE {Turns(o)}
    [] event = "none" -> {0}

\* In an object set that was processed to its end every add-on ran as often as its
\* event came up for the objects it is meant for, and for no other.
HandlersComplete ==
  stage = "setDone" /\ queue = <<>> /\ tasks # <<>> =>
    \A i \in Addons : \A o \in Objects \cup {Global} :
      LET event == config.addons[i].event
          here == o \in Meant(i) /\ o \in Range(tasks) \cup {Global}
      IN  Times(<<event, i, o>>, Len(log)) \in IF here THEN Occasions(event, o) ELSE {0}

\* With failOnWarning no set gets beyond its add-ons while a module is missing.
NoneMissing ==
  config.failOnWarning /\ log # <<>> =>
    \A i \in Range(Manifests) :
      LET a == config.addons[i]
      IN  a.excluded \/ a.command = "other" \/ a.event = "none" \/ a.module = "works"

\* Add-ons run as they are declared: when, for what, how often, and none left out.
AddonsRunAsDeclared == HooksAroundData /\ HandlersComplete /\ NoneMissing

\* With createTargetCSVFiles the directories of the object sets reached hold the files
\* this run wrote and none of an earlier run: no set clears away an earlier set's.
FilesAreFresh ==
  config.createTargetCSVFiles /\ stage \notin {"start", "clear", "end"} =>
    /\ \A s \in 1..set : files[s] # "earlier run"
    /\ \A c \in changed : c[2] = "target" => files[c[1]] = "this run"

\* The command reports success only if it went through all object sets, or stopped
\* after validating CSV files without having changed anything.
SuccessIsComplete ==
  status = "SUCCESS" => \/ set = Len(config.sets)
                        \/ config.validateOnly /\ changed = {}
=============================================================================
