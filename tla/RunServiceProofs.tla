-------------------------- MODULE RunServiceProofs --------------------------
(***************************************************************************)
(* What a command promises, for any export.json, flags and number of       *)
(* object sets: no production org is changed without a confirmation, the   *)
(* target files of every object set are its own, success is complete, and  *)
(* add-ons run as they are declared.                                       *)
(***************************************************************************)
EXTENDS RunService, SequenceFacts, FunctionTheorems
USE DEF plan

\* The tasks that the stage under way goes through
Listed == TasksAt(stage)

(***************************************************************************)
(* The order of the stages.                                                *)
(***************************************************************************)
Opening == {"start", "clear"}
\* The stages before the user was asked about the source, and about the target.
BeforeSourcePrompt == Opening \cup {"setupSource", "setupTarget", "promptSource"}
BeforeTargetPrompt == BeforeSourcePrompt \cup {"promptTarget"}
BeforeData == BeforeTargetPrompt \cup {"loadAddons", "describe", "processCsv"}
DataStages ==
  {"prepare", "addons", "deleteOld", "retrieve", "objectBefore", "dataRetrieved", "forwards",
   "backwards1", "backwards2", "deleteHierarchy", "objectAfter", "after"}
AllStages == BeforeData \cup DataStages \cup {"setDone", "end"}

\* A stage is followed by the next one of _runObjectSetAsync.
LEMMA StageOrder ==
  /\ Following("clear") = "setupSource" /\ Following("setupSource") = "setupTarget"
  /\ Following("setupTarget") = "promptSource" /\ Following("promptSource") = "promptTarget"
  /\ Following("promptTarget") = "loadAddons" /\ Following("loadAddons") = "describe"
  /\ Following("describe") = "processCsv" /\ Following("processCsv") = "prepare"
  /\ \A name \in DataStages : Following(name) \in (DataStages \ {"prepare"}) \cup {"setDone"}
<1> DEFINE At1(name) == CHOOSE i \in DOMAIN Stages : Stages[i] = name
<1>1. DOMAIN Stages = 1..21
    BY DEF Stages
<1>2. \A name : \A n \in 1..21 :
        Stages[n] = name /\ (\A i \in 1..21 : Stages[i] = name => i = n) => At1(name) = n
    BY <1>1
<1>3. \A i, j \in 1..21 : Stages[i] = Stages[j] => i = j
    BY DEF Stages
<1>4. \A n \in 1..20 : Following(Stages[n]) = Stages[n + 1]
    <2> TAKE n \in 1..20
    <2>1. Following(Stages[n]) = Stages[1 + At1(Stages[n])]
        BY DEF Following
    <2> HIDE DEF At1
    <2>2. n \in 1..21 /\ At1(Stages[n]) = n
        BY <1>2, <1>3
    <2> QED BY <2>1, <2>2
<1> QED BY <1>4 DEF Stages, DataStages

\* The three update passes.
LEMMA PassNames == Passes = {"forwards", "backwards1", "backwards2"}
<1>1. DOMAIN AllPasses = 1..3
    BY DEF AllPasses
<1>2. AllPasses[1] = "forwards" /\ AllPasses[2] = "backwards1" /\ AllPasses[3] = "backwards2"
    BY DEF AllPasses
<1> QED BY <1>1, <1>2 DEF Passes, Range

(***************************************************************************)
(* States, and the kinds of steps a command is made of.                    *)
(***************************************************************************)
FileStates == {"earlier run", "nobody", "this run"}
StateOK ==
  /\ config \in Configs /\ stage \in AllStages
  /\ stage = "start" => set = 1 /\ plan = <<<<>>, <<>>>> /\ changed = {}
  /\ stage \notin {"start", "end"} => set \in Sets
  /\ k \in Nat /\ k >= 1
  /\ stage \notin {"start", "end"} => {tasks, deleteTasks} \subseteq Seq(Range(config.sets[set]))
  /\ known \subseteq Sides /\ confirmed \subseteq Sets \X Sides
  /\ changed \subseteq Sets \X Sides \X Operations
  /\ files \in [Sets -> FileStates]

\* What the run service is made of, the add-on machinery left aside.
Stays == UNCHANGED <<config, set, stage, plan, world, status>> /\ k' \in {k, k + 1}
Advances ==
  /\ stage' = Following(stage) /\ k' = 1
  /\ UNCHANGED <<config, set, plan, world, status>>
Fails ==
  /\ status' \notin {"running", "SUCCESS"} /\ stage' = "end"
  /\ UNCHANGED <<config, set, k, plan, world>>
Changes(side) ==
  /\ k \in DOMAIN Listed /\ k' = k + 1
  /\ side = "source" => config.op[Task] \in {"DeleteSource", "DeleteFlagged"}
  /\ changed' = changed \cup {<<set, side, config.op[Task]>>}
  /\ files' = IF config.createTargetCSVFiles /\ side = "target"
              THEN [files EXCEPT ![set] = "this run"] ELSE files
  /\ UNCHANGED <<config, set, stage, plan, known, confirmed, status>>
DataStep == Stays \/ Advances \/ Fails \/ \E side \in Sides : Changes(side)

\* An exception other than SuccessExit does not end the command well.
LEMMA ErrorsFail ==
  ASSUME NEW error, error # "SuccessExit", Throw(error)
  PROVE  Fails
BY DEF Throw, StatusOf, Fails, world

\* The current task is one of the object set.
LEMMA TaskTyped ==
  ASSUME StateOK, stage \notin {"start", "end"}
  PROVE  /\ Listed \in Seq(Range(config.sets[set])) /\ Task = Listed[k] /\ k \in Nat /\ k >= 1
         /\ NoTask <=> k > Len(Listed)
         /\ ~NoTask <=> k \in DOMAIN Listed
         /\ k \in DOMAIN Listed => Task \in Range(config.sets[set])
<1> DEFINE R == Range(config.sets[set])
<1>1. Listed \in Seq(R) /\ k \in Nat /\ k >= 1
    BY DEF StateOK, Listed, TasksAt
<1>2. Task = Listed[k] /\ (NoTask <=> k > Len(Listed))
    BY DEF Task, NoTask, Listed
<1> HIDE DEF R
<1>3. \A n \in DOMAIN Listed : Listed[n] \in R
    BY <1>1, ElementOfSeq
<1> QED BY <1>1, <1>2, <1>3 DEF R

\* Everything from the preparation of the data to the last add-on is such a step.
LEMMA Executing ==
  ASSUME StateOK, Executes \/ Prepare
  PROVE  status = "running" /\ stage \in DataStages /\ DataStep
<1> USE DEF At, GoOn, DataStages
<1>0. ASSUME stage \in DataStages, ~NoTask PROVE k \in DOMAIN Listed
    BY <1>0, TaskTyped
<1>1. CASE Prepare
    BY <1>1, ErrorsFail DEF Prepare, DataStep, Advances, world
<1>2. ASSUME NEW name \in DataStages, NEW event, GlobalEvent(name, event)
      PROVE  status = "running" /\ stage \in DataStages /\ DataStep
    BY <1>2 DEF GlobalEvent, DataStep, Advances, world
<1>3. ASSUME NEW name \in DataStages, NEW event, ObjectEvent(name, event)
      PROVE  status = "running" /\ stage \in DataStages /\ DataStep
    BY <1>3 DEF ObjectEvent, DataStep, Advances, Stays, world
<1>4. ASSUME NEW name \in DataStages, NEW operations, DeleteRecords(name, operations)
      PROVE  status = "running" /\ stage \in DataStages /\ DataStep
    <2>1. status = "running" /\ stage \in DataStages
        BY <1>4 DEF DeleteRecords
    <2>2. CASE NoTask
        BY <1>4, <2>2 DEF DeleteRecords, NoDml, DataStep, Advances, world
    <2>3. CASE Throw("CommandExecutionError")
        BY <2>1, <2>3, ErrorsFail DEF DataStep
    <2>4. ASSUME ~NoTask, ~Throw("CommandExecutionError")
          PROVE  DataStep
        <3>1. k \in DOMAIN Listed
            BY <1>0, <2>1, <2>4
        <3>2. CASE Dml("deleteOld", "target") \/ Dml(name, "target")
            BY <1>4, <2>4, <3>1, <3>2 DEF DeleteRecords, Dml, DataStep, Changes, Sides
        <3>3. CASE NoDml
            BY <1>4, <2>4, <3>3 DEF DeleteRecords, NoDml, DataStep, Stays, world
        <3> QED BY <1>4, <2>4, <3>2, <3>3 DEF DeleteRecords
    <2> QED BY <2>1, <2>2, <2>3, <2>4
<1>5. CASE RetrieveRecords
    BY <1>5, ErrorsFail DEF RetrieveRecords, DataStep, Advances, world
<1>6. ASSUME NEW pass \in Passes,
             UpdateRecords(pass) \/ DeleteSourceRecords(pass) \/ UpdateFails(pass) \/ EndOfPass(pass)
      PROVE  status = "running" /\ stage \in DataStages /\ DataStep
    <2>1. status = "running" /\ stage \in DataStages
        BY <1>6, PassNames DEF UpdateRecords, DeleteSourceRecords, UpdateFails, EndOfPass
    <2>2. CASE EndOfPass(pass)
        BY <2>1, <2>2 DEF EndOfPass, DataStep, Advances, world
    <2>3. CASE UpdateFails(pass)
        BY <2>1, <2>3, ErrorsFail DEF UpdateFails, DataStep
    <2>4. ASSUME ~PassOver(pass) PROVE k \in DOMAIN Listed
        BY <1>0, <2>1, <2>4 DEF PassOver
    <2>5. CASE DeleteSourceRecords(pass)
        <3>1. CASE Throw("CommandExecutionError")
            BY <2>1, <3>1, ErrorsFail DEF DataStep
        <3>2. CASE NoDml /\ ~Throw("CommandExecutionError")
            BY <2>1, <2>5, <3>2 DEF DeleteSourceRecords, NoDml, DataStep, Stays, world
        <3>3. CASE Dml("deleteSource", "source") /\ ~NoDml /\ ~Throw("CommandExecutionError")
            BY <2>1, <2>4, <2>5, <3>3 DEF DeleteSourceRecords, DeletesFromSource, Dml, DataStep, Changes, Sides
        <3> QED BY <2>1, <2>5, <3>1, <3>2, <3>3 DEF DeleteSourceRecords
    <2>6. CASE UpdateRecords(pass)
        <3>1. CASE NoDml
            BY <2>1, <2>6, <3>1 DEF UpdateRecords, NoDml, DataStep, Stays, world
        <3>2. CASE Dml("write", "target") /\ ~NoDml
            BY <2>1, <2>4, <2>6, <3>2 DEF UpdateRecords, Dml, DataStep, Changes, Sides
        <3> QED BY <2>1, <2>6, <3>1, <3>2 DEF UpdateRecords
    <2> QED BY <1>6, <2>2, <2>3, <2>5, <2>6
<1> QED BY <1>1, <1>2, <1>3, <1>4, <1>5, <1>6 DEF Executes

\* A command that has ended does nothing more.
LEMMA EndedForGood == ASSUME [Next]_vars, status # "running" PROVE UNCHANGED vars
<1> USE DEF At
<1>1. ~RunHandler /\ ~NextObjectSet
    BY DEF RunHandler, NextObjectSet
<1>2. ~Prepares
    BY DEF Prepares, Start, ClearTargetDirectory, SetupOrg, PromptUser, InitializeAddons,
           SetupJob, ProcessCsv, Prepare
<1>3. ~Executes
    BY DEF Executes, GlobalEvent, DeleteRecords, RetrieveRecords, ObjectEvent, UpdateRecords,
           DeleteSourceRecords, UpdateFails, EndOfPass
<1> QED BY <1>1, <1>2, <1>3 DEF Next, Runs, Ended

\* The kinds of steps, by the stages they are taken at.
Handles == status = "running" /\ (Fails \/ (Stays /\ k' = k))
Skips == \* an object set without tasks
  /\ stage = "describe" /\ stage' = "setDone" /\ tasks' = <<>> /\ deleteTasks' = <<>>
  /\ UNCHANGED <<config, set, k, world, status>>
Described ==
  /\ stage = "describe" /\ stage' = "processCsv" /\ k' = 1
  /\ {tasks', deleteTasks'} \subseteq Seq(Range(config.sets[set]))
  /\ UNCHANGED <<config, set, world, status>>
Validated ==
  /\ stage = "processCsv" /\ stage' = "end" /\ status' = "SUCCESS"
  /\ IsFile("source") /\ ~config.importAsIs /\ config.validateOnly
  /\ UNCHANGED <<config, set, k, plan, world>>
Processed ==
  /\ stage = "processCsv" /\ ~(IsFile("source") /\ ~config.importAsIs /\ config.validateOnly)
  /\ Advances

\* The objects of a set are finitely many.
LEMMA FiniteSets == ASSUME NEW S, NEW s \in Seq(S) PROVE IsFiniteSet(Range(s))
<1> DEFINE n == Len(s)
<1>1. n \in Nat /\ s \in [1..n -> S]
    OBVIOUS
<1> HIDE DEF n
<1>2. IsFiniteSet(1..n)
    BY <1>1, FS_Interval
<1>3. s \in Surjection(1..n, Range(s))
    BY <1>1, Fun_RangeProperties
<1> QED BY <1>2, <1>3, FS_Surjection

\* Lists of some members of a set are lists of members.
LEMMA ListsAre ==
  ASSUME NEW S, IsFiniteSet(S), NEW T \in SUBSET S, NEW list \in SetToSeqs(T)
  PROVE  list \in Seq(S) /\ (T = {} => list = <<>>)
<1> DEFINE n == Cardinality(T)
<1>1. IsFiniteSet(T) /\ n \in Nat
    BY FS_Subset, FS_CardinalityType
<1>2. list \in [1..n -> T]
    BY DEF SetToSeqs
<1>3. T = {} => n = 0
    BY FS_EmptySet
<1> HIDE DEF n
<1> QED BY <1>1, <1>2, <1>3

\* setupAsync makes tasks of the object set's own objects only.
LEMMA SetupSteps == ASSUME StateOK, SetupJob PROVE Fails \/ Skips \/ Described
<1>1. CASE Throw("OrgMetadataError") \/ Throw("UnresolvableWarning") \/ Throw("CommandAbortedByWarningError")
    BY <1>1, ErrorsFail
<1>2. CASE ~(Throw("OrgMetadataError") \/ Throw("UnresolvableWarning") \/ Throw("CommandAbortedByWarningError"))
    <2>1. stage = "describe" /\ set \in Sets /\ config \in Configs
        BY SetupJob DEF SetupJob, At, StateOK
    <2>2. PICK S \in SUBSET Range(config.sets[set]) :
            LET kept == {o \in S : ~ExcludedForFile(o)}
            IN  /\ tasks' \in SetToSeqs(kept) /\ deleteTasks' \in SetToSeqs({o \in kept : CanDelete(o)})
                /\ IF kept # {} THEN GoOn ELSE stage' = "setDone" /\ UNCHANGED <<k, step>>
                /\ UNCHANGED <<config, set, loaded, queue, world, status, log>>
        BY <1>2, SetupJob DEF SetupJob
    <2> DEFINE R == Range(config.sets[set])
               kept == {o \in S : ~ExcludedForFile(o)}
               deleted == {o \in kept : CanDelete(o)}
    <2>3. kept \subseteq R /\ deleted \subseteq kept
        OBVIOUS
    <2>4. IsFiniteSet(R)
        <3>1. config.sets \in Seq(Seq(Objects))
            BY <2>1, ConfigAssumption
        <3>2. config.sets[set] \in Seq(Objects)
            BY <2>1, <3>1 DEF Sets
        <3> QED BY <3>2, FiniteSets
    <2>5. tasks' \in SetToSeqs(kept) /\ deleteTasks' \in SetToSeqs(deleted)
        BY <2>2
    <2> HIDE DEF kept, deleted, R
    <2>6. {tasks', deleteTasks'} \subseteq Seq(R)
        BY <2>3, <2>4, <2>5, ListsAre
    <2>9. CASE kept = {}
        <3>1. tasks' = <<>> /\ deleteTasks' = <<>>
            BY <2>3, <2>4, <2>5, <2>9, ListsAre
        <3> QED BY <2>1, <2>2, <2>9, <3>1 DEF Skips, kept
    <2>10. CASE kept # {}
        <3>1. GoOn /\ UNCHANGED <<config, set, world, status>>
            BY <2>2, <2>10 DEF kept
        <3> QED BY <2>1, <2>6, <3>1, StageOrder DEF Described, R, GoOn
    <2> QED BY <2>9, <2>10
<1> QED BY <1>1, <1>2

\* The steps in which nothing but the stage matters.
LEMMA PlainSteps ==
  /\ RunHandler => Handles
  /\ InitializeAddons => stage = "loadAddons" /\ (Fails \/ Advances)
  /\ ProcessCsv => stage = "processCsv" /\ (Fails \/ Validated \/ Processed)
<1>1. RunHandler => Handles
    BY ErrorsFail DEF RunHandler, Handles, Stays
<1>2. InitializeAddons => stage = "loadAddons" /\ (Fails \/ Advances)
    BY ErrorsFail DEF InitializeAddons, At, GoOn, Advances
<1>3. ASSUME ProcessCsv PROVE stage = "processCsv" /\ (Fails \/ Validated \/ Processed)
    <2>1. Throw("CommandExecutionError") => Fails
        BY ErrorsFail
    <2>2. CsvIssues => Fails
        BY ErrorsFail DEF CsvIssues
    <2>3. stage = "processCsv" /\ Throw("SuccessExit")
            /\ IsFile("source") /\ ~config.importAsIs /\ config.validateOnly => Validated
        BY DEF Throw, StatusOf, Validated
    <2> QED BY <1>3, <2>1, <2>2, <2>3 DEF ProcessCsv, At, GoOn, Advances, Processed
<1> QED BY <1>1, <1>2, <1>3

Started ==
  /\ stage = "start" /\ stage' = "clear" /\ config.sets # <<>>
  /\ known' \subseteq Sides
  /\ UNCHANGED <<config, set, k, plan, confirmed, changed, files, status>>
Cleared ==
  /\ stage = "clear" /\ stage' = "setupSource" /\ k' = 1
  /\ files' = IF config.createTargetCSVFiles
              THEN [s \in Sets |-> IF s \in ClearedBy(set) THEN "nobody" ELSE files[s]]
              ELSE files
  /\ UNCHANGED <<config, set, plan, known, confirmed, changed, status>>
Connected(side, name) ==
  /\ stage = name /\ stage' = Following(name) /\ k' = 1
  /\ known' = IF IsFile(side) THEN known ELSE known \cup {side}
  /\ UNCHANGED <<config, set, plan, confirmed, changed, files, status>>
Prompted(side, name) ==
  /\ stage = name /\ stage' = Following(name) /\ k' = 1
  /\ confirmed' = IF NeedsConfirmation(side) THEN confirmed \cup {<<set, side>>} ELSE confirmed
  /\ UNCHANGED <<config, set, plan, known, changed, files, status>>
WentOn ==
  /\ stage = "setDone" /\ stage' = "clear" /\ set < Len(config.sets) /\ set' = set + 1
  /\ k' = 1 /\ tasks' = <<>> /\ deleteTasks' = <<>> /\ UNCHANGED <<config, world, status>>
Finished ==
  /\ stage = "setDone" /\ stage' = "end" /\ ~(set < Len(config.sets)) /\ status' = "SUCCESS"
  /\ UNCHANGED <<config, set, k, plan, world>>

PlainStep == Stays \/ Fails \/ (stage \in DataStages /\ \E side \in Sides : Changes(side))
               \/ (stage \in DataStages \cup {"loadAddons"} /\ Advances)
JobStep == Skips \/ Described \/ Validated \/ Processed
OpeningStep ==
  \/ Started \/ Cleared
  \/ Connected("source", "setupSource") \/ Connected("target", "setupTarget")
  \/ Prompted("source", "promptSource") \/ Prompted("target", "promptTarget")
SetStep == WentOn \/ Finished

\* A running command takes one of these steps.
LEMMA StepKinds ==
  ASSUME StateOK, [Next]_vars
  PROVE  UNCHANGED vars \/ (status = "running" /\ (PlainStep \/ JobStep \/ OpeningStep \/ SetStep))
<1> SUFFICES ASSUME ~UNCHANGED vars PROVE status = "running" /\ (PlainStep \/ JobStep \/ OpeningStep \/ SetStep)
    OBVIOUS
<1>0. status = "running"
    BY EndedForGood
<1>1. CASE Executes \/ Prepare
    BY <1>1, Executing DEF DataStep, PlainStep
<1>2. CASE RunHandler
    BY <1>0, <1>2, PlainSteps DEF Handles, PlainStep
<1>3. CASE InitializeAddons
    BY <1>0, <1>3, PlainSteps DEF PlainStep
<1>4. CASE ProcessCsv
    BY <1>0, <1>4, PlainSteps DEF PlainStep, JobStep
<1>5. CASE SetupJob
    BY <1>0, <1>5, SetupSteps DEF PlainStep, JobStep
<1>6. CASE Start
    BY <1>0, <1>6, ErrorsFail DEF Start, At, Started, Sides, PlainStep, OpeningStep
<1>7. CASE ClearTargetDirectory
    BY <1>0, <1>7, ErrorsFail, StageOrder DEF ClearTargetDirectory, At, GoOn, Cleared, PlainStep, OpeningStep
<1>8. ASSUME NEW side, NEW name, SetupOrg(side, name) PROVE Fails \/ Connected(side, name)
    BY <1>8, ErrorsFail DEF SetupOrg, At, GoOn, Connected
<1>9. ASSUME NEW side, NEW name, PromptUser(side, name) PROVE Fails \/ Prompted(side, name)
    BY <1>9, ErrorsFail DEF PromptUser, At, GoOn, Prompted, world
<1>10. CASE NextObjectSet
    BY <1>0, <1>10 DEF NextObjectSet, At, WentOn, Finished, SetStep, world
<1> QED BY <1>0, <1>1, <1>2, <1>3, <1>4, <1>5, <1>6, <1>7, <1>8, <1>9, <1>10
        DEF Next, Runs, Prepares, Ended, PlainStep, OpeningStep

-----------------------------------------------------------------------------
(***************************************************************************)
(* The states a command can be in.                                         *)
(***************************************************************************)
\* A command starts in such a state.
LEMMA InitOK == Init => StateOK
<1> SUFFICES ASSUME Init PROVE StateOK
    OBVIOUS
<1>1. files \in [Sets -> FileStates]
    <2>1. files = [s \in Sets |-> "earlier run"] /\ "earlier run" \in FileStates
        BY DEF Init, FileStates, Sets
    <2> QED BY <2>1
<1>2. stage = "start" /\ stage \in AllStages
    BY DEF Init, AllStages, BeforeData, BeforeTargetPrompt, BeforeSourcePrompt, Opening
<1>3. confirmed \subseteq Sets \X Sides /\ changed \subseteq Sets \X Sides \X Operations
    BY DEF Init
<1>4. config \in Configs /\ set = 1 /\ k = 1 /\ plan = <<<<>>, <<>>>> /\ changed = {} /\ known = {}
    BY DEF Init
<1> QED BY <1>1, <1>2, <1>3, <1>4 DEF StateOK

\* The sets of a command and their objects.
LEMMA Script ==
  ASSUME config \in Configs
  PROVE  /\ Sets = 1..Len(config.sets) /\ Len(config.sets) \in Nat
         /\ \A s \in Sets : config.sets[s] \in Seq(Objects) /\ Range(config.sets[s]) \subseteq Objects
         /\ \A o \in Objects : config.op[o] \in Operations
<1>1. config.sets \in Seq(Seq(Objects)) /\ config.op \in [Objects -> Operations]
    BY ConfigAssumption
<1>2. \A s \in Sets : config.sets[s] \in Seq(Objects)
    BY <1>1 DEF Sets
<1> QED BY <1>1, <1>2 DEF Sets, Range

\* And every step leads to such a state.
LEMMA StepOK == StateOK /\ [Next]_vars => StateOK'
<1> SUFFICES ASSUME StateOK, [Next]_vars PROVE StateOK'
    OBVIOUS
<1> USE DEF AllStages, BeforeData, BeforeTargetPrompt, BeforeSourcePrompt, Opening, DataStages
<1>1. CASE UNCHANGED vars
    BY <1>1 DEF vars, job, world, StateOK, Sets
<1>2. CASE PlainStep
    <2>1. CASE Stays
        BY <2>1 DEF Stays, StateOK, world, Sets
    <2>2. CASE Fails
        BY <2>2 DEF Fails, StateOK, world, Sets
    <2>3. ASSUME NEW side \in Sides, stage \in DataStages, Changes(side) PROVE StateOK'
        <3>1. set \in Sets /\ {tasks, deleteTasks} \subseteq Seq(Range(config.sets[set])) /\ config \in Configs
            BY <2>3 DEF StateOK
        <3>2. config.op[Task] \in Operations
            <4>1. k \in DOMAIN Listed
                BY <2>3 DEF Changes
            <4>2. Task \in Range(config.sets[set])
                BY <2>3, <4>1, TaskTyped
            <4> QED BY <3>1, <4>2, Script
        <3>3. <<set, side, config.op[Task]>> \in Sets \X Sides \X Operations
            BY <3>1, <3>2
        <3>4. changed' \subseteq Sets \X Sides \X Operations
            <4>1. changed' = changed \cup {<<set, side, config.op[Task]>>}
                BY <2>3 DEF Changes
            <4>2. changed \subseteq Sets \X Sides \X Operations
                BY DEF StateOK
            <4> QED BY <3>3, <4>1, <4>2
        <3>5. files' \in [Sets -> FileStates]
            <4>1. files \in [Sets -> FileStates] /\ "this run" \in FileStates
                BY DEF StateOK, FileStates
            <4>2. files' = files \/ files' = [files EXCEPT ![set] = "this run"]
                BY <2>3 DEF Changes
            <4> QED BY <3>1, <4>1, <4>2
        <3>6. UNCHANGED <<config, set, stage, plan, known, confirmed>> /\ k' = k + 1
            BY <2>3 DEF Changes
        <3>7. Sets' = Sets
            BY <3>6 DEF Sets
        <3>8. k' \in Nat /\ k' >= 1
            BY <3>6 DEF StateOK
        <3>9. confirmed' \subseteq Sets' \X Sides /\ changed' \subseteq Sets' \X Sides \X Operations
              /\ files' \in [Sets' -> FileStates]
            BY <3>4, <3>5, <3>6, <3>7 DEF StateOK
        <3> QED BY <2>3, <3>6, <3>7, <3>8, <3>9 DEF StateOK
    <2>4. CASE stage \in DataStages \cup {"loadAddons"} /\ Advances
        <3>1. stage' \in AllStages \ {"start", "end", "clear"}
            BY <2>4, StageOrder DEF Advances
        <3> QED BY <2>4, <3>1 DEF Advances, StateOK, world, Sets
    <2> QED BY <1>2, <2>1, <2>2, <2>3, <2>4 DEF PlainStep
<1>3. CASE JobStep
    <2>1. CASE Skips
        BY <2>1 DEF Skips, StateOK, world, Sets
    <2>2. CASE Described
        BY <2>2 DEF Described, StateOK, world, Sets
    <2>3. CASE Validated
        BY <2>3 DEF Validated, StateOK, world, Sets
    <2>4. CASE Processed
        BY <2>4, StageOrder DEF Processed, Advances, StateOK, world, Sets
    <2> QED BY <1>3, <2>1, <2>2, <2>3, <2>4 DEF JobStep
<1>4. CASE OpeningStep
    <2>1. CASE Started
        <3>1. 1 \in Sets
            BY <2>1, Script, ConfigAssumption DEF Started, StateOK
        <3> QED BY <2>1, <3>1 DEF Started, StateOK, Sets
    <2>2. CASE Cleared
        <3>1. files' \in [Sets -> FileStates]
            <4>1. files \in [Sets -> FileStates] /\ "nobody" \in FileStates
                BY DEF StateOK, FileStates
            <4> DEFINE cleared == [s \in Sets |-> IF s \in ClearedBy(set) THEN "nobody" ELSE files[s]]
            <4>2. cleared \in [Sets -> FileStates]
                BY <4>1
            <4>3. files' = cleared \/ files' = files
                BY <2>2 DEF Cleared
            <4> QED BY <4>1, <4>2, <4>3
        <3>2. Sets' = Sets /\ set \in Sets /\ stage' = "setupSource" /\ k' = 1
              /\ UNCHANGED <<config, set, plan, known, confirmed, changed>>
            BY <2>2 DEF Cleared, Sets, StateOK
        <3>3. confirmed' \subseteq Sets' \X Sides /\ changed' \subseteq Sets' \X Sides \X Operations
              /\ files' \in [Sets' -> FileStates]
            BY <3>1, <3>2 DEF StateOK
        <3>4. config \in Configs /\ known \subseteq Sides /\ {tasks, deleteTasks} \subseteq Seq(Range(config.sets[set]))
            BY <2>2 DEF Cleared, StateOK
        <3>5. stage' \in AllStages
            BY <3>2
        <3> HIDE DEF AllStages
        <3> QED BY <3>2, <3>3, <3>4, <3>5 DEF StateOK
    <2>3. ASSUME NEW side \in Sides, NEW name \in {"setupSource", "setupTarget"}, Connected(side, name)
          PROVE  StateOK'
        BY <2>3, StageOrder DEF Connected, StateOK, Sets
    <2>4. ASSUME NEW side \in Sides, NEW name \in {"promptSource", "promptTarget"}, Prompted(side, name)
          PROVE  StateOK'
        BY <2>4, StageOrder DEF Prompted, StateOK, Sets
    <2> QED BY <1>4, <2>1, <2>2, <2>3, <2>4 DEF OpeningStep, Sides
<1>5. CASE SetStep
    <2>1. CASE WentOn
        <3>1. set + 1 \in Sets
            BY <2>1, Script DEF WentOn, StateOK
        <3> QED BY <2>1, <3>1 DEF WentOn, StateOK, world, Sets
    <2>2. CASE Finished
        BY <2>2 DEF Finished, StateOK, world, Sets
    <2> QED BY <1>5, <2>1, <2>2 DEF SetStep
<1> QED BY <1>1, <1>2, <1>3, <1>4, <1>5, StepKinds

-----------------------------------------------------------------------------
(***************************************************************************)
(* Production orgs.  Which org is a production org is known once it was    *)
(* connected, and from the question to the end of the object set it may    *)
(* be changed or nobody will.                                              *)
(***************************************************************************)
OrgsKnown ==
  /\ stage \notin Opening \cup {"setupSource", "end"} /\ ~IsFile("source") => "source" \in known
  /\ stage \notin Opening \cup {"setupSource", "setupTarget", "end"} /\ ~IsFile("target") => "target" \in known
Settled(side) ==
  \/ config.kind[side] # "production"
  \/ Confirmed(<<set, side>>)
  \/ side = "source" /\ ~HasDeleteFromSourceOperation
Asked ==
  /\ stage \notin BeforeSourcePrompt \cup {"end"} => Settled("source")
  /\ stage \notin BeforeTargetPrompt \cup {"end"} => Settled("target")
ConfirmInv == OrgsKnown /\ Asked /\ ProductionConfirmed

\* The user has gone through the question or it need not be asked.
LEMMA PromptSettles ==
  ASSUME NEW side \in Sides, NEW name, Prompted(side, name), ~IsFile(side) => side \in known
  PROVE  Settled(side)'
<1>1. CASE NeedsConfirmation(side)
    BY <1>1 DEF Prompted, Settled, Confirmed
<1>2. CASE ~NeedsConfirmation(side)
    BY <1>2 DEF Prompted, NeedsConfirmation, IsProduction, IsFile, Settled, Confirmed,
                HasDeleteFromSourceOperation, Sets, Sides
<1> QED BY <1>1, <1>2

\* What is settled stays so, and what was confirmed stays confirmed, in one object set.
LEMMA SettledStays ==
  ASSUME UNCHANGED <<config, set>>, confirmed \subseteq confirmed', NEW side, Settled(side)
  PROVE  Settled(side)'
BY DEF Settled, Confirmed, HasDeleteFromSourceOperation, Sets

\* Confirmations are never taken back.
LEMMA ConfirmedStays ==
  ASSUME UNCHANGED <<config, changed>>, confirmed \subseteq confirmed', ProductionConfirmed
  PROVE  ProductionConfirmed'
BY DEF ProductionConfirmed, Confirmed

\* A DML call is on a side that is settled: only an object of the set that is deleted
\* from the source changes it.
LEMMA ChangesAreConfirmed ==
  ASSUME StateOK, ConfirmInv, stage \in DataStages, NEW side \in Sides, Changes(side)
  PROVE  ProductionConfirmed'
<1> DEFINE c == <<set, side, config.op[Task]>>
<1>1. stage \notin BeforeTargetPrompt \cup {"end"}
    BY DEF DataStages, BeforeTargetPrompt, BeforeSourcePrompt, Opening
<1>2. Settled(side)
    BY <1>1 DEF ConfirmInv, Asked, BeforeTargetPrompt, Sides
<1>3. ASSUME side = "source", c[3] # "DeleteFlagged" PROVE HasDeleteFromSourceOperation
    <2>1. set \in Sets /\ k \in DOMAIN Listed
        BY <1>1 DEF StateOK, Changes, BeforeTargetPrompt, BeforeSourcePrompt, Opening
    <2>2. Task \in Range(config.sets[set])
        BY <1>1, <2>1, TaskTyped DEF BeforeTargetPrompt, BeforeSourcePrompt, Opening
    <2>3. config.op[Task] = "DeleteSource"
        BY <1>3 DEF Changes
    <2> QED BY <2>1, <2>2, <2>3 DEF HasDeleteFromSourceOperation, Range
<1>4. config.kind[c[2]] = "production" /\ c[3] # "DeleteFlagged" => Confirmed(c)
    BY <1>2, <1>3 DEF Settled, Confirmed
<1>5. changed' = changed \cup {c} /\ UNCHANGED <<config, confirmed>>
    BY DEF Changes
<1> HIDE DEF c
<1> QED BY <1>4, <1>5 DEF ConfirmInv, ProductionConfirmed, Confirmed

\* Every step keeps production orgs safe.
LEMMA StepConfirms == StateOK /\ ConfirmInv /\ [Next]_vars => ConfirmInv'
<1> SUFFICES ASSUME StateOK, ConfirmInv, [Next]_vars PROVE ConfirmInv'
    OBVIOUS
<1> DEFINE Kept == UNCHANGED <<config, set, known, confirmed>>
<1>0. ASSUME Kept, stage \in AllStages,
             stage' = stage \/ stage' = "end"
               \/ (stage \notin BeforeTargetPrompt \cup {"end"} /\ stage' \notin BeforeTargetPrompt)
      PROVE  OrgsKnown' /\ Asked'
    BY <1>0, SettledStays DEF ConfirmInv, OrgsKnown, Asked, IsFile, AllStages, BeforeData,
       BeforeTargetPrompt, BeforeSourcePrompt, Opening
<1> USE DEF StateOK
<1>1. CASE UNCHANGED vars
    BY <1>0, <1>1, ConfirmedStays DEF vars, job, world, ConfirmInv
<1>2. CASE PlainStep
    <2>1. CASE Stays \/ Fails
        BY <1>0, <2>1, ConfirmedStays DEF Stays, Fails, world, ConfirmInv
    <2>2. ASSUME NEW side \in Sides, stage \in DataStages, Changes(side) PROVE ConfirmInv'
        BY <1>0, <2>2, ChangesAreConfirmed DEF Changes, ConfirmInv
    <2>3. CASE stage \in DataStages \cup {"loadAddons"} /\ Advances
        <3>1. stage \notin BeforeTargetPrompt \cup {"end"} /\ stage' \notin BeforeTargetPrompt
            BY <2>3, StageOrder DEF Advances, DataStages, BeforeTargetPrompt, BeforeSourcePrompt, Opening
        <3> QED BY <1>0, <2>3, <3>1, ConfirmedStays DEF Advances, world, ConfirmInv
    <2> QED BY <1>2, <2>1, <2>2, <2>3 DEF PlainStep
<1>3. CASE JobStep
    <2>1. stage \notin BeforeTargetPrompt \cup {"end"} /\ stage' \notin BeforeTargetPrompt
        BY <1>3, StageOrder DEF JobStep, Skips, Described, Validated, Processed, Advances,
                    BeforeTargetPrompt, BeforeSourcePrompt, Opening
    <2> QED BY <1>0, <1>3, <2>1, ConfirmedStays
            DEF JobStep, Skips, Described, Validated, Processed, Advances, world, ConfirmInv
<1>4. CASE OpeningStep
    <2> USE DEF BeforeTargetPrompt, BeforeSourcePrompt, Opening
    <2>1. CASE Started \/ Cleared
        BY <2>1, ConfirmedStays DEF Started, Cleared, ConfirmInv, OrgsKnown, Asked, IsFile
    <2>2. CASE Connected("source", "setupSource") \/ Connected("target", "setupTarget")
        BY <2>2, StageOrder, ConfirmedStays DEF Connected, ConfirmInv, OrgsKnown, Asked, IsFile
    <2>3. CASE Prompted("source", "promptSource")
        <3>1. Settled("source")' /\ stage' = "promptTarget"
            BY <2>3, PromptSettles, StageOrder DEF Prompted, ConfirmInv, OrgsKnown, Sides
        <3> QED BY <2>3, <3>1, ConfirmedStays DEF Prompted, ConfirmInv, OrgsKnown, Asked, IsFile
    <2>4. CASE Prompted("target", "promptTarget")
        <3>1. Settled("target")' /\ stage' = "loadAddons"
            BY <2>4, PromptSettles, StageOrder DEF Prompted, ConfirmInv, OrgsKnown, Sides
        <3>2. Settled("source")'
            BY <2>4, SettledStays DEF Prompted, ConfirmInv, Asked
        <3> QED BY <2>4, <3>1, <3>2, ConfirmedStays DEF Prompted, ConfirmInv, OrgsKnown, Asked, IsFile
    <2> QED BY <1>4, <2>1, <2>2, <2>3, <2>4 DEF OpeningStep
<1>5. CASE SetStep
    <2>1. ProductionConfirmed'
        BY <1>5, ConfirmedStays DEF SetStep, WentOn, Finished, world, ConfirmInv
    <2>2. OrgsKnown' /\ Asked'
        BY <1>5 DEF SetStep, WentOn, Finished, OrgsKnown, Asked, BeforeTargetPrompt, BeforeSourcePrompt, Opening
    <2> QED BY <2>1, <2>2 DEF ConfirmInv
<1> QED BY <1>1, <1>2, <1>3, <1>4, <1>5, StepKinds

\* No object set changes records of a production org without a confirmation of its
\* own, for any export.json and flags (promptUserForProductionModificationAsync).
THEOREM ProductionIsConfirmed == Spec => []ProductionConfirmed
<1>1. Init => ConfirmInv
    BY DEF Init, ConfirmInv, OrgsKnown, Asked, ProductionConfirmed, BeforeTargetPrompt,
           BeforeSourcePrompt, Opening
<1>2. ConfirmInv => ProductionConfirmed
    BY DEF ConfirmInv
<1> QED BY InitOK, StepOK, StepConfirms, <1>1, <1>2, PTL DEF Spec

-----------------------------------------------------------------------------
(***************************************************************************)
(* Target files.  The object sets whose directory was cleared have files   *)
(* of this run only, and only those sets have changed anything.            *)
(***************************************************************************)
ClearedSets == 1..(IF stage \in Opening THEN set - 1 ELSE set)
FilesInv ==
  config.createTargetCSVFiles /\ stage # "end" =>
    /\ \A s \in ClearedSets : files[s] # "earlier run"
    /\ \A c \in changed : c[1] \in ClearedSets /\ (c[2] = "target" => files[c[1]] = "this run")

\* Steps that write no files and stay in an object set.
LEMMA FilesStay ==
  ASSUME FilesInv, UNCHANGED <<config, set, changed, files>>,
         stage' = "end" \/ (stage # "end" /\ ClearedSets' = ClearedSets)
  PROVE  FilesInv'
BY DEF FilesInv

\* Every step keeps the files of the sets that were cleared.
LEMMA StepFiles == StateOK /\ FilesInv /\ [Next]_vars => FilesInv'
<1> SUFFICES ASSUME StateOK, FilesInv, [Next]_vars PROVE FilesInv'
    OBVIOUS
<1> USE DEF Opening
<1>1. CASE UNCHANGED vars
    BY <1>1 DEF vars, job, world, FilesInv, ClearedSets
<1>2. CASE PlainStep
    <2>1. CASE Stays \/ Fails
        BY <2>1, FilesStay DEF Stays, Fails, world, ClearedSets, FilesInv
    <2>2. ASSUME NEW side \in Sides, stage \in DataStages, Changes(side) PROVE FilesInv'
        <3>1. stage \notin Opening \cup {"end"} /\ set \in 1..set /\ set \in Sets
            <4>1. stage \notin Opening \cup {"end"}
                BY <2>2 DEF DataStages
            <4>2. set \in Sets /\ Sets = 1..Len(config.sets) /\ Len(config.sets) \in Nat
                BY <4>1, Script DEF StateOK
            <4> QED BY <4>1, <4>2
        <3>2. ClearedSets = 1..set /\ ClearedSets' = 1..set
            BY <2>2, <3>1 DEF ClearedSets, Changes
        <3>3. \A s \in Sets : /\ files'[s] \in {files[s], "this run"}
                              /\ config.createTargetCSVFiles /\ side = "target" /\ s = set => files'[s] = "this run"
            BY <2>2 DEF Changes, StateOK
        <3>4. \A s \in 1..set : s \in Sets
            BY <3>1, Script DEF StateOK
        <3>5. \A c \in changed' : c \in changed \/ (c[1] = set /\ c[2] = side)
            <4>1. changed' = changed \cup {<<set, side, config.op[Task]>>}
                BY <2>2 DEF Changes
            <4> QED BY <4>1
        <3> QED BY <2>2, <3>1, <3>2, <3>3, <3>4, <3>5 DEF FilesInv, Changes
    <2>3. CASE stage \in DataStages \cup {"loadAddons"} /\ Advances
        <3>1. stage \notin Opening \cup {"end"} /\ stage' \notin Opening
            BY <2>3, StageOrder DEF Advances, DataStages
        <3> QED BY <2>3, <3>1, FilesStay DEF Advances, world, ClearedSets
    <2> QED BY <1>2, <2>1, <2>2, <2>3 DEF PlainStep
<1>3. CASE JobStep
    <2>1. stage \notin Opening \cup {"end"} /\ stage' \notin Opening
        BY <1>3, StageOrder DEF JobStep, Skips, Described, Validated, Processed, Advances
    <2>2. UNCHANGED <<config, set, changed, files>>
        BY <1>3 DEF JobStep, Skips, Described, Validated, Processed, Advances, world
    <2> QED BY <2>1, <2>2, FilesStay DEF ClearedSets
<1>4. CASE OpeningStep
    <2>1. CASE Started
        BY <2>1, FilesStay DEF Started, ClearedSets
    <2>2. CASE Cleared
        <3>1. set \in 1..Len(config.sets) /\ Sets = 1..Len(config.sets) /\ Len(config.sets) \in Nat
            BY <2>2, Script DEF Cleared, StateOK
        <3>2. ClearedSets = 1..(set - 1) /\ ClearedSets' = 1..set
            BY <2>2 DEF Cleared, ClearedSets
        <3>3. SUFFICES ASSUME config.createTargetCSVFiles
              PROVE  /\ \A s \in 1..set : files'[s] # "earlier run"
                     /\ \A c \in changed : c[1] \in 1..set /\ (c[2] = "target" => files'[c[1]] = "this run")
            BY <2>2, <3>2 DEF Cleared, FilesInv
        <3>4. \A s \in Sets : files'[s] = IF s \in ClearedBy(set) THEN "nobody" ELSE files[s]
            BY <2>2, <3>3 DEF Cleared
        <3>5. \A s \in 1..(set - 1) : s \in Sets /\ s \in 1..set /\ files[s] # "earlier run" /\ s \notin ClearedBy(set)
            <4> TAKE s \in 1..(set - 1)
            <4>1. s \in Sets /\ s \in 1..set /\ s # set /\ set # 1
                BY <3>1
            <4>2. files[s] # "earlier run"
                BY <2>2, <3>2, <3>3 DEF Cleared, FilesInv
            <4> QED BY <4>1, <4>2 DEF ClearedBy
        <3>6. set \in ClearedBy(set) /\ set \in Sets
            BY <3>1 DEF ClearedBy
        <3>7. \A s \in 1..set : files'[s] # "earlier run"
            <4> TAKE s \in 1..set
            <4>1. s = set \/ s \in 1..(set - 1)
                BY <3>1
            <4> QED BY <3>4, <3>5, <3>6, <4>1
        <3>8. \A c \in changed : c[1] \in 1..(set - 1) /\ (c[2] = "target" => files[c[1]] = "this run")
            BY <2>2, <3>2, <3>3 DEF Cleared, FilesInv
        <3> QED BY <3>4, <3>5, <3>7, <3>8
    <2>3. ASSUME NEW side, NEW name \in {"setupSource", "setupTarget"}, Connected(side, name) PROVE FilesInv'
        BY <2>3, StageOrder, FilesStay DEF Connected, ClearedSets
    <2>4. ASSUME NEW side, NEW name \in {"promptSource", "promptTarget"}, Prompted(side, name) PROVE FilesInv'
        BY <2>4, StageOrder, FilesStay DEF Prompted, ClearedSets
    <2> QED BY <1>4, <2>1, <2>2, <2>3, <2>4 DEF OpeningStep
<1>5. CASE SetStep
    <2>1. CASE WentOn
        <3>1. set \in Nat
            BY <2>1, Script DEF WentOn, StateOK
        <3>2. ClearedSets' = ClearedSets
            BY <2>1, <3>1 DEF WentOn, ClearedSets
        <3> QED BY <2>1, <3>2 DEF WentOn, world, FilesInv
    <2>2. CASE Finished
        BY <2>2 DEF Finished, FilesInv
    <2> QED BY <1>5, <2>1, <2>2 DEF SetStep
<1> QED BY <1>1, <1>2, <1>3, <1>4, <1>5, StepKinds

\* With createTargetCSVFiles no object set is left with files of an earlier run, and
\* none clears away what an earlier set wrote, however many there are
\* (clearing the directory of the first set clears those of all).
THEOREM FilesStayFresh == Spec => []FilesAreFresh
<1>1. Init => FilesInv
    <2> SUFFICES ASSUME Init PROVE FilesInv
        OBVIOUS
    <2>1. changed = {} /\ ClearedSets = 1..0
        <3>1. changed = {} /\ set = 1 /\ stage \in Opening
            BY DEF Init, Opening
        <3> QED BY <3>1 DEF ClearedSets
    <2> QED BY <2>1 DEF FilesInv
<1>2. StateOK /\ FilesInv => FilesAreFresh
    BY DEF FilesInv, FilesAreFresh, ClearedSets, Opening
<1> QED BY InitOK, StepOK, StepFiles, <1>1, <1>2, PTL DEF Spec

-----------------------------------------------------------------------------
(***************************************************************************)
(* The exit status.  A command that validates its CSV files never gets to  *)
(* its data; another one ends well only after its last object set.         *)
(***************************************************************************)
OnlyValidates == IsFile("source") /\ ~config.importAsIs /\ config.validateOnly
SuccessInv ==
  /\ OnlyValidates => changed = {} /\ stage \notin DataStages
  /\ SuccessIsComplete

\* Every step keeps the exit status honest.
LEMMA StepSucceeds == StateOK /\ SuccessInv /\ [Next]_vars => SuccessInv'
<1> SUFFICES ASSUME StateOK, SuccessInv, [Next]_vars PROVE SuccessInv'
    OBVIOUS
<1>0. ASSUME UNCHANGED config PROVE OnlyValidates' = OnlyValidates
    BY <1>0 DEF OnlyValidates, IsFile
<1>1. CASE UNCHANGED vars
    BY <1>0, <1>1 DEF vars, job, world, SuccessInv, SuccessIsComplete
<1>2. CASE status = "running" /\ PlainStep
    <2>1. CASE Stays \/ Fails
        BY <1>0, <1>2, <2>1 DEF Stays, Fails, world, SuccessInv, SuccessIsComplete, DataStages
    <2>2. ASSUME NEW side \in Sides, stage \in DataStages, Changes(side) PROVE SuccessInv'
        <3>1. ~OnlyValidates /\ UNCHANGED <<config, status>>
            BY <2>2 DEF Changes, SuccessInv
        <3> QED BY <1>0, <1>2, <3>1 DEF SuccessInv, SuccessIsComplete
    <2>3. CASE stage \in DataStages \cup {"loadAddons"} /\ Advances
        <3>1. stage \in DataStages \/ stage' \notin DataStages
            BY <2>3, StageOrder DEF Advances, DataStages
        <3> QED BY <1>0, <1>2, <2>3, <3>1 DEF Advances, world, SuccessInv, SuccessIsComplete
    <2> QED BY <1>2, <2>1, <2>2, <2>3 DEF PlainStep
<1>3. CASE status = "running" /\ JobStep
    BY <1>0, <1>3 DEF JobStep, Skips, Described, Validated, Processed, Advances, world,
       OnlyValidates, SuccessInv, SuccessIsComplete, DataStages
<1>4. CASE status = "running" /\ OpeningStep
    <2>1. stage' \notin DataStages
        BY <1>4, StageOrder DEF OpeningStep, Started, Cleared, Connected, Prompted, DataStages
    <2> QED BY <1>0, <1>4, <2>1 DEF OpeningStep, Started, Cleared, Connected, Prompted,
            SuccessInv, SuccessIsComplete
<1>5. CASE status = "running" /\ SetStep
    <2>1. set \in 1..Len(config.sets) /\ Len(config.sets) \in Nat
        BY <1>5, Script DEF SetStep, WentOn, Finished, StateOK
    <2> QED BY <1>0, <1>5, <2>1 DEF SetStep, WentOn, Finished, world, SuccessInv, SuccessIsComplete, DataStages
<1> QED BY <1>1, <1>2, <1>3, <1>4, <1>5, StepKinds

\* A command that reports success went through all its object sets, or stopped after
\* validating CSV files and has changed nothing (executeAsync, _finishWithError).
THEOREM SuccessIsHonest == Spec => []SuccessIsComplete
<1>1. Init => SuccessInv
    BY DEF Init, SuccessInv, SuccessIsComplete, DataStages
<1>2. SuccessInv => SuccessIsComplete
    BY DEF SuccessInv
<1> QED BY InitOK, StepOK, StepSucceeds, <1>1, <1>2, PTL DEF Spec

-----------------------------------------------------------------------------
(***************************************************************************)
(* Add-ons.  The stages have numbers, and add-ons are counted at every stage: *)
(* what an add-on was called for and what is in the queue is as often as its *)
(* event has come up so far.  At the end of an object set this is how often *)
(* it comes up at all.  First the numbers of the stages.                   *)
(***************************************************************************)

\* The number of a stage in the order of the job.
Number(name) ==
  IF name = "start" THEN 0 ELSE IF name = "end" THEN 22 ELSE CHOOSE i \in DOMAIN Stages : Stages[i] = name

\* The stages and their numbers
LEMMA Numbers ==
  /\ Number("start") = 0 /\ Number("clear") = 1 /\ Number("setupSource") = 2 /\ Number("setupTarget") = 3
  /\ Number("promptSource") = 4 /\ Number("promptTarget") = 5 /\ Number("loadAddons") = 6 /\ Number("describe") = 7
  /\ Number("processCsv") = 8 /\ Number("prepare") = 9 /\ Number("addons") = 10 /\ Number("deleteOld") = 11
  /\ Number("retrieve") = 12 /\ Number("objectBefore") = 13 /\ Number("dataRetrieved") = 14
  /\ Number("forwards") = 15 /\ Number("backwards1") = 16 /\ Number("backwards2") = 17
  /\ Number("deleteHierarchy") = 18 /\ Number("objectAfter") = 19 /\ Number("after") = 20
  /\ Number("setDone") = 21 /\ Number("end") = 22
  /\ \A name : Number(name) \in 1..20 /\ name \in AllStages => Number(Following(name)) = Number(name) + 1
<1>1. DOMAIN Stages = 1..21
    BY DEF Stages
<1>2. \A i, j \in 1..21 : Stages[i] = Stages[j] => i = j
    BY DEF Stages
<1> DEFINE At1(name) == CHOOSE i \in DOMAIN Stages : Stages[i] = name
<1>3. \A n \in 1..21 : At1(Stages[n]) = n
    <2>1. \A name : \A n \in 1..21 :
            Stages[n] = name /\ (\A i \in 1..21 : Stages[i] = name => i = n) => At1(name) = n
        BY <1>1
    <2> HIDE DEF At1
    <2> QED BY <1>2, <2>1
<1>4. \A name : name # "start" /\ name # "end" => Number(name) = At1(name)
    BY DEF Number
<1> HIDE DEF At1
<1>5. \A n \in 1..21 : Stages[n] # "start" /\ Stages[n] # "end"
    BY DEF Stages
<1>6. \A n \in 1..21 : Number(Stages[n]) = n
    BY <1>3, <1>4, <1>5
<1>7. /\ Stages[1] = "clear" /\ Stages[2] = "setupSource" /\ Stages[3] = "setupTarget" /\ Stages[4] = "promptSource"
      /\ Stages[5] = "promptTarget" /\ Stages[6] = "loadAddons" /\ Stages[7] = "describe" /\ Stages[8] = "processCsv"
      /\ Stages[9] = "prepare" /\ Stages[10] = "addons" /\ Stages[11] = "deleteOld" /\ Stages[12] = "retrieve"
      /\ Stages[13] = "objectBefore" /\ Stages[14] = "dataRetrieved" /\ Stages[15] = "forwards"
      /\ Stages[16] = "backwards1" /\ Stages[17] = "backwards2" /\ Stages[18] = "deleteHierarchy"
      /\ Stages[19] = "objectAfter" /\ Stages[20] = "after" /\ Stages[21] = "setDone"
    BY DEF Stages
<1>8. Number("start") = 0 /\ Number("end") = 22
    BY DEF Number
<1>9. \A n \in 1..20 : Number(Following(Stages[n])) = n + 1
    <2> TAKE n \in 1..20
    <2>1. Following(Stages[n]) = Stages[1 + At1(Stages[n])]
        BY DEF Following, At1
    <2>2. n \in 1..21 /\ At1(Stages[n]) = n /\ 1 + n = n + 1 /\ n + 1 \in 1..21
        BY <1>3
    <2> QED BY <1>6, <2>1, <2>2
<1>10. /\ Number("clear") = 1 /\ Number("setupSource") = 2 /\ Number("setupTarget") = 3
       /\ Number("promptSource") = 4 /\ Number("promptTarget") = 5 /\ Number("loadAddons") = 6 /\ Number("describe") = 7
       /\ Number("processCsv") = 8 /\ Number("prepare") = 9 /\ Number("addons") = 10 /\ Number("deleteOld") = 11
       /\ Number("retrieve") = 12 /\ Number("objectBefore") = 13 /\ Number("dataRetrieved") = 14
       /\ Number("forwards") = 15 /\ Number("backwards1") = 16 /\ Number("backwards2") = 17
       /\ Number("deleteHierarchy") = 18 /\ Number("objectAfter") = 19 /\ Number("after") = 20
       /\ Number("setDone") = 21
    BY <1>6, <1>7
<1>11. ASSUME NEW name \in AllStages, Number(name) \in 1..20 PROVE \E n \in 1..20 : name = Stages[n]
    <2>1. name \in {"start", "end"} \/ \E n \in 1..21 : name = Stages[n]
        BY <1>7 DEF AllStages, BeforeData, BeforeTargetPrompt, BeforeSourcePrompt, Opening, DataStages
    <2>2. name # "start" /\ name # "end"
        BY <1>8, <1>11
    <2>3. PICK n \in 1..21 : name = Stages[n]
        BY <2>1, <2>2
    <2>4. n # 21
        BY <1>6, <1>11, <2>3
    <2> QED BY <2>3, <2>4
<1>12. ASSUME NEW name \in AllStages, Number(name) \in 1..20 PROVE Number(Following(name)) = Number(name) + 1
    <2>1. PICK n \in 1..20 : name = Stages[n]
        BY <1>11, <1>12
    <2>2. Number(name) = n /\ Number(Following(name)) = n + 1
        BY <1>6, <1>9, <2>1
    <2> QED BY <2>2
<1> QED BY <1>8, <1>10, <1>12

\* Every stage has one of these numbers.
LEMMA StageNumbers ==
  ASSUME NEW name \in AllStages
  PROVE  /\ Number(name) \in 0..22
         /\ Number(name) = 22 <=> name = "end"
         /\ Number(name) = 21 <=> name = "setDone"
         /\ Number(name) = 7 <=> name = "describe"
         /\ name \in Passes <=> Number(name) \in 15..17
         /\ name \in DataStages <=> Number(name) \in 9..20
BY Numbers, PassNames DEF AllStages, BeforeData, BeforeTargetPrompt, BeforeSourcePrompt, Opening, DataStages

-----------------------------------------------------------------------------
(***************************************************************************)
(* Lists of add-ons: the manifests, and the handlers of an event.          *)
(***************************************************************************)

Names == Objects \cup {Global}
HandlerCalls == (Events \cup {"onInit"}) \X Addons \X Names
DmlCalls == DmlNames \X {0} \X Objects

\* The add-ons of this object set, and those of them that are loaded
InManifests(a) ==
  a.from # "script" \/ a.objectName = Global \/ a.objectName \in Range(config.sets[set])
Declared == {i \in Addons : InManifests(config.addons[i])}
Loadable == {i \in Declared : IsLoaded(config.addons[i])}
Mine(i, o) == i \in Loadable /\ AppliesToObject(config.addons[i], o)

\* What an add-on's entry is
LEMMA EntryOf ==
  ASSUME config \in Configs
  PROVE  /\ Addons = 1..Len(config.addons) /\ Len(config.addons) \in Nat
         /\ \A i \in Addons :
              LET a == config.addons[i]
              IN  /\ a.from \in {"core", "file", "script"} /\ a.event \in Events \cup {"none"}
                  /\ a.objectName \in Names /\ a.objects \subseteq Objects
                  /\ a.command \in {"sfdmu:run", "blank", "other"} /\ a.excluded \in BOOLEAN
                  /\ a.module \in {"none", "works", "fails"}
<1>1. config.addons \in Seq(AddonEntries)
    BY ConfigAssumption
<1>2. /\ Addons = 1..Len(config.addons) /\ Len(config.addons) \in Nat
      /\ \A i \in 1..Len(config.addons) : config.addons[i] \in AddonEntries
    BY <1>1, LenProperties, ElementOfSeq DEF Addons
<1> QED BY <1>2 DEF AddonEntries, Names

\* The entries of a manifest for some names
LEMMA EntriesList ==
  ASSUME config \in Configs, NEW from, NEW names
  PROVE  IsListOf(Entries(from, names),
                  {i \in Addons : config.addons[i].from = from /\ config.addons[i].objectName \in names})
<1> DEFINE all == [i \in Addons |-> i]
           E == {i \in Addons : config.addons[i].from = from /\ config.addons[i].objectName \in names}
           n == Len(config.addons)
<1>1. Addons = 1..n /\ n \in Nat
    BY EntryOf
<1>2. all \in [1..n -> Addons] /\ DOMAIN all = 1..n
    BY <1>1
<1>3. all \in Seq(Addons)
    BY <1>1, <1>2
<1>4. IsInjective(all)
    BY <1>1 DEF IsInjective
<1>5. ToSet(all) = Addons
    BY <1>1 DEF ToSet
<1>6. IsListOf(all, Addons)
    BY <1>3, <1>4, <1>5 DEF IsListOf
<1> HIDE DEF all, E
<1>7. IsListOf(Picked(all, E), Addons \cap E)
    BY <1>6, PickedList
<1>8. Addons \cap E = E
    BY DEF E
<1> QED BY <1>7, <1>8 DEF Entries, all, E

\* The manifests hold the add-ons of this object set, each once.
LEMMA ManifestsList ==
  ASSUME config \in Configs, set \in Sets
  PROVE  IsListOf(Manifests, Declared)
<1> DEFINE Of(from, names) == {i \in Addons : config.addons[i].from = from /\ config.addons[i].objectName \in names}
           here == Range(config.sets[set])
           c == Of("core", Names)
           f == Of("file", Names)
           g == Of("script", {Global})
           s == Of("script", here)
<1>1. /\ IsListOf(Entries("core", Names), c) /\ IsListOf(Entries("file", Names), f)
      /\ IsListOf(Entries("script", {Global}), g) /\ IsListOf(Entries("script", here), s)
    BY EntriesList
<1>2. here \subseteq Objects
    BY Script
<1>3. c \cap f = {} /\ (c \cup f) \cap g = {} /\ ((c \cup f) \cup g) \cap s = {}
    BY <1>2, GlobalAssumption
<1>4. ((c \cup f) \cup g) \cup s = Declared
    <2>1. \A i \in Addons : /\ config.addons[i].from \in {"core", "file", "script"}
                            /\ config.addons[i].objectName \in Names
        BY EntryOf
    <2> QED BY <2>1 DEF Declared, InManifests
<1> HIDE DEF c, f, g, s
<1>5. IsListOf(Entries("core", Names) \o Entries("file", Names), c \cup f)
    BY <1>1, <1>3, JoinedLists
<1>6. IsListOf((Entries("core", Names) \o Entries("file", Names)) \o Entries("script", {Global}), (c \cup f) \cup g)
    BY <1>1, <1>3, <1>5, JoinedLists
<1>7. IsListOf(((Entries("core", Names) \o Entries("file", Names)) \o Entries("script", {Global})) \o Entries("script", here),
               ((c \cup f) \cup g) \cup s)
    BY <1>1, <1>3, <1>6, JoinedLists
<1> QED BY <1>4, <1>7 DEF Manifests, Names, here

\* The handlers of an event for an object are those of the add-ons loaded for it, each once.
LEMMA HandlersList ==
  ASSUME config \in Configs, IsListOf(loaded, Loadable), NEW e \in Events, NEW o \in Names
  PROVE  LET H == {<<e, i, o>> : i \in {i \in Loadable : config.addons[i].event = e /\ AppliesToObject(config.addons[i], o)}}
         IN  /\ Handlers(e, o) \in Seq(HandlerCalls) /\ IsInjective(Handlers(e, o)) /\ ToSet(Handlers(e, o)) = H
<1> DEFINE M == {i \in Addons : config.addons[i].event = e /\ AppliesToObject(config.addons[i], o)}
           p == Picked(loaded, M)
           h == [n \in DOMAIN p |-> <<e, p[n], o>>]
           m == Len(p)
<1>1. IsListOf(p, Loadable \cap M)
    <2> HIDE DEF M
    <2> QED BY PickedList
<1>2. Loadable \cap M = {i \in Loadable : config.addons[i].event = e /\ AppliesToObject(config.addons[i], o)}
    BY DEF Loadable, Declared
<1>3. Loadable \cap M \subseteq Addons
    BY DEF Loadable, Declared
<1>4. Handlers(e, o) = h
    BY DEF Handlers
<1> HIDE DEF M
<1>5. /\ p \in Seq(Loadable \cap M) /\ IsInjective(p) /\ ToSet(p) = Loadable \cap M
      /\ m \in Nat /\ DOMAIN p = 1..m /\ \A n \in 1..m : p[n] \in Loadable \cap M
    BY <1>1, LenProperties, ElementOfSeq DEF IsListOf
<1> HIDE DEF p, m
<1>6. h \in [1..m -> HandlerCalls]
    BY <1>3, <1>5 DEF HandlerCalls
<1>7. h \in Seq(HandlerCalls)
    BY <1>5, <1>6
<1>8. IsInjective(h)
    BY <1>5 DEF IsInjective
<1>9. ToSet(h) = {<<e, i, o>> : i \in Loadable \cap M}
    <2>1. ToSet(h) = {<<e, p[n], o>> : n \in 1..m}
        BY <1>5 DEF ToSet
    <2>2. Loadable \cap M = {p[n] : n \in 1..m}
        BY <1>5 DEF ToSet
    <2> QED BY <2>1, <2>2
<1> QED BY <1>2, <1>4, <1>7, <1>8, <1>9

\* What the first handlers are
LEMMA InitHandlersOf ==
  ASSUME config \in Configs, NEW entries \in Seq(Addons)
  PROVE  /\ InitHandlers(entries) \in Seq(HandlerCalls)
         /\ \A q \in ToSet(InitHandlers(entries)) : q[1] = "onInit"
<1> DEFINE event == [n \in DOMAIN entries |-> config.addons[entries[n]].event]
           firsts == Picked([n \in DOMAIN entries |-> n],
                            {n \in DOMAIN entries : \A m \in 1..(n - 1) : event[m] # event[n]})
           ofEvent(e) == Picked(entries, {i \in Addons : config.addons[i].event = e})
           parts == [n \in DOMAIN firsts |-> ofEvent(event[firsts[n]])]
           order == FlattenSeq(parts)
           h == [n \in DOMAIN order |-> <<"onInit", order[n], Global>>]
<1>1. InitHandlers(entries) = h
    BY DEF InitHandlers
<1>2. DOMAIN entries = 1..Len(entries) /\ Len(entries) \in Nat
    BY LenProperties
<1>3. firsts \in Seq(1..Len(entries))
    <2>1. [n \in DOMAIN entries |-> n] \in Seq(1..Len(entries))
        BY <1>2
    <2> QED BY <2>1, PickedIs
<1>4. \A e : ofEvent(e) \in Seq(Addons)
    BY PickedIs
<1> HIDE DEF firsts, event, ofEvent
<1>5. parts \in Seq(Seq(Addons))
    <2>1. DOMAIN firsts = 1..Len(firsts) /\ Len(firsts) \in Nat
        BY <1>3, LenProperties
    <2>2. parts \in [1..Len(firsts) -> Seq(Addons)]
        BY <1>4, <2>1
    <2> QED BY <2>1, <2>2
<1> HIDE DEF parts
<1>6. order \in Seq(Addons)
    BY <1>5, Flattened
<1> HIDE DEF order
<1>7. DOMAIN order = 1..Len(order) /\ Len(order) \in Nat /\ \A n \in 1..Len(order) : order[n] \in Addons
    BY <1>6, LenProperties, ElementOfSeq
<1>8. h \in [1..Len(order) -> HandlerCalls]
    BY <1>7 DEF HandlerCalls, Names
<1>9. h \in Seq(HandlerCalls)
    BY <1>7, <1>8
<1>10. \A q \in ToSet(h) : q[1] = "onInit"
    BY <1>7 DEF ToSet
<1> QED BY <1>1, <1>9, <1>10

\* An add-on that is loaded and applies to an object is meant for it.
LEMMA MeantIs ==
  ASSUME config \in Configs, set \in Sets, NEW i \in Addons, config.addons[i].event # "none", NEW o \in Names
  PROVE  o \in Meant(i) <=> Mine(i, o)
<1> DEFINE a == config.addons[i]
           here == Range(config.sets[set])
<1>1. /\ a.from \in {"core", "file", "script"} /\ a.objectName \in Names /\ a.objects \subseteq Objects
      /\ a.command \in {"sfdmu:run", "blank", "other"} /\ a.excluded \in BOOLEAN
    BY EntryOf
<1>2. here \subseteq Objects
    BY Script
<1>3. i \in Loadable <=> InManifests(a) /\ ~a.excluded /\ a.command # "other" /\ a.module = "works"
    BY <1>1 DEF Loadable, Declared, IsLoaded, CommandMatches
<1>4. ASSUME a.objectName # Global
      PROVE  /\ AppliesToObject(a, o) <=> a.objectName = o
             /\ InManifests(a) <=> (a.from = "script" => a.objectName \in here)
    BY <1>4 DEF AppliesToObject, InManifests
<1>5. ASSUME a.objectName = Global
      PROVE  /\ AppliesToObject(a, o) <=> a.objects = {} \/ o \in a.objects
             /\ InManifests(a)
    BY <1>5 DEF AppliesToObject, InManifests
<1>6. Meant(i) = IF a.excluded \/ a.command = "other" \/ a.module # "works" THEN {}
                 ELSE IF a.objectName # Global
                      THEN IF a.from = "script" THEN {a.objectName} \cap here ELSE {a.objectName}
                      ELSE IF a.objects # {} THEN a.objects ELSE Objects \cup {Global}
    BY DEF Meant
<1> HIDE DEF a, here
<1>7. Mine(i, o) <=> i \in Loadable /\ AppliesToObject(a, o)
    BY DEF Mine, a
<1>8. CASE a.objectName # Global
    BY <1>3, <1>4, <1>6, <1>7, <1>8
<1>9. CASE a.objectName = Global
    BY <1>3, <1>5, <1>6, <1>7, <1>9 DEF Names
<1> QED BY <1>8, <1>9

-----------------------------------------------------------------------------
(***************************************************************************)
(* The invariant: what is true where a job has not ended.                  *)
(***************************************************************************)

\* What setupAsync leaves: each task once, and those that delete
PlanOK ==
  /\ IsInjective(tasks) /\ IsInjective(deleteTasks)
  /\ ToSet(deleteTasks) = {o \in ToSet(tasks) : CanDelete(o)}

\* Whose turn it is, and who had one in this loop over the tasks
Current(o) == k \in DOMAIN Listed /\ Task = o
Passed(o) == \E n \in 1..(k - 1) : n \in DOMAIN Listed /\ Listed[n] = o

\* The log and the queue
CallsOK ==
  /\ log \in Seq(HandlerCalls \cup DmlCalls) /\ queue \in Seq(HandlerCalls)
  /\ IsInjective(queue) \/ \A q \in ToSet(queue) : q[1] = "onInit"
Fresh ==
  /\ Number(stage) <= 6 => log = <<>> /\ queue = <<>>
  /\ Number(stage) <= 7 => tasks = <<>> /\ deleteTasks = <<>>
AllLoaded == Number(stage) \in 7..21 => IsListOf(loaded, Loadable)
StepsOK ==
  /\ step \in {"filter", "before", "write"}
  /\ step # "filter" => stage \in Passes /\ ~PassOver(stage) /\ Writes(Task)

\* What was changed so far, and that handlers in the queue do not come too late
MayChange(name, n) ==
  /\ name = "deleteOld" => n >= 11
  /\ name \in {"write", "deleteSource"} => n >= 15
  /\ name = "deleteHierarchy" => n >= 18
ChangesInTime == \A j \in DOMAIN log : log[j][1] \in DmlNames => MayChange(log[j][1], Number(stage))
\* y may come after x.
InOrder(x, y) ==
  /\ y[1] = "onInit" \/ (y[1] = "onBefore" /\ y[3] = Global) => x[1] \notin DmlNames
  /\ y[1] \in {"onBefore", "onDataRetrieved"} => x[1] \notin DmlNames \ {"deleteOld"}
  /\ y[1] \in DmlNames => x[1] # "onAfter"
QueueInTime == \A q \in ToSet(queue) : \A j \in DOMAIN log : InOrder(log[j], q)

\* How often a handler was called or is about to be
Total(c) == Occurrences(log, c, Len(log)) + (IF c \in ToSet(queue) THEN 1 ELSE 0)
\* How often its event has come up: after a stage, in a loop over the tasks at a stage,
\* and in the three passes with the turn that is under way
After(n) == IF Number(stage) > n THEN 1 ELSE 0
Turn(o, n) == IF Number(stage) > n \/ (Number(stage) = n /\ Passed(o)) THEN 1 ELSE 0
Rounds(o) == (IF GoesForward(o) THEN Turn(o, 15) ELSE 0) + (IF IsFile("target") THEN 0 ELSE Turn(o, 16) + Turn(o, 17))
UnderWay(o, steps) == IF Current(o) /\ step \in steps THEN 1 ELSE 0
GlobalMost(e) ==
  IF e = "onBefore" THEN After(10) ELSE IF e = "onDataRetrieved" THEN After(14)
  ELSE IF e = "onAfter" THEN After(20) ELSE 0
WriterMost(e, o) ==
  IF e = "filterRecords" THEN Rounds(o) + UnderWay(o, {"before", "write"})
  ELSE IF e = "onBeforeUpdate" THEN Rounds(o) + UnderWay(o, {"write"})
  ELSE IF e = "onAfterUpdate" /\ ~IsFile("target") THEN Rounds(o) ELSE 0
ObjectMost(e, o) ==
  IF e = "onBefore" THEN Turn(o, 13) ELSE IF e = "onAfter" THEN Turn(o, 19)
  ELSE IF Writes(o) THEN WriterMost(e, o) ELSE 0
Most(e, o) == IF o = Global THEN GlobalMost(e) ELSE IF o \in ToSet(tasks) THEN ObjectMost(e, o) ELSE 0
\* Not every time there is something to filter or a file to write.
Ranges(e) == e = "filterRecords" \/ (e = "onBeforeUpdate" /\ IsFile("target"))
CountIs(e, i, o) ==
  IF config.addons[i].event = e /\ Mine(i, o)
  THEN Total(<<e, i, o>>) <= Most(e, o) /\ (Ranges(e) \/ Total(<<e, i, o>>) = Most(e, o))
  ELSE Total(<<e, i, o>>) = 0
CallsCounted ==
  ~(stage = "setDone" /\ tasks = <<>>) =>
    \A e \in Events, i \in Addons, o \in Names : CountIs(e, i, o)

\* Every write had its handlers, also the one that comes next.
WriteIs(i, o) ==
  Occurrences(log, <<"write", 0, o>>, Len(log)) + UnderWay(o, {"write"}) <= Total(<<"onBeforeUpdate", i, o>>)
WritesPrepared ==
  \A i \in Addons, o \in ToSet(tasks) :
    config.addons[i].event = "onBeforeUpdate" /\ Mine(i, o) => WriteIs(i, o)

Going ==
  CallsOK /\ Fresh /\ AllLoaded /\ StepsOK /\ ChangesInTime /\ QueueInTime /\ CallsCounted /\ WritesPrepared

(***************************************************************************)
(* A step of a job: handlers of at most one event and object go to the     *)
(* queue (F), and at most one call changes records.                        *)
(***************************************************************************)
MayFire(e, o) ==
  /\ e = "onBefore" /\ o = Global => Number(stage) <= 10
  /\ e \in {"onBefore", "onDataRetrieved"} => Number(stage) <= 14
Queues(F) ==
  \/ F = {} /\ queue' = <<>>
  \/ \E e \in Events, o \in Names : F = {<<e, o>>} /\ queue' = Handlers(e, o) /\ MayFire(e, o)
Logs(F) ==
  \/ log' = log
  \/ \E name \in DmlNames, o \in Objects :
       /\ log' = Append(log, <<name, 0, o>>)
       /\ MayChange(name, Number(stage)) /\ Number(stage) <= 18
       /\ name = "write" => Current(o) /\ step = "write" /\ step' = "filter"
       /\ F = {} \/ \E x : F = {<<"onAfterUpdate", x>>}
Works(F) ==
  /\ UNCHANGED <<config, set, plan, loaded>> /\ stage' # "end"
  /\ Number(stage') \in {Number(stage), Number(stage) + 1}
  /\ Queues(F) /\ Logs(F)
Starts == StateOK /\ PlanOK /\ Going /\ status = "running" /\ queue = <<>> /\ Number(stage) \in 8..20

\* What is known where a job is at work
LEMMA AtWork ==
  ASSUME Starts
  PROVE  /\ config \in Configs /\ set \in Sets /\ stage \in AllStages /\ stage # "end" /\ stage # "setDone"
         /\ IsListOf(loaded, Loadable)
         /\ tasks \in Seq(Objects) /\ ToSet(tasks) \subseteq Objects
         /\ DOMAIN tasks = 1..Len(tasks) /\ Len(tasks) \in Nat /\ k \in Nat /\ k >= 1
         /\ log \in Seq(HandlerCalls \cup DmlCalls)
<1>1. stage \in AllStages /\ stage \notin {"start", "end", "setDone"}
    <2>1. stage \in AllStages /\ Number(stage) \in 8..20
        BY DEF Starts, StateOK
    <2>2. Number(stage) \notin {0, 21, 22}
        BY <2>1
    <2> QED BY <2>1, <2>2, Numbers
<1>2. config \in Configs /\ set \in Sets /\ tasks \in Seq(Range(config.sets[set])) /\ k \in Nat /\ k >= 1
    BY <1>1 DEF Starts, StateOK
<1>3. Range(config.sets[set]) \subseteq Objects
    BY <1>2, Script
<1>4. tasks \in Seq(Objects)
    BY <1>2, <1>3, SeqMonotonic
<1>5. DOMAIN tasks = 1..Len(tasks) /\ Len(tasks) \in Nat /\ \A n \in 1..Len(tasks) : tasks[n] \in Objects
    BY <1>4, LenProperties, ElementOfSeq
<1>6. ToSet(tasks) \subseteq Objects
    BY <1>5 DEF ToSet
<1>7. IsListOf(loaded, Loadable) /\ log \in Seq(HandlerCalls \cup DmlCalls)
    BY DEF Starts, Going, AllLoaded, CallsOK
<1> QED BY <1>1, <1>2, <1>4, <1>5, <1>6, <1>7

\* The tasks a stage goes through are all of them, but for those that delete at the
\* stages that delete and, in a set that deletes from the source, in the forward pass.
LEMMA ListedIs ==
  ASSUME Starts
  PROVE  /\ Listed \in Seq(Objects) /\ DOMAIN Listed = 1..Len(Listed) /\ Len(Listed) \in Nat
         /\ IsInjective(Listed) /\ ToSet(Listed) \subseteq ToSet(tasks)
         /\ Task = Listed[k] /\ (NoTask <=> k > Len(Listed))
         /\ Number(stage) \in {13, 16, 17, 19} => ToSet(Listed) = ToSet(tasks)
         /\ Number(stage) = 15 => \A o \in ToSet(tasks) : GoesForward(o) <=> o \in ToSet(Listed)
<1>1. Listed \in {tasks, deleteTasks}
    BY DEF Listed, TasksAt
<1>2. deleteTasks \in Seq(Objects)
    <2>0. Number(stage) # 0
        BY DEF Starts
    <2>1. set \in Sets /\ config \in Configs /\ deleteTasks \in Seq(Range(config.sets[set]))
        BY <2>0, AtWork DEF Starts, StateOK, Number
    <2> QED BY <2>1, Script, SeqMonotonic
<1>3. Listed \in Seq(Objects) /\ DOMAIN Listed = 1..Len(Listed) /\ Len(Listed) \in Nat
    BY <1>1, <1>2, AtWork, LenProperties
<1>4. IsInjective(Listed) /\ ToSet(Listed) \subseteq ToSet(tasks)
    BY <1>1 DEF Starts, PlanOK
<1>5. Task = Listed[k] /\ (NoTask <=> k > Len(Listed))
    BY DEF Task, NoTask, Listed
<1>6. ASSUME Number(stage) \in {13, 16, 17, 19} PROVE Listed = tasks
    <2>1. stage \notin {"deleteOld", "deleteHierarchy", "forwards"}
        BY <1>6, Numbers
    <2> QED BY <2>1 DEF Listed, TasksAt
<1>7. ASSUME Number(stage) = 15, NEW o \in ToSet(tasks) PROVE GoesForward(o) <=> o \in ToSet(Listed)
    <2>1. stage = "forwards"
        <3>1. stage \in Passes
            BY <1>7, AtWork, StageNumbers
        <3> QED BY <1>7, <3>1, Numbers, PassNames
    <2>2. CASE \E p \in Range(tasks) : DeletesFromSource(p)
        <3>1. Listed = deleteTasks
            BY <2>1, <2>2 DEF Listed, TasksAt
        <3> QED BY <2>2, <3>1 DEF GoesForward, Starts, PlanOK
    <2>3. CASE ~\E p \in Range(tasks) : DeletesFromSource(p)
        <3>1. Listed = tasks
            BY <2>1, <2>3 DEF Listed, TasksAt
        <3> QED BY <2>3, <3>1 DEF GoesForward
    <2> QED BY <2>2, <2>3
<1> QED BY <1>3, <1>4, <1>5, <1>6, <1>7

\* While plan and stage stay, so does what the stage goes through.
LEMMA SameList ==
  ASSUME UNCHANGED <<config, plan, stage>>
  PROVE  Listed' = Listed /\ (k' = k => Task' = Task /\ (NoTask' <=> NoTask))
<1>1. \A o : DeletesFromSource(o)' <=> DeletesFromSource(o)
    BY DEF DeletesFromSource, IsFile
<1>2. TasksAt(stage)' = TasksAt(stage)
    BY <1>1 DEF TasksAt
<1> QED BY <1>2 DEF Listed, Task, NoTask

\* Who goes forward is settled with the plan.
LEMMA SameForward ==
  ASSUME UNCHANGED <<config, plan>>
  PROVE  \A o : GoesForward(o)' <=> GoesForward(o)
<1>1. \A o : (DeletesFromSource(o)' <=> DeletesFromSource(o)) /\ (CanDelete(o)' <=> CanDelete(o))
    BY DEF DeletesFromSource, CanDelete, IsFile
<1> QED BY <1>1 DEF GoesForward

\* Add-ons and their objects are the same in an object set.
LEMMA SameAddons ==
  ASSUME UNCHANGED <<config, set>>
  PROVE  /\ Addons' = Addons /\ HandlerCalls' = HandlerCalls /\ Declared' = Declared /\ Loadable' = Loadable
         /\ \A i, o : Mine(i, o)' <=> Mine(i, o)
<1>1. Addons' = Addons
    BY DEF Addons
<1>2. \A a : InManifests(a)' <=> InManifests(a)
    BY DEF InManifests
<1>3. Declared' = Declared
    BY <1>1, <1>2 DEF Declared
<1>4. Loadable' = Loadable
    BY <1>3 DEF Loadable
<1> QED BY <1>1, <1>3, <1>4 DEF HandlerCalls, Mine

\* The queue has the handlers of the event, each once.
LEMMA QueueWorks ==
  ASSUME Starts, NEW F, Works(F)
  PROVE  /\ queue' \in Seq(HandlerCalls) /\ IsInjective(queue')
         /\ \A q \in ToSet(queue') : q \in HandlerCalls /\ <<q[1], q[3]>> \in F /\ q[1] \in Events
         /\ \A e \in Events, i \in Addons, o \in Names :
              <<e, i, o>> \in ToSet(queue') <=> <<e, o>> \in F /\ config.addons[i].event = e /\ Mine(i, o)
<1>1. CASE F = {} /\ queue' = <<>>
    BY <1>1, EmptySeq DEF ToSet, IsInjective
<1>2. ASSUME NEW e \in Events, NEW o \in Names, F = {<<e, o>>}, queue' = Handlers(e, o)
      PROVE  /\ queue' \in Seq(HandlerCalls) /\ IsInjective(queue')
             /\ \A q \in ToSet(queue') : q \in HandlerCalls /\ <<q[1], q[3]>> \in F /\ q[1] \in Events
             /\ \A e1 \in Events, i \in Addons, o1 \in Names :
                  <<e1, i, o1>> \in ToSet(queue') <=> <<e1, o1>> \in F /\ config.addons[i].event = e1 /\ Mine(i, o1)
    <2> DEFINE M == {i \in Loadable : config.addons[i].event = e /\ AppliesToObject(config.addons[i], o)}
    <2>1. queue' \in Seq(HandlerCalls) /\ IsInjective(queue') /\ ToSet(queue') = {<<e, i, o>> : i \in M}
        BY <1>2, AtWork, HandlersList
    <2>2. M \subseteq Addons
        BY DEF Loadable, Declared
    <2>3. \A q \in ToSet(queue') : q \in HandlerCalls /\ <<q[1], q[3]>> \in F /\ q[1] \in Events
        <3> HIDE DEF M
        <3> QED BY <1>2, <2>1, <2>2 DEF HandlerCalls
    <2>4. \A i \in Addons : i \in M <=> config.addons[i].event = e /\ Mine(i, o)
        BY DEF Mine
    <2> HIDE DEF M
    <2>5. \A e1 \in Events, i \in Addons, o1 \in Names : <<e1, i, o1>> \in ToSet(queue') <=> e1 = e /\ o1 = o /\ i \in M
        BY <2>1
    <2>6. \A e1 \in Events, i \in Addons, o1 \in Names :
            <<e1, i, o1>> \in ToSet(queue') <=> <<e1, o1>> \in F /\ config.addons[i].event = e1 /\ Mine(i, o1)
        BY <1>2, <2>4, <2>5
    <2> QED BY <2>1, <2>3, <2>6
<1> QED BY <1>1, <1>2 DEF Works, Queues

\* What is added to the log is a change of records.
LEMMA LogWorks ==
  ASSUME Starts, NEW F, Works(F)
  PROVE  /\ log' \in Seq(HandlerCalls \cup DmlCalls)
         /\ \A c \in HandlerCalls : Occurrences(log', c, Len(log')) = Occurrences(log, c, Len(log))
<1>1. log \in Seq(HandlerCalls \cup DmlCalls)
    BY AtWork
<1>2. CASE log' = log
    BY <1>1, <1>2
<1>3. ASSUME NEW name \in DmlNames, NEW o \in Objects, log' = Append(log, <<name, 0, o>>)
      PROVE  /\ log' \in Seq(HandlerCalls \cup DmlCalls)
             /\ \A c \in HandlerCalls : Occurrences(log', c, Len(log')) = Occurrences(log, c, Len(log))
    <2> DEFINE S == HandlerCalls \cup DmlCalls
               d == <<name, 0, o>>
    <2>1. d \in S /\ \A c \in HandlerCalls : c # d
        BY DEF DmlCalls, HandlerCalls, Events, DmlNames
    <2> HIDE DEF S, d
    <2>2. log \in Seq(S)
        BY <1>1 DEF S
    <2>3. log' = Append(log, d)
        BY <1>3 DEF d
    <2>4. log' \in Seq(S) /\ Len(log') = Len(log) + 1 /\ Len(log) \in Nat
        BY <2>1, <2>2, <2>3, CountAppended, LenProperties
    <2>5. ASSUME NEW c \in HandlerCalls PROVE Occurrences(log', c, Len(log')) = Occurrences(log, c, Len(log))
        <3>1. Occurrences(Append(log, d), c, Len(log) + 1) = Occurrences(log, c, Len(log)) + (IF d = c THEN 1 ELSE 0)
            BY <2>1, <2>2, CountAppended
        <3>2. Occurrences(log, c, Len(log)) \in Nat
            BY <2>2, CountedIsThere
        <3>3. d # c
            BY <2>1
        <3> QED BY <2>3, <2>4, <3>1, <3>2, <3>3
    <2> QED BY <2>4, <2>5 DEF S
<1> QED BY <1>2, <1>3 DEF Works, Logs

\* Handlers are counted when they are queued.
LEMMA TotalsWork ==
  ASSUME Starts, NEW F, Works(F), NEW e \in Events, NEW i \in Addons, NEW o \in Names
  PROVE  /\ Total(<<e, i, o>>) \in Nat
         /\ Total(<<e, i, o>>)' = Total(<<e, i, o>>)
              + (IF <<e, o>> \in F /\ config.addons[i].event = e /\ Mine(i, o) THEN 1 ELSE 0)
<1> DEFINE c == <<e, i, o>>
<1>1. c \in HandlerCalls
    BY DEF HandlerCalls
<1>2. Occurrences(log', c, Len(log')) = Occurrences(log, c, Len(log))
    BY <1>1, LogWorks
<1>3. c \in ToSet(queue') <=> <<e, o>> \in F /\ config.addons[i].event = e /\ Mine(i, o)
    BY QueueWorks
<1>4. c \notin ToSet(queue)
    BY EmptySeq DEF Starts, ToSet
<1>5. Occurrences(log, c, Len(log)) \in Nat
    BY AtWork, CountedIsThere
<1> HIDE DEF c
<1>6. Total(c) = Occurrences(log, c, Len(log)) /\ Total(c) \in Nat
    BY <1>4, <1>5 DEF Total
<1>7. Total(c)' = Occurrences(log', c, Len(log')) + (IF c \in ToSet(queue') THEN 1 ELSE 0)
    BY DEF Total
<1> QED BY <1>2, <1>3, <1>6, <1>7 DEF c

\* The number of times an event may have come up grows with the handlers queued for it.
Grows(F) ==
  \A e \in Events, o \in Names :
    LET fired == IF <<e, o>> \in F THEN 1 ELSE 0
    IN  /\ Most(e, o) \in Nat /\ Most(e, o)' \in Nat
        /\ \/ Most(e, o)' = Most(e, o) + fired
           \/ Ranges(e) /\ Most(e, o)' >= Most(e, o) + fired

\* Then all handlers are counted right again.
LEMMA CountsWork ==
  ASSUME Starts, NEW F, Works(F), Grows(F)
  PROVE  CallsCounted'
<1> SUFFICES ASSUME NEW e \in Events, NEW i \in Addons, NEW o \in Names PROVE CountIs(e, i, o)'
    <2>1. UNCHANGED <<config, set>>
        BY DEF Works
    <2>2. Addons' = Addons
        BY <2>1 DEF Addons
    <2> QED BY <2>2 DEF CallsCounted
<1>1. UNCHANGED <<config, set>> /\ (Mine(i, o)' <=> Mine(i, o)) /\ (Ranges(e)' <=> Ranges(e))
    <2>1. UNCHANGED <<config, set>>
        BY DEF Works
    <2>2. Mine(i, o)' <=> Mine(i, o)
        BY <2>1, SameAddons
    <2>3. Ranges(e)' <=> Ranges(e)
        BY <2>1 DEF Ranges, IsFile
    <2> QED BY <2>1, <2>2, <2>3
<1>2. CountIs(e, i, o)
    BY AtWork DEF Starts, Going, CallsCounted
<1> DEFINE fired == IF <<e, o>> \in F THEN 1 ELSE 0
           mine == config.addons[i].event = e /\ Mine(i, o)
           c == <<e, i, o>>
<1>3. Total(c) \in Nat /\ Total(c)' = Total(c) + (IF <<e, o>> \in F /\ config.addons[i].event = e /\ Mine(i, o) THEN 1 ELSE 0)
    BY TotalsWork
<1>4. /\ Most(e, o) \in Nat /\ Most(e, o)' \in Nat
      /\ Most(e, o)' = Most(e, o) + fired \/ (Ranges(e) /\ Most(e, o)' >= Most(e, o) + fired)
    BY DEF Grows
<1>5. CASE mine
    <2>1. Total(c) <= Most(e, o) /\ (Ranges(e) \/ Total(c) = Most(e, o))
        BY <1>2, <1>5 DEF CountIs
    <2>2. Total(c)' = Total(c) + fired
        BY <1>3, <1>5
    <2> HIDE DEF c
    <2>3. fired \in {0, 1}
        OBVIOUS
    <2> HIDE DEF fired
    <2>4. Total(c)' <= Most(e, o)'
        BY <1>3, <1>4, <2>1, <2>2, <2>3
    <2>5. Ranges(e) \/ Total(c)' = Most(e, o)'
        BY <1>3, <1>4, <2>1, <2>2, <2>3
    <2>6. (config.addons[i].event = e /\ Mine(i, o))'
        BY <1>1, <1>5
    <2> QED BY <1>1, <2>4, <2>5, <2>6 DEF CountIs, c
<1>6. CASE ~mine
    <2>1. Total(c) = 0
        BY <1>2, <1>6 DEF CountIs
    <2>2. Total(c)' = 0
        BY <1>3, <1>6, <2>1
    <2>3. ~(config.addons[i].event = e /\ Mine(i, o))'
        BY <1>1, <1>6
    <2> QED BY <2>2, <2>3 DEF CountIs
<1> QED BY <1>5, <1>6

\* A write comes after its handlers were called.
TurnsPrepared(F) ==
  \A o \in ToSet(tasks) :
    UnderWay(o, {"write"})' <= UnderWay(o, {"write"}) + (IF <<"onBeforeUpdate", o>> \in F THEN 1 ELSE 0)

\* The writes of an object are counted.
LEMMA WritesCounted ==
  ASSUME Starts, NEW F, Works(F), NEW o \in ToSet(tasks)
  PROVE  /\ Occurrences(log, <<"write", 0, o>>, Len(log)) \in Nat
         /\ \/ Occurrences(log', <<"write", 0, o>>, Len(log')) = Occurrences(log, <<"write", 0, o>>, Len(log))
            \/ /\ Occurrences(log', <<"write", 0, o>>, Len(log')) = Occurrences(log, <<"write", 0, o>>, Len(log)) + 1
               /\ Current(o) /\ step = "write" /\ step' = "filter" /\ \A p \in F : p[1] # "onBeforeUpdate"
<1> DEFINE w == <<"write", 0, o>>
<1>1. log \in Seq(HandlerCalls \cup DmlCalls) /\ o \in Objects
    BY AtWork
<1>2. Occurrences(log, w, Len(log)) \in Nat
    BY <1>1, CountedIsThere
<1>3. CASE log' = log
    BY <1>2, <1>3
<1>4. ASSUME NEW name \in DmlNames, NEW x \in Objects, log' = Append(log, <<name, 0, x>>),
             name = "write" => Current(x) /\ step = "write" /\ step' = "filter",
             F = {} \/ \E y : F = {<<"onAfterUpdate", y>>}
      PROVE  \/ Occurrences(log', w, Len(log')) = Occurrences(log, w, Len(log))
             \/ /\ Occurrences(log', w, Len(log')) = Occurrences(log, w, Len(log)) + 1
                /\ Current(o) /\ step = "write" /\ step' = "filter" /\ \A p \in F : p[1] # "onBeforeUpdate"
    <2> DEFINE d == <<name, 0, x>>
               S == HandlerCalls \cup DmlCalls
    <2>1. d \in S
        BY DEF DmlCalls
    <2>2. d = w => name = "write" /\ x = o
        OBVIOUS
    <2>3. \A p \in F : p[1] # "onBeforeUpdate"
        BY <1>4
    <2> HIDE DEF d, w, S
    <2>4. log \in Seq(S)
        BY <1>1 DEF S
    <2>5. log' = Append(log, d)
        BY <1>4 DEF d
    <2>6. /\ Len(Append(log, d)) = Len(log) + 1
          /\ Occurrences(Append(log, d), w, Len(log) + 1) = Occurrences(log, w, Len(log)) + (IF d = w THEN 1 ELSE 0)
        BY <2>1, <2>4, CountAppended
    <2>7. CASE d = w
        <3>1. Occurrences(log', w, Len(log')) = Occurrences(log, w, Len(log)) + 1
            BY <2>5, <2>6, <2>7
        <3> QED BY <1>4, <2>2, <2>3, <2>7, <3>1
    <2>8. CASE d # w
        BY <1>2, <2>5, <2>6, <2>8
    <2> QED BY <2>7, <2>8
<1> QED BY <1>2, <1>3, <1>4 DEF Works, Logs

\* So the handlers of a write still come before it.
LEMMA PreparedWorks ==
  ASSUME Starts, NEW F, Works(F), TurnsPrepared(F)
  PROVE  WritesPrepared'
<1>0. UNCHANGED <<config, set, plan>>
    BY DEF Works
<1>1. Addons' = Addons /\ ToSet(tasks)' = ToSet(tasks)
    BY <1>0 DEF Addons
<1> SUFFICES ASSUME NEW i \in Addons, NEW o \in ToSet(tasks),
                    config.addons[i].event = "onBeforeUpdate", Mine(i, o)
             PROVE  WriteIs(i, o)'
    BY <1>0, <1>1, SameAddons DEF WritesPrepared
<1> DEFINE w == Occurrences(log, <<"write", 0, o>>, Len(log))
           w1 == Occurrences(log', <<"write", 0, o>>, Len(log'))
           u == UnderWay(o, {"write"})
           t == Total(<<"onBeforeUpdate", i, o>>)
           fired == IF <<"onBeforeUpdate", o>> \in F THEN 1 ELSE 0
<1>2. w + u <= t
    BY DEF Starts, Going, WritesPrepared, WriteIs
<1>3. o \in Names /\ "onBeforeUpdate" \in Events
    BY AtWork DEF Names, Events
<1>4. t \in Nat /\ t' = t + fired
    BY <1>3, TotalsWork
<1>5. u' <= u + fired
    BY DEF TurnsPrepared
<1>6. /\ w \in Nat
      /\ \/ w1 = w
         \/ w1 = w + 1 /\ Current(o) /\ step = "write" /\ step' = "filter" /\ \A p \in F : p[1] # "onBeforeUpdate"
    BY WritesCounted
<1>7. u \in {0, 1} /\ u' \in {0, 1}
    BY DEF UnderWay
<1>8. Current(o) /\ step = "write" => u = 1
    BY DEF UnderWay
<1>9. step' = "filter" => u' = 0
    BY DEF UnderWay
<1>10. fired \in {0, 1}
    OBVIOUS
<1> HIDE DEF w, w1, u, t, fired
<1>11. w1 + u' <= t'
    <2>0. w \in Nat
        BY <1>6
    <2>1. CASE w1 = w
        <3>1. t' \in Nat /\ u \in Nat /\ u' \in Nat /\ fired \in Nat
            BY <1>4, <1>7, <1>10
        <3>2. \A a, b, c, x, y \in Nat : a + b <= c /\ x <= b + y => a + x <= c + y
            OBVIOUS
        <3>3. w + u' <= t + fired
            BY <1>2, <1>4, <1>5, <2>0, <3>1, <3>2
        <3> QED BY <1>4, <2>1, <3>3
    <2>2. CASE w1 = w + 1 /\ Current(o) /\ step = "write" /\ step' = "filter"
        BY <1>2, <1>4, <1>8, <1>9, <1>10, <2>0, <2>2
    <2> QED BY <1>6, <2>1, <2>2
<1> QED BY <1>11 DEF w1, u, t, WriteIs

\* The entries of the log and of the queue come in order.
LEMMA ChangesWork ==
  ASSUME Starts, NEW F, Works(F)
  PROVE  ChangesInTime'
<1>1. log \in Seq(HandlerCalls \cup DmlCalls) /\ Number(stage) \in Nat /\ Number(stage') \in {Number(stage), Number(stage) + 1}
    BY AtWork DEF Starts, Works
<1>2. \A name : MayChange(name, Number(stage)) => MayChange(name, Number(stage'))
    BY <1>1 DEF MayChange
<1>3. \A j \in DOMAIN log : log[j][1] \in DmlNames => MayChange(log[j][1], Number(stage))
    BY DEF Starts, Going, ChangesInTime
<1>4. CASE log' = log
    BY <1>2, <1>3, <1>4 DEF ChangesInTime
<1>5. ASSUME NEW name \in DmlNames, NEW o \in Objects, log' = Append(log, <<name, 0, o>>), MayChange(name, Number(stage))
      PROVE  ChangesInTime'
    <2> DEFINE d == <<name, 0, o>>
               S == HandlerCalls \cup DmlCalls
    <2>1. d \in S /\ d[1] = name
        BY DEF DmlCalls
    <2> HIDE DEF d, S
    <2>2. /\ Len(log') = Len(log) + 1 /\ (\A n \in 1..Len(log) : log'[n] = log[n]) /\ log'[Len(log) + 1] = d
          /\ log' \in Seq(S) /\ log \in Seq(S)
        BY <1>1, <1>5, <2>1, CountAppended DEF d, S
    <2>3. DOMAIN log' = 1..(Len(log) + 1) /\ DOMAIN log = 1..Len(log) /\ Len(log) \in Nat
        BY <2>2, LenProperties
    <2>4. \A j \in DOMAIN log' : j \in DOMAIN log \/ j = Len(log) + 1
        BY <2>3
    <2> QED BY <1>2, <1>3, <1>5, <2>1, <2>2, <2>3, <2>4 DEF ChangesInTime
<1> QED BY <1>4, <1>5 DEF Works, Logs

\* Nothing is queued that comes too late.
LEMMA QueueInTimeWorks ==
  ASSUME Starts, NEW F, Works(F)
  PROVE  QueueInTime'
<1> SUFFICES ASSUME NEW q \in ToSet(queue'), NEW j \in DOMAIN log' PROVE InOrder(log'[j], q)
    BY DEF QueueInTime
<1>1. <<q[1], q[3]>> \in F /\ q[1] \in Events
    BY QueueWorks
<1>2. q[1] \notin DmlNames /\ q[1] # "onInit"
    BY <1>1 DEF Events, DmlNames
<1>3. MayFire(q[1], q[3])
    <2>1. F # {}
        BY <1>1
    <2>2. PICK e \in Events, o \in Names : F = {<<e, o>>} /\ MayFire(e, o)
        BY <2>1 DEF Works, Queues
    <2>3. q[1] = e /\ q[3] = o
        BY <1>1, <2>2
    <2> QED BY <2>2, <2>3
<1>4. CASE log' = log
    <2>1. log[j][1] \in DmlNames => MayChange(log[j][1], Number(stage))
        BY <1>4 DEF Starts, Going, ChangesInTime
    <2>2. Number(stage) \in Nat
        BY DEF Starts
    <2>3. q[1] = "onBefore" /\ q[3] = Global => log[j][1] \notin DmlNames
        BY <1>3, <2>1, <2>2 DEF MayFire, MayChange, DmlNames
    <2>4. q[1] \in {"onBefore", "onDataRetrieved"} => log[j][1] \notin DmlNames \ {"deleteOld"}
        BY <1>3, <2>1, <2>2 DEF MayFire, MayChange, DmlNames
    <2> QED BY <1>2, <1>4, <2>3, <2>4 DEF InOrder
<1>5. CASE \E x : F = {<<"onAfterUpdate", x>>}
    <2>1. q[1] = "onAfterUpdate"
        BY <1>1, <1>5
    <2> QED BY <2>1 DEF InOrder, DmlNames
<1>6. F # {}
    BY <1>1
<1> QED BY <1>4, <1>5, <1>6 DEF Works, Logs

\* What it takes to add an entry to the log
LEMMA Logged ==
  ASSUME UNCHANGED <<config, set>>, HooksAroundData,
         NEW S, log \in Seq(S), NEW x \in S, log' = Append(log, x),
         \A j \in DOMAIN log : InOrder(log[j], x),
         x[1] = "write" => \A i \in Addons :
           config.addons[i].event = "onBeforeUpdate" /\ x[3] \in Meant(i)
             => Occurrences(log, <<"onBeforeUpdate", i, x[3]>>, Len(log)) >= Occurrences(log, x, Len(log)) + 1
  PROVE  HooksAroundData'
<1>1. Addons' = Addons /\ \A i : Meant(i)' = Meant(i)
    BY DEF Addons, Meant
<1>2. /\ Len(log') = Len(log) + 1 /\ (\A n \in 1..Len(log) : log'[n] = log[n]) /\ log'[Len(log) + 1] = x
      /\ \A c : \A n \in 0..Len(log) : Occurrences(log', c, n) = Occurrences(log, c, n) /\ Occurrences(log, c, n) \in Nat
      /\ \A c : Occurrences(log', c, Len(log) + 1) = Occurrences(log, c, Len(log)) + (IF x = c THEN 1 ELSE 0)
    <2> DEFINE t == Append(log, x)
    <2>1. /\ Len(t) = Len(log) + 1 /\ t[Len(log) + 1] = x
          /\ \A n \in 1..Len(log) : t[n] = log[n]
        BY CountAppended
    <2>2. ASSUME NEW c
          PROVE  /\ \A n \in 0..Len(log) : Occurrences(t, c, n) = Occurrences(log, c, n) /\ Occurrences(log, c, n) \in Nat
                 /\ Occurrences(t, c, Len(log) + 1) = Occurrences(log, c, Len(log)) + (IF x = c THEN 1 ELSE 0)
        <3>1. \A n \in 0..Len(log) : Occurrences(t, c, n) = Occurrences(log, c, n) /\ Occurrences(log, c, n) \in Nat
            BY CountAppended, Zenon
        <3>2. Occurrences(Append(log, x), c, Len(log) + 1) = Occurrences(log, c, Len(log)) + (IF x = c THEN 1 ELSE 0)
            <4>1. log \in Seq(S) /\ x \in S
                OBVIOUS
            <4> HIDE DEF t
            <4> QED BY ONLY <4>1, CountAppended
        <3> QED BY <3>1, <3>2
    <2>3. log' = t
        OBVIOUS
    <2> HIDE DEF t
    <2> QED BY <2>1, <2>2, <2>3
<1>3. DOMAIN log = 1..Len(log) /\ Len(log) \in Nat /\ DOMAIN log' = 1..(Len(log) + 1)
    <2>1. log' \in Seq(S)
        BY CountAppended
    <2> QED BY <1>2, <2>1, LenProperties
<1> SUFFICES ASSUME NEW j \in DOMAIN log'
             PROVE  /\ log'[j][1] = "write" => BeforeUpdateRan(j)'
                    /\ \A i \in 1..(j - 1) : InOrder(log'[i], log'[j])
    BY DEF HooksAroundData, InOrder
<1>4. \A n : BeforeUpdateRan(n) <=> \A i \in Addons : config.addons[i].event = "onBeforeUpdate" /\ log[n][3] \in Meant(i)
               => Occurrences(log, <<"onBeforeUpdate", i, log[n][3]>>, n) >= Occurrences(log, log[n], n)
    BY DEF BeforeUpdateRan, Times, Occurrences
<1>5. BeforeUpdateRan(j)' <=> \A i \in Addons : config.addons[i].event = "onBeforeUpdate" /\ log'[j][3] \in Meant(i)
               => Occurrences(log', <<"onBeforeUpdate", i, log'[j][3]>>, j) >= Occurrences(log', log'[j], j)
    <2>1. BeforeUpdateRan(j)' <=> \A i \in Addons' : config'.addons[i].event = "onBeforeUpdate" /\ log'[j][3] \in Meant(i)'
               => Occurrences(log', <<"onBeforeUpdate", i, log'[j][3]>>, j) >= Occurrences(log', log'[j], j)
        BY DEF BeforeUpdateRan, Times, Occurrences
    <2> QED BY <1>1, <2>1
<1>6. CASE j \in DOMAIN log
    <2>1. log'[j] = log[j] /\ (\A i \in 1..(j - 1) : i \in DOMAIN log /\ log'[i] = log[i]) /\ j \in 0..Len(log)
        BY <1>2, <1>3, <1>6
    <2>2. /\ log[j][1] = "write" => BeforeUpdateRan(j)
          /\ \A i \in 1..(j - 1) : InOrder(log[i], log[j])
        BY <1>6 DEF HooksAroundData, InOrder
    <2>3. BeforeUpdateRan(j)' <=> BeforeUpdateRan(j)
        BY <1>2, <1>4, <1>5, <2>1
    <2> QED BY <2>1, <2>2, <2>3
<1>7. CASE j = Len(log) + 1
    <2>1. log'[j] = x /\ \A i \in 1..(j - 1) : i \in DOMAIN log /\ log'[i] = log[i]
        BY <1>2, <1>3, <1>7
    <2>2. \A i \in 1..(j - 1) : InOrder(log'[i], log'[j])
        BY <2>1
    <2>3. ASSUME x[1] = "write" PROVE BeforeUpdateRan(j)'
        <3> SUFFICES ASSUME NEW i \in Addons, config.addons[i].event = "onBeforeUpdate", x[3] \in Meant(i)
                     PROVE  Occurrences(log', <<"onBeforeUpdate", i, x[3]>>, j) >= Occurrences(log', x, j)
            BY <1>5, <2>1
        <3> DEFINE c == <<"onBeforeUpdate", i, x[3]>>
        <3>1. Occurrences(log, c, Len(log)) >= Occurrences(log, x, Len(log)) + 1
            BY <2>3
        <3> HIDE DEF c
        <3>2. Occurrences(log', c, j) = Occurrences(log, c, Len(log)) + (IF x = c THEN 1 ELSE 0)
              /\ Occurrences(log', x, j) = Occurrences(log, x, Len(log)) + 1
            BY <1>2, <1>7
        <3>3. Occurrences(log, c, Len(log)) \in Nat /\ Occurrences(log, x, Len(log)) \in Nat
            <4>1. Len(log) \in 0..Len(log)
                BY <1>3
            <4> QED BY <1>2, <4>1
        <3>4. Occurrences(log', c, j) >= Occurrences(log', x, j)
            BY <3>1, <3>2, <3>3
        <3> QED BY <3>4 DEF c
    <2> QED BY <2>1, <2>2, <2>3
<1>8. j \in DOMAIN log \/ j = Len(log) + 1
    BY <1>3
<1> QED BY <1>6, <1>7, <1>8

\* Nothing is changed once an add-on ran at onAfter.
LEMMA NothingAfter ==
  ASSUME Starts, Number(stage) <= 18
  PROVE  \A j \in DOMAIN log : log[j][1] # "onAfter"
<1> SUFFICES ASSUME NEW j \in DOMAIN log, log[j][1] = "onAfter" PROVE FALSE
    OBVIOUS
<1>1. log \in Seq(HandlerCalls \cup DmlCalls) /\ DOMAIN log = 1..Len(log)
    BY AtWork, LenProperties
<1>2. log[j] \in HandlerCalls \cup DmlCalls
    BY <1>1, ElementOfSeq
<1>3. PICK i \in Addons, o \in Names : log[j] = <<"onAfter", i, o>>
    BY <1>2 DEF HandlerCalls, DmlCalls, DmlNames
<1>4. "onAfter" \in Events
    BY DEF Events
<1>5. Total(<<"onAfter", i, o>>) = 0
    <2>1. CountIs("onAfter", i, o)
        BY <1>4, AtWork DEF Starts, Going, CallsCounted
    <2>2. Most("onAfter", o) = 0
        <3>1. Number(stage) \in Nat
            BY DEF Starts
        <3> QED BY <3>1 DEF Most, GlobalMost, ObjectMost, After, Turn
    <2>3. ~Ranges("onAfter")
        BY DEF Ranges
    <2> QED BY <2>1, <2>2, <2>3 DEF CountIs
<1>6. Occurrences(log, <<"onAfter", i, o>>, Len(log)) # 0 /\ Occurrences(log, <<"onAfter", i, o>>, Len(log)) \in Nat
    BY <1>1, <1>3, CountedIsThere
<1> QED BY <1>5, <1>6 DEF Total

\* What was logged stays in order while nothing is added.
LEMMA HooksSame == ASSUME UNCHANGED <<config, set, log>> PROVE HooksAroundData' <=> HooksAroundData
<1>1. Addons' = Addons /\ \A i : Meant(i)' = Meant(i)
    BY DEF Addons, Meant
<1>2. \A j : BeforeUpdateRan(j)' <=> BeforeUpdateRan(j)
    <2>1. \A j, i : Times(<<"onBeforeUpdate", i, log[j][3]>>, j)' = Times(<<"onBeforeUpdate", i, log[j][3]>>, j)
                    /\ Times(log[j], j)' = Times(log[j], j)
        BY DEF Times
    <2> QED BY <1>1, <2>1 DEF BeforeUpdateRan
<1> QED BY <1>2 DEF HooksAroundData

\* A change of records is logged at its time.
LEMMA HooksWork ==
  ASSUME Starts, NEW F, Works(F), HooksAroundData
  PROVE  HooksAroundData'
<1>0. UNCHANGED <<config, set>>
    BY DEF Works
<1>1. CASE log' = log
    BY <1>0, <1>1, HooksSame
<1>2. ASSUME NEW name \in DmlNames, NEW o \in Objects, log' = Append(log, <<name, 0, o>>),
             Number(stage) <= 18, name = "write" => Current(o) /\ step = "write"
      PROVE  HooksAroundData'
    <2> DEFINE d == <<name, 0, o>>
               S == HandlerCalls \cup DmlCalls
    <2>1. d \in S /\ d[1] = name /\ d[3] = o
        BY DEF DmlCalls
    <2>2. log \in Seq(S)
        BY AtWork
    <2>3. \A j \in DOMAIN log : InOrder(log[j], d)
        BY <1>2, <2>1, NothingAfter DEF InOrder, DmlNames
    <2>4. ASSUME name = "write", NEW i \in Addons, config.addons[i].event = "onBeforeUpdate", o \in Meant(i)
          PROVE  Occurrences(log, <<"onBeforeUpdate", i, o>>, Len(log)) >= Occurrences(log, d, Len(log)) + 1
        <3>1. o \in Names /\ config.addons[i].event # "none"
            BY <2>4 DEF Names
        <3>2. Mine(i, o)
            BY <2>4, <3>1, AtWork, MeantIs
        <3>3. o \in ToSet(tasks) /\ UnderWay(o, {"write"}) = 1
            <4>1. Current(o) /\ step = "write"
                BY <1>2, <2>4
            <4>2. o \in ToSet(Listed)
                BY <4>1, ListedIs DEF Current, ToSet
            <4> QED BY <4>1, <4>2, ListedIs DEF UnderWay
        <3>4. WriteIs(i, o)
            BY <2>4, <3>2, <3>3 DEF Starts, Going, WritesPrepared
        <3>5. Total(<<"onBeforeUpdate", i, o>>) = Occurrences(log, <<"onBeforeUpdate", i, o>>, Len(log))
            <4>1. Occurrences(log, <<"onBeforeUpdate", i, o>>, Len(log)) \in Nat
                BY <2>2, CountedIsThere
            <4>2. <<"onBeforeUpdate", i, o>> \notin ToSet(queue)
                BY EmptySeq DEF Starts, ToSet
            <4> QED BY <4>1, <4>2 DEF Total
        <3>6. d = <<"write", 0, o>>
            BY <2>4
        <3>7. Occurrences(log, d, Len(log)) \in Nat /\ Occurrences(log, <<"onBeforeUpdate", i, o>>, Len(log)) \in Nat
            BY <2>2, CountedIsThere
        <3> HIDE DEF d
        <3> QED BY <3>3, <3>4, <3>5, <3>6, <3>7 DEF WriteIs
    <2>5. log' = Append(log, d)
        BY <1>2
    <2> HIDE DEF d, S
    <2> QED BY <1>0, <2>1, <2>2, <2>3, <2>4, <2>5, Logged
<1> QED BY <1>1, <1>2 DEF Works, Logs

\* Whatever a job's step is, it keeps what does not depend on whose turn it is.
LEMMA WorkKeeps ==
  ASSUME Starts, NEW F, Works(F), Grows(F), TurnsPrepared(F), StepsOK', HooksAroundData, stage' \in AllStages
  PROVE  Going' /\ HooksAroundData'
<1>0. UNCHANGED <<config, set, plan, loaded>> /\ Number(stage') \in {Number(stage), Number(stage) + 1} /\ Number(stage) \in 8..20
    BY DEF Works, Starts
<1>1. CallsOK'
    <2>1. HandlerCalls' = HandlerCalls
        BY <1>0, SameAddons
    <2> QED BY <2>1, QueueWorks, LogWorks DEF CallsOK, DmlCalls
<1>2. Fresh'
    BY <1>0 DEF Fresh
<1>3. AllLoaded'
    <2>1. Loadable' = Loadable
        BY <1>0, SameAddons
    <2> QED BY <1>0, <2>1, AtWork DEF AllLoaded
<1>4. ChangesInTime' /\ QueueInTime' /\ CallsCounted' /\ WritesPrepared' /\ HooksAroundData'
    BY ChangesWork, QueueInTimeWorks, CountsWork, PreparedWorks, HooksWork
<1> QED BY <1>1, <1>2, <1>3, <1>4 DEF Going

-----------------------------------------------------------------------------
(***************************************************************************)
(* How often events come up, step by step.                                 *)
(***************************************************************************)

\* A turn is one or none.
LEMMA TurnIs ==
  /\ \A o, n : Turn(o, n) \in {0, 1}
  /\ \A o, steps : UnderWay(o, steps) \in {0, 1}
BY DEF Turn, UnderWay

\* How often an event may have come up is a number.
LEMMA ObjectMostIsNat == \A e : GlobalMost(e) \in Nat /\ \A o : ObjectMost(e, o) \in Nat
<1>1. \A o, n : Turn(o, n) \in {0, 1}
    BY TurnIs
<1>2. \A o, steps : UnderWay(o, steps) \in {0, 1}
    BY TurnIs
<1>3. \A n : After(n) \in Nat
    BY DEF After
<1>4. \A o : Rounds(o) \in Nat
    <2> TAKE o
    <2>1. Turn(o, 15) \in {0, 1} /\ Turn(o, 16) \in {0, 1} /\ Turn(o, 17) \in {0, 1}
        BY <1>1
    <2> QED BY <2>1 DEF Rounds
<1>5. \A e, o : WriterMost(e, o) \in Nat
    <2> TAKE e, o
    <2>1. UnderWay(o, {"before", "write"}) \in {0, 1} /\ UnderWay(o, {"write"}) \in {0, 1} /\ Rounds(o) \in Nat
        BY <1>2, <1>4
    <2> QED BY <2>1 DEF WriterMost
<1>6. \A e, o : ObjectMost(e, o) \in Nat
    BY <1>1, <1>5 DEF ObjectMost
<1>7. \A e : GlobalMost(e) \in Nat
    BY <1>3 DEF GlobalMost
<1> QED BY <1>6, <1>7

\* So it is for both.
LEMMA MostIsNat == \A e, o : Most(e, o) \in Nat
BY ObjectMostIsNat DEF Most

ObjectGrows(e, o, fired) ==
  \/ ObjectMost(e, o)' = ObjectMost(e, o) + fired
  \/ Ranges(e) /\ ObjectMost(e, o)' >= ObjectMost(e, o) + fired

\* Events come up for Global and for the objects of the tasks.
LEMMA GrowsIf ==
  ASSUME Starts, UNCHANGED <<config, plan>>, NEW F, \A p \in F : p[2] \in ToSet(tasks) \cup {Global},
         \A e \in Events : GlobalMost(e)' = GlobalMost(e) + (IF <<e, Global>> \in F THEN 1 ELSE 0),
         \A e \in Events, o \in ToSet(tasks) : ObjectGrows(e, o, IF <<e, o>> \in F THEN 1 ELSE 0)
  PROVE  Grows(F)
<1> SUFFICES ASSUME NEW e \in Events, NEW o \in Names
             PROVE  LET fired == IF <<e, o>> \in F THEN 1 ELSE 0
                    IN  \/ Most(e, o)' = Most(e, o) + fired
                        \/ Ranges(e) /\ Most(e, o)' >= Most(e, o) + fired
    <2>1. \A e, o : Most(e, o) \in Nat
        BY MostIsNat
    <2>2. (\A e, o : Most(e, o) \in Nat)'
        BY MostIsNat, PTL
    <2> QED BY <2>1, <2>2 DEF Grows
<1>1. ToSet(tasks)' = ToSet(tasks)
    OBVIOUS
<1>2. CASE o = Global
    <2>1. Most(e, o) = GlobalMost(e) /\ Most(e, o)' = GlobalMost(e)'
        BY <1>2 DEF Most
    <2> QED BY <1>2, <2>1
<1>3. CASE o \in ToSet(tasks)
    <2>1. o # Global
        BY <1>3, AtWork, GlobalAssumption
    <2>2. Most(e, o) = ObjectMost(e, o) /\ Most(e, o)' = ObjectMost(e, o)'
        BY <1>1, <1>3, <2>1 DEF Most
    <2>3. ObjectGrows(e, o, IF <<e, o>> \in F THEN 1 ELSE 0)
        BY <1>3
    <2> QED BY <2>2, <2>3 DEF ObjectGrows
<1>4. CASE o # Global /\ o \notin ToSet(tasks)
    <2>1. Most(e, o) = 0 /\ Most(e, o)' = 0
        BY <1>1, <1>4 DEF Most
    <2>2. <<e, o>> \notin F
        BY <1>4
    <2> QED BY <2>1, <2>2
<1> QED BY <1>2, <1>3, <1>4

\* What comes up for an object depends on its turns.
LEMMA SameTurns ==
  ASSUME UNCHANGED <<config, plan>>, NEW o,
         Turn(o, 13)' = Turn(o, 13), Turn(o, 19)' = Turn(o, 19),
         GoesForward(o) => Turn(o, 15)' = Turn(o, 15),
         IsFile("target") \/ (Turn(o, 16)' = Turn(o, 16) /\ Turn(o, 17)' = Turn(o, 17)),
         \A steps : "filter" \notin steps => UnderWay(o, steps)' = UnderWay(o, steps)
  PROVE  \A e : ObjectMost(e, o)' = ObjectMost(e, o)
<1>1. (IsFile("target")' <=> IsFile("target")) /\ (Writes(o)' <=> Writes(o))
    BY DEF IsFile, Writes
<1>2. Rounds(o)' = Rounds(o)
    BY <1>1, SameForward DEF Rounds
<1>3. UnderWay(o, {"before", "write"})' = UnderWay(o, {"before", "write"}) /\ UnderWay(o, {"write"})' = UnderWay(o, {"write"})
    OBVIOUS
<1>4. \A e : WriterMost(e, o)' = WriterMost(e, o)
    BY <1>1, <1>2, <1>3 DEF WriterMost
<1> QED BY <1>1, <1>4 DEF ObjectMost

\* The next stage
LEMMA MoveOn ==
  ASSUME Starts, GoOn, UNCHANGED <<config, set, plan>>, step = "filter"
  PROVE  /\ stage' \in AllStages /\ stage' # "end" /\ Number(stage') = Number(stage) + 1
         /\ \A n \in Nat : n # Number(stage) => After(n)' = After(n)
         /\ \A n \in Nat : n = Number(stage) => After(n)' = After(n) + 1
         /\ \A o : \A n \in Nat : n # Number(stage) \/ Passed(o) => Turn(o, n)' = Turn(o, n)
         /\ \A o, steps : "filter" \notin steps => UnderWay(o, steps)' = UnderWay(o, steps)
<1>1. Number(stage) \in 8..20 /\ stage \in AllStages /\ stage' = Following(stage)
    BY AtWork DEF Starts, GoOn
<1>2. Number(stage') = Number(stage) + 1
    BY <1>1, Numbers
<1>3. stage' \in AllStages /\ stage' # "end"
    <2>1. stage = "processCsv" \/ stage \in DataStages
        BY <1>1, Numbers DEF AllStages, BeforeData, BeforeTargetPrompt, BeforeSourcePrompt, Opening
    <2> QED BY <1>1, <2>1, StageOrder DEF AllStages, DataStages
<1>4. \A o : ~Passed(o)'
    BY DEF Passed, GoOn
<1> DEFINE N == Number(stage)
<1>5. N \in Nat /\ Number(stage') = N + 1
    BY <1>1, <1>2
<1>6. \A n : After(n) = (IF N > n THEN 1 ELSE 0) /\ After(n)' = (IF N + 1 > n THEN 1 ELSE 0)
    BY <1>5 DEF After
<1>7. \A o, n : /\ Turn(o, n) = (IF N > n \/ (N = n /\ Passed(o)) THEN 1 ELSE 0)
                /\ Turn(o, n)' = (IF N + 1 > n THEN 1 ELSE 0)
    BY <1>4, <1>5 DEF Turn
<1>8. \A o, steps : "filter" \notin steps => UnderWay(o, steps)' = UnderWay(o, steps)
    BY DEF UnderWay, GoOn
<1> HIDE DEF N
<1>9. \A n \in Nat : n # N => (N + 1 > n <=> N > n)
    BY <1>5
<1>10. \A n \in Nat : /\ n # N => After(n)' = After(n)
                      /\ n = N => After(n)' = After(n) + 1
    <2> TAKE n \in Nat
    <2>1. n # N => After(n)' = After(n)
        BY <1>6, <1>9
    <2>2. n = N => After(n) = 0 /\ After(n)' = 1
        BY <1>5, <1>6
    <2> QED BY <2>1, <2>2
<1>11. \A o : \A n \in Nat : n # N \/ Passed(o) => Turn(o, n)' = Turn(o, n)
    BY <1>5, <1>7, <1>9
<1> QED BY <1>2, <1>3, <1>8, <1>10, <1>11 DEF N

\* An object's turn in a loop is over.
LEMMA TurnOver ==
  ASSUME Starts, UNCHANGED <<config, set, plan, stage>>, k \in DOMAIN Listed, k' = k + 1
  PROVE  \A o : \A n \in Nat :
           Turn(o, n)' = Turn(o, n) + (IF n = Number(stage) /\ Current(o) THEN 1 ELSE 0)
<1> SUFFICES ASSUME NEW o, NEW n \in Nat
             PROVE  Turn(o, n)' = Turn(o, n) + (IF n = Number(stage) /\ Current(o) THEN 1 ELSE 0)
    OBVIOUS
<1>1. /\ DOMAIN Listed = 1..Len(Listed) /\ Len(Listed) \in Nat /\ k \in Nat /\ Number(stage) \in Nat
      /\ (\A m, i \in DOMAIN Listed : Listed[m] = Listed[i] => m = i) /\ Task = Listed[k] /\ Listed' = Listed
    <2>1. Number(stage) \in Nat
        BY DEF Starts
    <2>2. \A m, i \in DOMAIN Listed : Listed[m] = Listed[i] => m = i
        BY ListedIs DEF IsInjective
    <2> QED BY <2>1, <2>2, AtWork, ListedIs, SameList
<1>2. Passed(o)' <=> Passed(o) \/ Current(o)
    <2>1. Passed(o)' <=> \E m \in 1..k : m \in DOMAIN Listed /\ Listed[m] = o
        BY <1>1 DEF Passed
    <2>2. \A m : m \in 1..k <=> m \in 1..(k - 1) \/ m = k
        BY <1>1
    <2> QED BY <1>1, <2>1, <2>2 DEF Passed, Current
<1>3. Current(o) => ~Passed(o)
    <2>1. \A m \in 1..(k - 1) : m # k
        BY <1>1
    <2> QED BY <1>1, <2>1 DEF Current, Passed
<1> QED BY <1>1, <1>2, <1>3 DEF Turn

\* After the last task all had their turn.
LEMMA AllPassed ==
  ASSUME Starts, NoTask
  PROVE  \A o \in ToSet(Listed) : Passed(o)
<1>1. DOMAIN Listed = 1..Len(Listed) /\ Len(Listed) \in Nat /\ k \in Nat /\ k > Len(Listed)
    BY AtWork, ListedIs
<1> QED BY <1>1 DEF Passed, ToSet

JobWorks(F) == Works(F) /\ Grows(F) /\ TurnsPrepared(F) /\ StepsOK' /\ stage' \in AllStages

\* An update pass is at its beginning where nothing is under way.
LEMMA StepIsFilter ==
  ASSUME Starts, stage \notin Passes \/ PassOver(stage)
  PROVE  step = "filter"
BY DEF Starts, Going, StepsOK

\* The next stage, without handlers
LEMMA MoveWorks ==
  ASSUME Starts, GoOn, UNCHANGED <<config, set, plan, loaded, log>>, queue' = <<>>, step = "filter",
         Number(stage) \notin {10, 14, 20},
         Number(stage) \in {13, 15, 16, 17, 19} =>
           NoTask \/ (IsFile("target") /\ Number(stage) \in {16, 17})
  PROVE  JobWorks({})
<1>1. /\ stage' \in AllStages /\ stage' # "end" /\ Number(stage') = Number(stage) + 1
      /\ \A n \in Nat : n # Number(stage) => After(n)' = After(n)
      /\ \A o : \A n \in Nat : n # Number(stage) \/ Passed(o) => Turn(o, n)' = Turn(o, n)
      /\ \A o, steps : "filter" \notin steps => UnderWay(o, steps)' = UnderWay(o, steps)
    BY MoveOn
<1>2. Works({})
    BY <1>1 DEF Works, Queues, Logs
<1>3. \A e \in Events : GlobalMost(e)' = GlobalMost(e)
    <2>1. After(10)' = After(10) /\ After(14)' = After(14) /\ After(20)' = After(20)
        BY <1>1
    <2> QED BY <2>1 DEF GlobalMost
<1>4. \A o \in ToSet(tasks) : \A e : ObjectMost(e, o)' = ObjectMost(e, o)
    <2> TAKE o \in ToSet(tasks)
    <2>1. /\ NoTask /\ Number(stage) \in {13, 16, 17, 19} => Passed(o)
          /\ NoTask /\ Number(stage) = 15 /\ GoesForward(o) => Passed(o)
        BY AllPassed, ListedIs
    <2>2. Turn(o, 13)' = Turn(o, 13) /\ Turn(o, 19)' = Turn(o, 19) /\ (GoesForward(o) => Turn(o, 15)' = Turn(o, 15))
        BY <1>1, <2>1
    <2>3. IsFile("target") \/ (Turn(o, 16)' = Turn(o, 16) /\ Turn(o, 17)' = Turn(o, 17))
        BY <1>1, <2>1
    <2> QED BY <1>1, <2>2, <2>3, SameTurns
<1>5. Grows({})
    <2>2. \A e \in Events, o \in ToSet(tasks) : ObjectGrows(e, o, IF <<e, o>> \in {} THEN 1 ELSE 0)
        <3> TAKE e \in Events, o \in ToSet(tasks)
        <3>1. ObjectMost(e, o)' = ObjectMost(e, o) /\ ObjectMost(e, o) \in Nat
            BY <1>4, ObjectMostIsNat
        <3> QED BY <3>1 DEF ObjectGrows
    <2>3. \A e \in Events : GlobalMost(e)' = GlobalMost(e) + (IF <<e, Global>> \in {} THEN 1 ELSE 0)
        BY <1>3, ObjectMostIsNat
    <2> QED BY <2>2, <2>3, GrowsIf
<1>6. TurnsPrepared({})
    <2>1. \A o : UnderWay(o, {"write"})' = UnderWay(o, {"write"}) /\ UnderWay(o, {"write"}) \in {0, 1}
        BY <1>1, TurnIs
    <2> QED BY <2>1 DEF TurnsPrepared
<1>7. StepsOK'
    BY DEF StepsOK, GoOn
<1> QED BY <1>1, <1>2, <1>5, <1>6, <1>7 DEF JobWorks

\* The next stage, after the handlers of a global event
LEMMA GlobalWorks ==
  ASSUME Starts, GoOn, UNCHANGED <<config, set, plan, loaded, log>>, step = "filter",
         NEW event, <<Number(stage), event>> \in {<<10, "onBefore">>, <<14, "onDataRetrieved">>, <<20, "onAfter">>},
         queue' = Handlers(event, Global)
  PROVE  JobWorks({<<event, Global>>})
<1> DEFINE F == {<<event, Global>>}
<1>1. /\ stage' \in AllStages /\ stage' # "end" /\ Number(stage') = Number(stage) + 1
      /\ \A n \in Nat : n # Number(stage) => After(n)' = After(n)
      /\ \A n \in Nat : n = Number(stage) => After(n)' = After(n) + 1
      /\ \A o : \A n \in Nat : n # Number(stage) \/ Passed(o) => Turn(o, n)' = Turn(o, n)
      /\ \A o, steps : "filter" \notin steps => UnderWay(o, steps)' = UnderWay(o, steps)
    BY MoveOn
<1>2. event \in Events /\ Global \in Names /\ MayFire(event, Global)
    BY DEF Events, Names, MayFire
<1>3. Works(F)
    BY <1>1, <1>2 DEF Works, Queues, Logs
<1>4. \A e \in Events : GlobalMost(e)' = GlobalMost(e) + (IF e = event THEN 1 ELSE 0)
    <2>1. \A n \in {10, 14, 20} : After(n)' = After(n) + (IF n = Number(stage) THEN 1 ELSE 0) /\ After(n) \in Nat
        <3>1. \A n : After(n) \in Nat
            BY DEF After
        <3> QED BY <1>1, <3>1
    <2>2. CASE Number(stage) = 10 /\ event = "onBefore"
        BY <2>1, <2>2 DEF GlobalMost, Events
    <2>3. CASE Number(stage) = 14 /\ event = "onDataRetrieved"
        BY <2>1, <2>3 DEF GlobalMost, Events
    <2>4. CASE Number(stage) = 20 /\ event = "onAfter"
        BY <2>1, <2>4 DEF GlobalMost, Events
    <2> QED BY <2>2, <2>3, <2>4
<1>5. \A o \in ToSet(tasks) : \A e : ObjectMost(e, o)' = ObjectMost(e, o)
    <2> TAKE o \in ToSet(tasks)
    <2>1. \A n \in {13, 15, 16, 17, 19} : Turn(o, n)' = Turn(o, n)
        BY <1>1
    <2> QED BY <1>1, <2>1, SameTurns
<1>6. Grows(F)
    <2>1. \A e \in Events, o \in ToSet(tasks) : ObjectGrows(e, o, IF <<e, o>> \in F THEN 1 ELSE 0)
        <3> TAKE e \in Events, o \in ToSet(tasks)
        <3>1. ObjectMost(e, o)' = ObjectMost(e, o) /\ ObjectMost(e, o) \in Nat
            BY <1>5, ObjectMostIsNat
        <3>2. <<e, o>> \notin F
            BY AtWork, GlobalAssumption
        <3> QED BY <3>1, <3>2 DEF ObjectGrows
    <2>2. \A e \in Events : GlobalMost(e)' = GlobalMost(e) + (IF <<e, Global>> \in F THEN 1 ELSE 0)
        BY <1>4
    <2>3. \A p \in F : p[2] \in ToSet(tasks) \cup {Global}
        OBVIOUS
    <2> HIDE DEF F
    <2> QED BY <2>1, <2>2, <2>3, GrowsIf
<1>7. TurnsPrepared(F)
    <2>1. \A o : UnderWay(o, {"write"})' = UnderWay(o, {"write"}) /\ UnderWay(o, {"write"}) \in {0, 1}
        BY <1>1, TurnIs
    <2> HIDE DEF F
    <2> QED BY <2>1 DEF TurnsPrepared
<1>8. StepsOK'
    BY DEF StepsOK, GoOn
<1> HIDE DEF F
<1>9. JobWorks(F)
    BY <1>1, <1>3, <1>6, <1>7, <1>8 DEF JobWorks
<1> QED BY <1>9 DEF F

\* What the current task does concerns no other.
LEMMA OwnTurn ==
  ASSUME Starts, UNCHANGED <<config, set, plan, loaded, stage>>, k \in DOMAIN Listed,
         k' = k \/ (k' = k + 1 /\ step' = "filter"),
         NEW F, Queues(F), Logs(F), NEW o, o = Task, \A p \in F : p[2] = o,
         \A e \in Events : ObjectGrows(e, o, IF <<e, o>> \in F THEN 1 ELSE 0),
         UnderWay(o, {"write"})' <= UnderWay(o, {"write"}) + (IF <<"onBeforeUpdate", o>> \in F THEN 1 ELSE 0),
         StepsOK'
  PROVE  JobWorks(F)
<1>1. stage' \in AllStages /\ stage' # "end" /\ Number(stage') = Number(stage) /\ Number(stage) \in Nat
    BY AtWork DEF Starts
<1>2. Works(F)
    BY <1>1 DEF Works
<1>3. o \in ToSet(tasks) /\ o # Global
    <2>1. o \in ToSet(Listed)
        BY ListedIs DEF ToSet
    <2> QED BY <2>1, AtWork, ListedIs, GlobalAssumption
<1>4. \A e \in Events : GlobalMost(e)' = GlobalMost(e) /\ GlobalMost(e) \in Nat
    <2>1. \A n : After(n)' = After(n)
        BY <1>1 DEF After
    <2> QED BY <2>1, ObjectMostIsNat DEF GlobalMost
<1>5. ASSUME NEW x \in ToSet(tasks), x # o
      PROVE  /\ \A steps : "filter" \notin steps => UnderWay(x, steps)' = UnderWay(x, steps)
             /\ \A e : ObjectMost(e, x)' = ObjectMost(e, x)
    <2>1. ~Current(x)
        BY <1>5 DEF Current
    <2>0. Listed' = Listed /\ (k' = k => Task' = Task)
        BY SameList
    <2>2. \A steps : "filter" \notin steps => UnderWay(x, steps)' = UnderWay(x, steps)
        BY <2>0, <2>1 DEF UnderWay, Current
    <2>3. \A n \in Nat : Turn(x, n)' = Turn(x, n)
        <3>1. CASE k' = k
            BY <2>0, <3>1 DEF Turn, Passed
        <3>2. CASE k' = k + 1
            <4>1. \A n \in Nat : Turn(x, n)' = Turn(x, n) + (IF n = Number(stage) /\ Current(x) THEN 1 ELSE 0)
                BY <3>2, TurnOver
            <4>2. \A n : Turn(x, n) \in {0, 1}
                BY TurnIs
            <4> QED BY <2>1, <4>1, <4>2
        <3> QED BY <3>1, <3>2
    <2>4. \A e : ObjectMost(e, x)' = ObjectMost(e, x)
        BY <2>2, <2>3, SameTurns
    <2> QED BY <2>2, <2>4
<1>6. Grows(F)
    <2>1. \A e \in Events, x \in ToSet(tasks) : ObjectGrows(e, x, IF <<e, x>> \in F THEN 1 ELSE 0)
        <3> TAKE e \in Events, x \in ToSet(tasks)
        <3>1. CASE x = o
            BY <3>1
        <3>2. CASE x # o
            <4>1. ObjectMost(e, x)' = ObjectMost(e, x) /\ ObjectMost(e, x) \in Nat
                BY <1>5, <3>2, ObjectMostIsNat
            <4>2. <<e, x>> \notin F
                BY <3>2
            <4> QED BY <4>1, <4>2 DEF ObjectGrows
        <3> QED BY <3>1, <3>2
    <2>2. \A e \in Events : GlobalMost(e)' = GlobalMost(e) + (IF <<e, Global>> \in F THEN 1 ELSE 0)
        <3> TAKE e \in Events
        <3>1. <<e, Global>> \notin F
            BY <1>3
        <3> QED BY <1>4, <3>1
    <2>3. \A p \in F : p[2] \in ToSet(tasks) \cup {Global}
        BY <1>3
    <2> QED BY <2>1, <2>2, <2>3, GrowsIf
<1>7. TurnsPrepared(F)
    <2> SUFFICES ASSUME NEW x \in ToSet(tasks)
                 PROVE  UnderWay(x, {"write"})' <= UnderWay(x, {"write"}) + (IF <<"onBeforeUpdate", x>> \in F THEN 1 ELSE 0)
        BY DEF TurnsPrepared
    <2>1. CASE x # o
        <3>1. UnderWay(x, {"write"})' = UnderWay(x, {"write"}) /\ UnderWay(x, {"write"}) \in {0, 1}
            BY <1>5, <2>1, TurnIs
        <3> QED BY <3>1
    <2> QED BY <2>1
<1> QED BY <1>1, <1>2, <1>6, <1>7 DEF JobWorks

\* Where a stage that goes through the tasks stands
LEMMA AtTask ==
  ASSUME Starts, ~NoTask
  PROVE  /\ k \in DOMAIN Listed /\ Current(Task) /\ Task \in Objects
         /\ Task \in ToSet(Listed) /\ Task \in ToSet(tasks)
<1>1. k \in DOMAIN Listed
    BY AtWork, ListedIs
<1>2. Task \in ToSet(Listed)
    BY <1>1, ListedIs DEF ToSet
<1> QED BY <1>1, <1>2, AtWork, ListedIs DEF Current

\* A turn that is no pass
LEMMA TurnGrows ==
  ASSUME Starts, UNCHANGED <<config, set, plan, loaded, stage>>, k \in DOMAIN Listed,
         k' = k + 1, step = "filter", step' = "filter", stage \notin Passes, NEW o, o = Task
  PROVE  /\ \A e \in Events : ObjectMost(e, o)' = ObjectMost(e, o) +
              (IF <<Number(stage), e>> \in {<<13, "onBefore">>, <<19, "onAfter">>} THEN 1 ELSE 0)
         /\ UnderWay(o, {"write"})' <= UnderWay(o, {"write"})
<1>1. \A n \in Nat : Turn(o, n)' = Turn(o, n) + (IF n = Number(stage) THEN 1 ELSE 0)
    BY TurnOver DEF Current
<1>2. \A n : Turn(o, n) \in {0, 1}
    BY TurnIs
<1>3. Number(stage) \notin 15..17
    BY AtWork, StageNumbers
<1>4. Turn(o, 15)' = Turn(o, 15) /\ Turn(o, 16)' = Turn(o, 16) /\ Turn(o, 17)' = Turn(o, 17)
    BY <1>1, <1>2, <1>3
<1>5. \A steps : "filter" \notin steps => UnderWay(o, steps)' = 0 /\ UnderWay(o, steps) = 0
    BY DEF UnderWay
<1>6. \A e : WriterMost(e, o)' = WriterMost(e, o) /\ WriterMost(e, o) \in Nat
    <2>1. Rounds(o)' = Rounds(o) /\ Rounds(o) \in Nat
        BY <1>2, <1>4, SameForward DEF Rounds, IsFile
    <2>2. /\ UnderWay(o, {"before", "write"})' = 0 /\ UnderWay(o, {"before", "write"}) = 0
          /\ UnderWay(o, {"write"})' = 0 /\ UnderWay(o, {"write"}) = 0
        BY <1>5
    <2> QED BY <2>1, <2>2 DEF WriterMost, IsFile
<1>7. Writes(o)' <=> Writes(o)
    BY DEF Writes
<1>8. /\ Turn(o, 13)' = Turn(o, 13) + (IF Number(stage) = 13 THEN 1 ELSE 0)
      /\ Turn(o, 19)' = Turn(o, 19) + (IF Number(stage) = 19 THEN 1 ELSE 0)
      /\ Turn(o, 13) \in Nat /\ Turn(o, 19) \in Nat
    BY <1>1, <1>2
<1>9. \A e \in Events : ObjectMost(e, o)' = ObjectMost(e, o) +
              (IF <<Number(stage), e>> \in {<<13, "onBefore">>, <<19, "onAfter">>} THEN 1 ELSE 0)
    BY <1>6, <1>7, <1>8 DEF ObjectMost
<1>10. UnderWay(o, {"write"})' = 0 /\ UnderWay(o, {"write"}) = 0
    BY <1>5
<1> QED BY <1>9, <1>10

\* DeleteRecords: old data, and hierarchies
LEMMA DeletesWork ==
  ASSUME Starts, stage' # "end",
         NEW operations, NEW name, DeleteRecords(name, operations),
         <<Number(name), name>> \in {<<11, "deleteOld">>, <<18, "deleteHierarchy">>}
  PROVE  \E F : JobWorks(F)
<1>1. stage = name /\ stage \notin Passes /\ step = "filter" /\ queue = <<>>
    <2>1. stage = name /\ queue = <<>>
        BY DEF DeleteRecords, At
    <2>2. stage \notin Passes
        BY <2>1, PassNames
    <2> QED BY <2>1, <2>2, StepIsFilter
<1>2. CASE NoTask
    <2>1. GoOn /\ UNCHANGED <<config, set, plan, loaded, log>> /\ queue' = <<>>
        BY <1>1, <1>2 DEF DeleteRecords, NoDml
    <2> QED BY <1>1, <2>1, MoveWorks
<1>3. CASE ~NoTask
    <2>1. /\ k' = k + 1 /\ UNCHANGED <<config, set, plan, loaded, stage, step>> /\ queue' = <<>>
          /\ Dml(name, "target") \/ log' = log
        BY <1>1, <1>3 DEF DeleteRecords, NoDml, Throw
    <2>2. k \in DOMAIN Listed /\ Task \in Objects
        BY <1>3, AtTask
    <2>3. Logs({})
        <3>1. CASE log' = log
            BY <3>1 DEF Logs
        <3>2. CASE Dml(name, "target")
            <4>1. log' = Append(log, <<name, 0, Task>>) /\ name \in DmlNames /\ name # "write"
                BY <3>2 DEF Dml, DmlNames
            <4>2. MayChange(name, Number(stage)) /\ Number(stage) <= 18
                BY <1>1 DEF MayChange
            <4> QED BY <2>2, <4>1, <4>2 DEF Logs
        <3> QED BY <2>1, <3>1, <3>2
    <2>4. Queues({})
        BY <2>1 DEF Queues
    <2>5. PICK o : o = Task
        OBVIOUS
    <2>6. \A e \in Events : ObjectMost(e, o)' = ObjectMost(e, o) /\ ObjectMost(e, o) \in Nat
        <3>1. \A e \in Events : ObjectMost(e, o)' = ObjectMost(e, o) +
                (IF <<Number(stage), e>> \in {<<13, "onBefore">>, <<19, "onAfter">>} THEN 1 ELSE 0)
            BY <1>1, <2>1, <2>2, <2>5, TurnGrows
        <3>2. \A e \in Events : <<Number(stage), e>> \notin {<<13, "onBefore">>, <<19, "onAfter">>}
            BY <1>1
        <3>3. \A e : ObjectMost(e, o) \in Nat
            BY ObjectMostIsNat
        <3> QED BY <3>1, <3>2, <3>3
    <2> DEFINE F == {}
    <2>7. \A e \in Events : ObjectGrows(e, o, IF <<e, o>> \in F THEN 1 ELSE 0)
        BY <2>6 DEF ObjectGrows
    <2>8. UnderWay(o, {"write"})' <= UnderWay(o, {"write"}) + (IF <<"onBeforeUpdate", o>> \in F THEN 1 ELSE 0)
        <3>1. UnderWay(o, {"write"})' <= UnderWay(o, {"write"})
            BY <1>1, <2>1, <2>2, <2>5, TurnGrows
        <3>2. UnderWay(o, {"write"}) \in {0, 1}
            BY TurnIs
        <3> QED BY <3>1, <3>2
    <2>9. StepsOK'
        BY <1>1, <2>1 DEF StepsOK
    <2>10. step' = "filter" /\ Logs(F) /\ Queues(F) /\ \A p \in F : p[2] = o
        BY <1>1, <2>1, <2>3, <2>4
    <2> HIDE DEF F
    <2> QED BY <2>1, <2>2, <2>5, <2>7, <2>8, <2>9, <2>10, OwnTurn
<1> QED BY <1>2, <1>3

\* ObjectEvent: onBefore and onAfter of one object after the other
LEMMA ObjectEventsWork ==
  ASSUME Starts, NEW name, NEW event, ObjectEvent(name, event),
         <<Number(name), name, event>> \in {<<13, "objectBefore", "onBefore">>, <<19, "objectAfter", "onAfter">>}
  PROVE  \E F : JobWorks(F)
<1>1. stage = name /\ stage \notin Passes /\ step = "filter" /\ queue = <<>>
    <2>1. stage = name /\ queue = <<>>
        BY DEF ObjectEvent, At
    <2>2. stage \notin Passes
        BY <2>1, PassNames
    <2> QED BY <2>1, <2>2, StepIsFilter
<1>2. k \in Nat
    BY AtWork
<1>3. CASE NoTask
    <2>1. GoOn /\ UNCHANGED <<config, set, plan, loaded, log>> /\ queue' = <<>>
        BY <1>1, <1>2, <1>3 DEF ObjectEvent
    <2> QED BY <1>1, <1>3, <2>1, MoveWorks
<1>4. CASE ~NoTask
    <2>1. /\ k' = k + 1 /\ UNCHANGED <<config, set, plan, loaded, stage, step, log>>
          /\ queue' = Handlers(event, Task)
        BY <1>2, <1>4 DEF ObjectEvent
    <2>2. k \in DOMAIN Listed /\ Task \in Objects
        BY <1>4, AtTask
    <2>3. PICK o : o = Task
        OBVIOUS
    <2> DEFINE F == {<<event, o>>}
    <2>4. Queues(F) /\ Logs(F)
        <3>1. event \in Events /\ o \in Names /\ o # Global /\ MayFire(event, o)
            BY <1>1, <2>2, <2>3, GlobalAssumption DEF Events, Names, MayFire
        <3>2. queue' = Handlers(event, o)
            BY <2>1, <2>3
        <3> QED BY <2>1, <3>1, <3>2 DEF Queues, Logs
    <2>5. \A e \in Events : ObjectMost(e, o)' = ObjectMost(e, o) + (IF e = event THEN 1 ELSE 0)
        <3>1. \A e \in Events : ObjectMost(e, o)' = ObjectMost(e, o) +
                (IF <<Number(stage), e>> \in {<<13, "onBefore">>, <<19, "onAfter">>} THEN 1 ELSE 0)
            BY <1>1, <2>1, <2>2, <2>3, TurnGrows
        <3>2. \A e \in Events : <<Number(stage), e>> \in {<<13, "onBefore">>, <<19, "onAfter">>} <=> e = event
            BY <1>1
        <3> QED BY <3>1, <3>2
    <2>6. \A e \in Events : ObjectGrows(e, o, IF <<e, o>> \in F THEN 1 ELSE 0)
        BY <2>5 DEF ObjectGrows
    <2>7. UnderWay(o, {"write"})' <= UnderWay(o, {"write"}) + (IF <<"onBeforeUpdate", o>> \in F THEN 1 ELSE 0)
        <3>1. UnderWay(o, {"write"})' <= UnderWay(o, {"write"})
            BY <1>1, <2>1, <2>2, <2>3, TurnGrows
        <3>2. UnderWay(o, {"write"}) \in {0, 1} /\ UnderWay(o, {"write"})' = 0
            BY <1>1, <2>1, TurnIs DEF UnderWay
        <3> QED BY <3>2
    <2>8. StepsOK'
        BY <1>1, <2>1 DEF StepsOK
    <2>9. step' = "filter" /\ \A p \in F : p[2] = o
        BY <1>1, <2>1
    <2> HIDE DEF F
    <2> QED BY <2>1, <2>2, <2>3, <2>4, <2>6, <2>7, <2>8, <2>9, OwnTurn
<1> QED BY <1>3, <1>4

\* A turn in an update pass is over.
LEMMA RoundOver ==
  ASSUME Starts, UNCHANGED <<config, set, plan, stage>>, stage \in Passes, ~PassOver(stage),
         k' = k + 1, NEW o, o = Task
  PROVE  /\ Rounds(o)' = Rounds(o) + 1 /\ Rounds(o) \in Nat
         /\ Turn(o, 13)' = Turn(o, 13) /\ Turn(o, 19)' = Turn(o, 19)
<1>1. k \in DOMAIN Listed /\ (stage # "forwards" => ~IsFile("target"))
    BY AtTask DEF PassOver
<1>2. \A n \in Nat : Turn(o, n)' = Turn(o, n) + (IF n = Number(stage) THEN 1 ELSE 0)
    BY <1>1, TurnOver DEF Current
<1>3. \A n : Turn(o, n) \in {0, 1}
    BY TurnIs
<1>4. Number(stage) \in 15..17 /\ (IsFile("target") => Number(stage) = 15)
    BY <1>1, AtWork, StageNumbers, Numbers
<1>5. /\ Turn(o, 15)' = Turn(o, 15) + (IF 15 = Number(stage) THEN 1 ELSE 0)
      /\ Turn(o, 16)' = Turn(o, 16) + (IF 16 = Number(stage) THEN 1 ELSE 0)
      /\ Turn(o, 17)' = Turn(o, 17) + (IF 17 = Number(stage) THEN 1 ELSE 0)
      /\ Turn(o, 15) \in Nat /\ Turn(o, 16) \in Nat /\ Turn(o, 17) \in Nat
    BY <1>2, <1>3
<1>6. Turn(o, 13)' = Turn(o, 13) /\ Turn(o, 19)' = Turn(o, 19)
    BY <1>2, <1>3, <1>4
<1>7. Rounds(o)' = Rounds(o) + 1 /\ Rounds(o) \in Nat
    <2>1. Number(stage) = 15 => GoesForward(o)
        BY AtTask, ListedIs DEF PassOver
    <2>2. (GoesForward(o)' <=> GoesForward(o)) /\ (IsFile("target")' <=> IsFile("target"))
        BY SameForward DEF IsFile
    <2> QED BY <1>4, <1>5, <2>1, <2>2 DEF Rounds
<1> QED BY <1>6, <1>7

\* Where an update pass stands
LEMMA AtPass ==
  ASSUME Starts, NEW pass \in Passes, At(pass), ~PassOver(pass)
  PROVE  /\ stage = pass /\ stage \in Passes /\ ~PassOver(stage) /\ queue = <<>>
         /\ k \in DOMAIN Listed /\ Task \in Objects /\ Task \in ToSet(tasks) /\ Current(Task)
         /\ Number(stage) \in 15..17
         /\ step \in {"filter", "before", "write"}
<1>1. stage = pass /\ queue = <<>> /\ ~NoTask
    BY DEF At, PassOver
<1>2. k \in DOMAIN Listed /\ Task \in Objects /\ Task \in ToSet(tasks) /\ Current(Task)
    BY <1>1, AtTask
<1>3. Number(stage) \in 15..17
    BY <1>1, AtWork, StageNumbers
<1> QED BY <1>1, <1>2, <1>3 DEF Starts, Going, StepsOK

\* DeleteSourceRecords: the turn of a task that writes nothing
LEMMA DeletesSourceWork ==
  ASSUME Starts, stage' # "end", NEW pass \in Passes, DeleteSourceRecords(pass)
  PROVE  \E F : JobWorks(F)
<1>1. /\ stage \in Passes /\ ~PassOver(stage) /\ queue = <<>>
      /\ k \in DOMAIN Listed /\ Task \in Objects /\ Number(stage) \in 15..17
    BY AtPass DEF DeleteSourceRecords
<1>2. step = "filter"
    BY DEF DeleteSourceRecords, Starts, Going, StepsOK
<1>3. /\ k' = k + 1 /\ UNCHANGED <<config, set, plan, loaded, stage, step>> /\ queue' = <<>>
      /\ Dml("deleteSource", "source") \/ log' = log
    BY <1>1 DEF DeleteSourceRecords, NoDml, Throw
<1> DEFINE F == {}
<1>4. Logs(F) /\ Queues(F)
    <2>1. CASE log' = log
        BY <1>3, <2>1 DEF Logs, Queues
    <2>2. CASE Dml("deleteSource", "source")
        <3>1. log' = Append(log, <<"deleteSource", 0, Task>>) /\ "deleteSource" \in DmlNames
            BY <2>2 DEF Dml, DmlNames
        <3>2. MayChange("deleteSource", Number(stage)) /\ Number(stage) <= 18
            BY <1>1 DEF MayChange
        <3> QED BY <1>1, <1>3, <3>1, <3>2 DEF Logs, Queues
    <2> QED BY <1>3, <2>1, <2>2
<1>5. PICK o : o = Task
    OBVIOUS
<1>6. Turn(o, 13)' = Turn(o, 13) /\ Turn(o, 19)' = Turn(o, 19)
    BY <1>1, <1>3, <1>5, RoundOver
<1>7. ~Writes(o) /\ ~Writes(o)'
    BY <1>3, <1>5 DEF DeleteSourceRecords, Writes
<1>8. \A e : ObjectMost(e, o)' = ObjectMost(e, o) /\ ObjectMost(e, o) \in Nat
    BY <1>6, <1>7, ObjectMostIsNat DEF ObjectMost
<1>9. \A e \in Events : ObjectGrows(e, o, IF <<e, o>> \in F THEN 1 ELSE 0)
    BY <1>8 DEF ObjectGrows
<1>10. UnderWay(o, {"write"})' <= UnderWay(o, {"write"}) + (IF <<"onBeforeUpdate", o>> \in F THEN 1 ELSE 0)
    BY <1>2, <1>3 DEF UnderWay
<1>11. StepsOK' /\ step' = "filter" /\ \A p \in F : p[2] = o
    BY <1>2, <1>3 DEF StepsOK
<1> HIDE DEF F
<1> QED BY <1>1, <1>3, <1>4, <1>5, <1>9, <1>10, <1>11, OwnTurn

\* What a turn in an update pass adds for the object that is written
LEMMA WriterGrows ==
  ASSUME UNCHANGED config, NEW o, Writes(o), Turn(o, 13)' = Turn(o, 13), Turn(o, 19)' = Turn(o, 19), NEW F,
         LET u == UnderWay(o, {"before", "write"})
             u1 == UnderWay(o, {"before", "write"})'
             w == UnderWay(o, {"write"})
             w1 == UnderWay(o, {"write"})'
             r == Rounds(o)
             r1 == Rounds(o)'
         IN  /\ r1 + u1 >= r + u + (IF <<"filterRecords", o>> \in F THEN 1 ELSE 0)
             /\ \/ r1 + w1 = r + w + (IF <<"onBeforeUpdate", o>> \in F THEN 1 ELSE 0)
                \/ /\ IsFile("target")
                   /\ r1 + w1 >= r + w + (IF <<"onBeforeUpdate", o>> \in F THEN 1 ELSE 0)
             /\ IF IsFile("target") THEN <<"onAfterUpdate", o>> \notin F
                ELSE r1 = r + (IF <<"onAfterUpdate", o>> \in F THEN 1 ELSE 0),
         \A p \in F : p[1] \in {"filterRecords", "onBeforeUpdate", "onAfterUpdate"}
  PROVE  \A e \in Events : ObjectGrows(e, o, IF <<e, o>> \in F THEN 1 ELSE 0)
<1>1. (Writes(o)' <=> Writes(o)) /\ (IsFile("target")' <=> IsFile("target"))
    BY DEF Writes, IsFile
<1>2. \A e : ObjectMost(e, o) \in Nat
    BY ObjectMostIsNat
<1> SUFFICES ASSUME NEW e \in Events PROVE ObjectGrows(e, o, IF <<e, o>> \in F THEN 1 ELSE 0)
    OBVIOUS
<1>3. CASE e = "filterRecords"
    <2>1. /\ ObjectMost(e, o) = Rounds(o) + UnderWay(o, {"before", "write"})
          /\ ObjectMost(e, o)' = Rounds(o)' + UnderWay(o, {"before", "write"})'
        BY <1>1, <1>3 DEF ObjectMost, WriterMost
    <2>2. Ranges(e)
        BY <1>3 DEF Ranges
    <2> QED BY <1>3, <2>1, <2>2 DEF ObjectGrows
<1>4. CASE e = "onBeforeUpdate"
    <2>1. /\ ObjectMost(e, o) = Rounds(o) + UnderWay(o, {"write"})
          /\ ObjectMost(e, o)' = Rounds(o)' + UnderWay(o, {"write"})'
        BY <1>1, <1>4 DEF ObjectMost, WriterMost
    <2>2. IsFile("target") => Ranges(e)
        BY <1>4 DEF Ranges
    <2> QED BY <1>4, <2>1, <2>2 DEF ObjectGrows
<1>5. CASE e = "onAfterUpdate"
    <2>1. /\ ObjectMost(e, o) = IF IsFile("target") THEN 0 ELSE Rounds(o)
          /\ ObjectMost(e, o)' = IF IsFile("target") THEN 0 ELSE Rounds(o)'
        BY <1>1, <1>5 DEF ObjectMost, WriterMost
    <2> QED BY <1>5, <2>1 DEF ObjectGrows
<1>6. CASE e \in {"onBefore", "onAfter", "onDataRetrieved"}
    <2>1. ObjectMost(e, o)' = ObjectMost(e, o)
        BY <1>1, <1>6 DEF ObjectMost, WriterMost
    <2>2. <<e, o>> \notin F
        BY <1>6
    <2> QED BY <1>2, <2>1, <2>2 DEF ObjectGrows
<1> QED BY <1>3, <1>4, <1>5, <1>6 DEF Events

\* Within a turn
LEMMA WithinTurn ==
  ASSUME Starts, UNCHANGED <<config, set, plan, stage, k>>, k \in DOMAIN Listed, NEW o, o = Task
  PROVE  /\ Rounds(o)' = Rounds(o) /\ Rounds(o) \in Nat
         /\ Turn(o, 13)' = Turn(o, 13) /\ Turn(o, 19)' = Turn(o, 19)
<1>1. \A n : Turn(o, n)' = Turn(o, n)
    BY SameList DEF Turn, Passed
<1>2. \A n : Turn(o, n) \in {0, 1}
    BY TurnIs
<1> QED BY <1>1, <1>2, SameForward DEF Rounds, IsFile

\* UpdateRecords without a change: what to filter, and what to do before the update
LEMMA UpdateBegins ==
  ASSUME Starts, NEW pass \in Passes, UpdateRecords(pass), step # "write", k' = k
  PROVE  \E F : JobWorks(F)
<1>1. /\ stage = pass /\ stage \in Passes /\ ~PassOver(stage) /\ queue = <<>>
      /\ k \in DOMAIN Listed /\ Task \in Objects /\ Number(stage) \in 15..17
    BY AtPass DEF UpdateRecords
<1>2. UNCHANGED <<config, set, plan, loaded, stage, log>> /\ Writes(Task)
    BY DEF UpdateRecords, NoDml
<1>3. PICK o : o = Task
    OBVIOUS
<1>4. /\ Rounds(o)' = Rounds(o) /\ Rounds(o) \in Nat
      /\ Turn(o, 13)' = Turn(o, 13) /\ Turn(o, 19)' = Turn(o, 19)
    BY <1>1, <1>2, <1>3, WithinTurn
<1>5. o \in Names /\ Writes(o) /\ {"filterRecords", "onBeforeUpdate"} \subseteq Events
    BY <1>1, <1>2, <1>3 DEF Names, Events
<1>6. Current(o) /\ Current(o)'
    BY <1>1, <1>2, <1>3, SameList DEF Current
<1>7. \A steps : /\ UnderWay(o, steps) = IF step \in steps THEN 1 ELSE 0
                 /\ UnderWay(o, steps)' = IF step' \in steps THEN 1 ELSE 0
    BY <1>6 DEF UnderWay
<1>8. step' \in {"before", "write"} => StepsOK'
    BY <1>1, <1>2, <1>5, SameList DEF StepsOK, PassOver, IsFile, Writes
<1>9. \E F : /\ Queues(F) /\ Logs(F) /\ step' \in {"before", "write"}
             /\ UnderWay(o, {"write"})' <= UnderWay(o, {"write"}) + (IF <<"onBeforeUpdate", o>> \in F THEN 1 ELSE 0)
             /\ \A p \in F : p[2] = o
             /\ \A e \in Events : ObjectGrows(e, o, IF <<e, o>> \in F THEN 1 ELSE 0)
    <2>1. CASE step = "filter" /\ queue' = Handlers("filterRecords", o) /\ step' = "before"
        <3> DEFINE F == {<<"filterRecords", o>>}
        <3>1. Queues(F) /\ Logs(F) /\ \A p \in F : p[2] = o
            BY <1>2, <1>5, <2>1 DEF Queues, Logs, MayFire
        <3>2. /\ UnderWay(o, {"before", "write"}) = 0 /\ UnderWay(o, {"before", "write"})' = 1
              /\ UnderWay(o, {"write"}) = 0 /\ UnderWay(o, {"write"})' = 0
            BY <1>7, <2>1
        <3>3. \A e \in Events : ObjectGrows(e, o, IF <<e, o>> \in F THEN 1 ELSE 0)
            <4>1. /\ <<"filterRecords", o>> \in F /\ <<"onBeforeUpdate", o>> \notin F /\ <<"onAfterUpdate", o>> \notin F
                  /\ \A p \in F : p[1] \in {"filterRecords", "onBeforeUpdate", "onAfterUpdate"}
                OBVIOUS
            <4> HIDE DEF F
            <4> QED BY <1>2, <1>4, <1>5, <3>2, <4>1, WriterGrows
        <3> QED BY <2>1, <3>1, <3>2, <3>3
    <2>2. CASE step = "filter" /\ queue' = <<>> /\ step' = "before"
        <3> DEFINE F == {}
        <3>1. Queues(F) /\ Logs(F) /\ \A p \in F : p[2] = o
            BY <1>2, <2>2 DEF Queues, Logs
        <3>2. /\ UnderWay(o, {"before", "write"}) = 0 /\ UnderWay(o, {"before", "write"})' = 1
              /\ UnderWay(o, {"write"}) = 0 /\ UnderWay(o, {"write"})' = 0
            BY <1>7, <2>2
        <3>3. \A e \in Events : ObjectGrows(e, o, IF <<e, o>> \in F THEN 1 ELSE 0)
            <4>1. /\ <<"filterRecords", o>> \notin F /\ <<"onBeforeUpdate", o>> \notin F /\ <<"onAfterUpdate", o>> \notin F
                  /\ \A p \in F : p[1] \in {"filterRecords", "onBeforeUpdate", "onAfterUpdate"}
                OBVIOUS
            <4> HIDE DEF F
            <4> QED BY <1>2, <1>4, <1>5, <3>2, <4>1, WriterGrows
        <3>4. UnderWay(o, {"write"})' <= UnderWay(o, {"write"}) + (IF <<"onBeforeUpdate", o>> \in F THEN 1 ELSE 0)
            BY <3>2
        <3> HIDE DEF F
        <3> QED BY <2>2, <3>1, <3>3, <3>4
    <2>3. CASE step = "before" /\ queue' = Handlers("onBeforeUpdate", o) /\ step' = "write"
        <3> DEFINE F == {<<"onBeforeUpdate", o>>}
        <3>1. Queues(F) /\ Logs(F) /\ \A p \in F : p[2] = o
            BY <1>2, <1>5, <2>3 DEF Queues, Logs, MayFire
        <3>2. /\ UnderWay(o, {"before", "write"}) = 1 /\ UnderWay(o, {"before", "write"})' = 1
              /\ UnderWay(o, {"write"}) = 0 /\ UnderWay(o, {"write"})' = 1
            BY <1>7, <2>3
        <3>3. \A e \in Events : ObjectGrows(e, o, IF <<e, o>> \in F THEN 1 ELSE 0)
            <4>1. /\ <<"filterRecords", o>> \notin F /\ <<"onBeforeUpdate", o>> \in F /\ <<"onAfterUpdate", o>> \notin F
                  /\ \A p \in F : p[1] \in {"filterRecords", "onBeforeUpdate", "onAfterUpdate"}
                OBVIOUS
            <4> HIDE DEF F
            <4> QED BY <1>2, <1>4, <1>5, <3>2, <4>1, WriterGrows
        <3> QED BY <2>3, <3>1, <3>2, <3>3
    <2>4. k + 1 # k
        BY AtWork
    <2> QED BY <1>1, <1>3, <2>1, <2>2, <2>3, <2>4 DEF UpdateRecords
<1> QED BY <1>1, <1>2, <1>3, <1>8, <1>9, OwnTurn

\* UpdateRecords to the end of the turn: the calls, or a file with nothing to write
LEMMA UpdateEnds ==
  ASSUME Starts, NEW pass \in Passes, UpdateRecords(pass), k' = k + 1,
         step = "write" \/ (step = "filter" /\ IsFile("target") /\ NoDml /\ queue' = <<>>), step' = "filter"
  PROVE  \E F : JobWorks(F)
<1>1. /\ stage = pass /\ stage \in Passes /\ ~PassOver(stage) /\ queue = <<>>
      /\ k \in DOMAIN Listed /\ Task \in Objects /\ Number(stage) \in 15..17
    BY AtPass DEF UpdateRecords
<1>2. UNCHANGED <<config, set, plan, loaded, stage>> /\ Writes(Task)
    BY DEF UpdateRecords
<1>3. PICK o : o = Task
    OBVIOUS
<1>4. /\ Rounds(o)' = Rounds(o) + 1 /\ Rounds(o) \in Nat
      /\ Turn(o, 13)' = Turn(o, 13) /\ Turn(o, 19)' = Turn(o, 19)
    BY <1>1, <1>2, <1>3, RoundOver
<1>5. o \in Names /\ o \in Objects /\ Writes(o) /\ "onAfterUpdate" \in Events /\ "write" \in DmlNames
    BY <1>1, <1>2, <1>3 DEF Names, Events, DmlNames
<1>6. Current(o)
    BY <1>1, <1>3 DEF Current
<1>7. \A steps : UnderWay(o, steps) = IF step \in steps THEN 1 ELSE 0
    BY <1>6 DEF UnderWay
<1>8. /\ UnderWay(o, {"before", "write"})' = 0 /\ UnderWay(o, {"write"})' = 0
      /\ UnderWay(o, {"before", "write"}) \in {0, 1} /\ UnderWay(o, {"write"}) = UnderWay(o, {"before", "write"})
    <2>1. UnderWay(o, {"before", "write"})' = 0 /\ UnderWay(o, {"write"})' = 0
        BY DEF UnderWay
    <2>2. UnderWay(o, {"before", "write"}) \in {0, 1} /\ UnderWay(o, {"write"}) = UnderWay(o, {"before", "write"})
        BY <1>7
    <2> QED BY <2>1, <2>2
<1>9. UnderWay(o, {"write"}) = 0 => IsFile("target")
    BY <1>7
<1>10. StepsOK'
    BY DEF StepsOK
<1>11. log' = log \/ (step = "write" /\ log' = Append(log, <<"write", 0, o>>))
    BY <1>3 DEF UpdateRecords, NoDml, Dml
<1>12. MayChange("write", Number(stage)) /\ Number(stage) <= 18
    BY <1>1 DEF MayChange
<1>13. CASE IsFile("target")
    <2> DEFINE F == {}
    <2>1. queue' = <<>>
        BY <1>13 DEF UpdateRecords
    <2>2. Queues(F) /\ Logs(F) /\ \A p \in F : p[2] = o
        <3>1. Queues(F)
            BY <2>1 DEF Queues
        <3>2. Logs(F)
            BY <1>5, <1>6, <1>11, <1>12 DEF Logs
        <3> QED BY <3>1, <3>2
    <2>3. /\ <<"filterRecords", o>> \notin F /\ <<"onBeforeUpdate", o>> \notin F /\ <<"onAfterUpdate", o>> \notin F
          /\ \A p \in F : p[1] \in {"filterRecords", "onBeforeUpdate", "onAfterUpdate"}
        OBVIOUS
    <2> HIDE DEF F
    <2>4. \A e \in Events : ObjectGrows(e, o, IF <<e, o>> \in F THEN 1 ELSE 0)
        BY <1>2, <1>4, <1>5, <1>8, <1>13, <2>3, WriterGrows
    <2>5. UnderWay(o, {"write"})' <= UnderWay(o, {"write"}) + (IF <<"onBeforeUpdate", o>> \in F THEN 1 ELSE 0)
        BY <1>8, <2>3
    <2> QED BY <1>1, <1>2, <1>3, <1>10, <2>2, <2>4, <2>5, OwnTurn
<1>14. CASE ~IsFile("target")
    <2> DEFINE F == {<<"onAfterUpdate", o>>}
    <2>1. step = "write" /\ queue' = Handlers("onAfterUpdate", o)
        BY <1>3, <1>14 DEF UpdateRecords
    <2>2. Queues(F) /\ Logs(F) /\ \A p \in F : p[2] = o
        <3>1. Queues(F)
            BY <1>5, <2>1 DEF Queues, MayFire
        <3>2. Logs(F)
            BY <1>5, <1>6, <1>11, <1>12, <2>1 DEF Logs
        <3> QED BY <3>1, <3>2
    <2>3. /\ <<"filterRecords", o>> \notin F /\ <<"onBeforeUpdate", o>> \notin F /\ <<"onAfterUpdate", o>> \in F
          /\ \A p \in F : p[1] \in {"filterRecords", "onBeforeUpdate", "onAfterUpdate"}
        OBVIOUS
    <2> HIDE DEF F
    <2>4. UnderWay(o, {"write"}) = 1 /\ UnderWay(o, {"before", "write"}) = 1
        BY <1>7, <2>1
    <2>5. \A e \in Events : ObjectGrows(e, o, IF <<e, o>> \in F THEN 1 ELSE 0)
        BY <1>2, <1>4, <1>5, <1>8, <1>14, <2>3, <2>4, WriterGrows
    <2>6. UnderWay(o, {"write"})' <= UnderWay(o, {"write"}) + (IF <<"onBeforeUpdate", o>> \in F THEN 1 ELSE 0)
        BY <1>8, <2>3
    <2> QED BY <1>1, <1>2, <1>3, <1>10, <2>2, <2>5, <2>6, OwnTurn
<1> QED BY <1>13, <1>14

\* Every step of the execution is such a step.
LEMMA ExecutesWorks ==
  ASSUME StateOK, stage # "end" => Going, PlanOK, Executes \/ Prepare \/ ProcessCsv, stage' # "end"
  PROVE  Starts /\ \E F : JobWorks(F)
<1>1. status = "running" /\ queue = <<>> /\ stage \in DataStages \cup {"processCsv"}
    <2>1. CASE ProcessCsv
        BY <2>1 DEF ProcessCsv, At
    <2>2. CASE Executes \/ Prepare
        <3>1. queue = <<>>
            BY <2>2 DEF Executes, Prepare, GlobalEvent, DeleteRecords, RetrieveRecords, ObjectEvent, UpdateRecords,
               DeleteSourceRecords, UpdateFails, EndOfPass, At, Throw
        <3> QED BY <2>2, <3>1, Executing
    <2> QED BY <2>1, <2>2
<1>2. Starts
    <2>1. Number(stage) \in 8..20 /\ stage # "end"
        BY <1>1, Numbers DEF DataStages
    <2> QED BY <1>1, <2>1 DEF Starts
<1>3. ASSUME GoOn, UNCHANGED <<config, set, plan, loaded, queue, world, status, log>>,
             Number(stage) \in {8, 9, 12}
      PROVE  \E F : JobWorks(F)
    <2>1. stage \notin Passes
        BY <1>2, <1>3, AtWork, StageNumbers
    <2>2. step = "filter" /\ queue' = <<>>
        BY <1>1, <1>2, <1>3, <2>1, StepIsFilter
    <2> QED BY <1>2, <1>3, <2>2, MoveWorks
<1>4. CASE ProcessCsv
    BY <1>2, <1>3, <1>4, Numbers DEF ProcessCsv, CsvIssues, Throw, At
<1>5. CASE Prepare
    BY <1>2, <1>3, <1>5, Numbers DEF Prepare, Throw, At
<1>6. CASE RetrieveRecords
    BY <1>2, <1>3, <1>6, Numbers DEF RetrieveRecords, Throw, At
<1>7. ASSUME NEW name, NEW event, GlobalEvent(name, event),
             <<Number(name), event>> \in {<<10, "onBefore">>, <<14, "onDataRetrieved">>, <<20, "onAfter">>}
      PROVE  \E F : JobWorks(F)
    <2>1. stage = name /\ stage \notin Passes
        BY <1>2, <1>7, AtWork, StageNumbers DEF GlobalEvent, At
    <2>2. step = "filter"
        BY <1>2, <2>1, StepIsFilter
    <2>3. /\ GoOn /\ UNCHANGED <<config, set, plan, loaded, log>> /\ queue' = Handlers(event, Global)
          /\ <<Number(stage), event>> \in {<<10, "onBefore">>, <<14, "onDataRetrieved">>, <<20, "onAfter">>}
        BY <1>7, <2>1 DEF GlobalEvent
    <2>4. JobWorks({<<event, Global>>})
        BY <1>2, <2>2, <2>3, GlobalWorks
    <2> QED BY <2>4
<1>8. ASSUME NEW pass \in Passes, EndOfPass(pass) PROVE \E F : JobWorks(F)
    <2>1. stage = pass /\ PassOver(stage) /\ GoOn /\ UNCHANGED <<config, set, plan, loaded, queue, log>>
        BY <1>8 DEF EndOfPass, At
    <2>2. step = "filter" /\ queue' = <<>>
        BY <1>1, <1>2, <2>1, StepIsFilter
    <2>3. Number(stage) \in 15..17 /\ (Number(stage) = 15 => stage = "forwards")
        BY <1>8, <2>1, Numbers, PassNames
    <2>4. NoTask \/ (IsFile("target") /\ Number(stage) \in {16, 17})
        BY <2>1, <2>3 , Numbers, PassNames, <1>8 DEF PassOver
    <2> QED BY <1>2, <2>1, <2>2, <2>3, <2>4, MoveWorks
<1>9. ASSUME NEW pass \in Passes, UpdateRecords(pass) PROVE \E F : JobWorks(F)
    <2>1. step \in {"filter", "before", "write"}
        BY <1>2, <1>9, AtPass DEF UpdateRecords
    <2>2. CASE step # "write" /\ k' = k
        BY <1>2, <1>9, <2>2, UpdateBegins
    <2>3. CASE step = "write" /\ k' = k + 1 /\ step' = "filter"
        BY <1>2, <1>9, <2>3, UpdateEnds
    <2>4. CASE step = "filter" /\ IsFile("target") /\ NoDml /\ queue' = <<>> /\ k' = k + 1 /\ step' = "filter"
        BY <1>2, <1>9, <2>4, UpdateEnds
    <2> QED BY <1>9, <2>1, <2>2, <2>3, <2>4 DEF UpdateRecords
<1>10. Number("addons") = 10 /\ Number("dataRetrieved") = 14 /\ Number("after") = 20 /\ Number("deleteOld") = 11
       /\ Number("deleteHierarchy") = 18 /\ Number("objectBefore") = 13 /\ Number("objectAfter") = 19
    BY Numbers
<1>11. CASE GlobalEvent("addons", "onBefore") \/ GlobalEvent("dataRetrieved", "onDataRetrieved") \/ GlobalEvent("after", "onAfter")
    BY <1>2, <1>7, <1>10, <1>11
<1>12. CASE ObjectEvent("objectBefore", "onBefore") \/ ObjectEvent("objectAfter", "onAfter")
    BY <1>2, <1>10, <1>12, ObjectEventsWork
<1>13. CASE DeleteRecords("deleteOld", {"Delete", "Replace"}) \/ DeleteRecords("deleteHierarchy", {"DeleteHierarchy"})
    BY <1>2, <1>10, <1>13, DeletesWork
<1>14. ASSUME NEW pass \in Passes, UpdateRecords(pass) \/ DeleteSourceRecords(pass) \/ UpdateFails(pass) \/ EndOfPass(pass)
       PROVE  \E F : JobWorks(F)
    <2>1. ~UpdateFails(pass)
        BY DEF UpdateFails, Throw
    <2> QED BY <1>2, <1>8, <1>9, <1>14, <2>1, DeletesSourceWork
<1> QED BY <1>2, <1>4, <1>5, <1>6, <1>11, <1>12, <1>13, <1>14 DEF Executes

-----------------------------------------------------------------------------
(***************************************************************************)
(* The stages before the first event, the handlers, and the end of an object *)
(* set.                                                                    *)
(***************************************************************************)

\* With failOnWarning an object set gets beyond its add-ons only if all could be loaded.
Checked ==
  config.failOnWarning /\ (log # <<>> \/ Number(stage) \in 7..21) =>
    \A i \in Range(Manifests) : ~CannotLoad(config.addons[i])
HookInv ==
  /\ PlanOK /\ HooksAroundData /\ Checked
  /\ IF stage = "end" THEN queue = <<>> ELSE Going

\* Before the first event of the job: only the first handlers were queued.
OnlyInit(calls) == \A c \in ToSet(calls) : c[1] = "onInit"
Idle ==
  /\ log \in Seq(HandlerCalls) /\ queue \in Seq(HandlerCalls) /\ OnlyInit(log) /\ OnlyInit(queue)
  /\ step = "filter" /\ Number(stage) \in 0..10 /\ stage # "end" /\ stage # "setDone"
  /\ Fresh /\ AllLoaded

\* Then all counts are zero.
LEMMA IdleGoes == Idle => Going
<1> SUFFICES ASSUME Idle PROVE Going
    OBVIOUS
<1>1. CallsOK
    <2>1. HandlerCalls \subseteq HandlerCalls \cup DmlCalls
        OBVIOUS
    <2>2. log \in Seq(HandlerCalls \cup DmlCalls)
        BY <2>1, SeqMonotonic DEF Idle
    <2> QED BY <2>2 DEF Idle, CallsOK, OnlyInit
<1>2. StepsOK
    BY DEF Idle, StepsOK
<1>3. \A j \in DOMAIN log : log[j][1] = "onInit"
    BY DEF Idle, OnlyInit, ToSet
<1>4. ChangesInTime
    BY <1>3 DEF ChangesInTime, DmlNames
<1>5. QueueInTime
    BY <1>3 DEF QueueInTime, InOrder, DmlNames
<1>6. \A c : c[1] # "onInit" => Occurrences(log, c, Len(log)) = 0 /\ Total(c) = 0
    <2> SUFFICES ASSUME NEW c, c[1] # "onInit" PROVE Occurrences(log, c, Len(log)) = 0 /\ Total(c) = 0
        OBVIOUS
    <2>1. \A j \in 1..Len(log) : log[j] # c
        <3>1. log \in Seq(HandlerCalls)
            BY DEF Idle
        <3> QED BY <1>3, <3>1, LenProperties
    <2>2. Occurrences(log, c, Len(log)) = 0
        BY <2>1, CountedIsThere DEF Idle
    <2>3. c \notin ToSet(queue)
        BY DEF Idle, OnlyInit
    <2> QED BY <2>2, <2>3 DEF Total
<1>7. \A e, o : Most(e, o) = 0
    <2>1. Number(stage) \in Nat /\ Number(stage) <= 10 /\ step = "filter"
        BY DEF Idle
    <2>2. After(10) = 0 /\ After(14) = 0 /\ After(20) = 0
        BY <2>1 DEF After
    <2>3. \A o : /\ Turn(o, 13) = 0 /\ Turn(o, 15) = 0 /\ Turn(o, 16) = 0 /\ Turn(o, 17) = 0 /\ Turn(o, 19) = 0
                 /\ UnderWay(o, {"before", "write"}) = 0 /\ UnderWay(o, {"write"}) = 0
        BY <2>1 DEF Turn, UnderWay
    <2>4. \A e, o : WriterMost(e, o) = 0
        BY <2>3 DEF WriterMost, Rounds
    <2>5. \A e, o : ObjectMost(e, o) = 0
        BY <2>3, <2>4 DEF ObjectMost
    <2>6. \A e : GlobalMost(e) = 0
        BY <2>2 DEF GlobalMost
    <2> QED BY <2>5, <2>6 DEF Most
<1>8. CallsCounted
    <2> SUFFICES ASSUME NEW e \in Events, NEW i \in Addons, NEW o \in Names PROVE CountIs(e, i, o)
        BY DEF CallsCounted
    <2>1. Total(<<e, i, o>>) = 0
        BY <1>6 DEF Events
    <2> QED BY <1>7, <2>1 DEF CountIs
<1>9. WritesPrepared
    <2> SUFFICES ASSUME NEW i \in Addons, NEW o \in ToSet(tasks) PROVE WriteIs(i, o)
        BY DEF WritesPrepared
    <2>1. Occurrences(log, <<"write", 0, o>>, Len(log)) = 0 /\ Total(<<"onBeforeUpdate", i, o>>) = 0
        BY <1>6
    <2>2. UnderWay(o, {"write"}) = 0
        BY DEF UnderWay, Idle
    <2> QED BY <2>1, <2>2 DEF WriteIs
<1> QED BY <1>1, <1>2, <1>4, <1>5, <1>8, <1>9 DEF Going, Idle

\* Conversely, before the first event nothing else is in the log.
LEMMA GoesIdle ==
  ASSUME Going, stage \in AllStages, Number(stage) <= 10
  PROVE  log \in Seq(HandlerCalls) /\ OnlyInit(log) /\ step = "filter"
<1>1. Number(stage) \in Nat /\ stage # "setDone" /\ stage \notin Passes
    BY StageNumbers
<1>2. step = "filter"
    BY <1>1 DEF Going, StepsOK
<1>3. log \in Seq(HandlerCalls \cup DmlCalls) /\ DOMAIN log = 1..Len(log) /\ Len(log) \in Nat
    BY LenProperties DEF Going, CallsOK
<1>4. ASSUME NEW j \in 1..Len(log) PROVE log[j] \in HandlerCalls /\ log[j][1] = "onInit"
    <2>1. log[j] \in HandlerCalls \cup DmlCalls
        BY <1>3, ElementOfSeq
    <2>2. log[j][1] \notin DmlNames
        <3>1. ~MayChange(log[j][1], Number(stage)) \/ log[j][1] \notin DmlNames
            BY <1>1 DEF MayChange, DmlNames
        <3> QED BY <1>3, <3>1 DEF Going, ChangesInTime
    <2>3. log[j] \in HandlerCalls
        BY <2>1, <2>2 DEF DmlCalls
    <2>4. PICK e \in Events \cup {"onInit"}, i \in Addons, o \in Names : log[j] = <<e, i, o>>
        BY <2>3 DEF HandlerCalls
    <2>5. ASSUME e \in Events PROVE FALSE
        <3>1. CountIs(e, i, o)
            BY <1>1, <2>5 DEF Going, CallsCounted
        <3>2. Most(e, o) = 0
            <4>1. After(10) = 0 /\ After(14) = 0 /\ After(20) = 0
                BY <1>1 DEF After
            <4>2. /\ Turn(o, 13) = 0 /\ Turn(o, 15) = 0 /\ Turn(o, 16) = 0 /\ Turn(o, 17) = 0 /\ Turn(o, 19) = 0
                  /\ UnderWay(o, {"before", "write"}) = 0 /\ UnderWay(o, {"write"}) = 0
                BY <1>1, <1>2 DEF Turn, UnderWay
            <4>3. WriterMost(e, o) = 0
                BY <4>2 DEF WriterMost, Rounds
            <4> QED BY <4>1, <4>2, <4>3 DEF Most, GlobalMost, ObjectMost
        <3>3. Occurrences(log, <<e, i, o>>, Len(log)) \in Nat /\ Occurrences(log, <<e, i, o>>, Len(log)) # 0
            BY <1>3, <2>4, CountedIsThere
        <3> QED BY <3>1, <3>2, <3>3 DEF CountIs, Total
    <2> QED BY <2>3, <2>4, <2>5
<1>5. log \in Seq(HandlerCalls)
    <2>1. log \in [1..Len(log) -> HandlerCalls]
        <3>1. log = [j \in 1..Len(log) |-> log[j]]
            BY <1>3
        <3> QED BY <1>4, <3>1
    <2> QED BY <1>3, <2>1
<1>6. OnlyInit(log)
    BY <1>3, <1>4 DEF OnlyInit, ToSet
<1> QED BY <1>2, <1>5, <1>6

\* Before there are tasks there is nothing wrong with them.
LEMMA NoPlan == ASSUME tasks' = <<>>, deleteTasks' = <<>> PROVE PlanOK'
BY EmptySeq DEF PlanOK, IsInjective, ToSet

\* With the flags and the tasks the plan stays good.
LEMMA SamePlan == ASSUME UNCHANGED <<config, plan>> PROVE PlanOK' <=> PlanOK
<1>1. \A o : CanDelete(o)' <=> CanDelete(o)
    BY DEF CanDelete, IsFile
<1> QED BY <1>1 DEF PlanOK

\* The add-ons of an object set do not change.
LEMMA ManifestsSame == ASSUME UNCHANGED <<config, set>> PROVE Manifests' = Manifests
<1>1. Addons' = Addons
    BY DEF Addons
<1>2. \A from, names : Entries(from, names)' = Entries(from, names)
    BY <1>1 DEF Entries
<1> QED BY <1>2 DEF Manifests

\* What does not depend on the log and the queue stays while no stage goes on.
LEMMA SameStage ==
  ASSUME UNCHANGED <<config, set, stage, k, step, plan, loaded>>
  PROVE  /\ HandlerCalls' = HandlerCalls /\ Addons' = Addons
         /\ (AllLoaded' <=> AllLoaded) /\ (StepsOK' <=> StepsOK)
         /\ \A e, o : Most(e, o)' = Most(e, o)
         /\ \A e : Ranges(e)' <=> Ranges(e)
         /\ \A i, o : Mine(i, o)' <=> Mine(i, o)
         /\ \A o, steps : UnderWay(o, steps)' = UnderWay(o, steps)
<1>1. /\ Addons' = Addons /\ HandlerCalls' = HandlerCalls /\ Loadable' = Loadable
      /\ \A i, o : Mine(i, o)' <=> Mine(i, o)
    BY SameAddons
<1>2. AllLoaded' <=> AllLoaded
    BY <1>1 DEF AllLoaded
<1>3. StepsOK' <=> StepsOK
    BY SameList DEF StepsOK, PassOver, IsFile, Writes
<1>4. (IsFile("target")' <=> IsFile("target")) /\ \A o : Writes(o)' <=> Writes(o)
    BY DEF IsFile, Writes
<1>5. \A e : Ranges(e)' <=> Ranges(e)
    BY <1>4 DEF Ranges
<1>6. (\A o, steps : UnderWay(o, steps)' = UnderWay(o, steps)) /\ (\A o, n : Turn(o, n)' = Turn(o, n)) /\ \A n : After(n)' = After(n)
    BY SameList DEF UnderWay, Current, Turn, Passed, After
<1>7. \A o : Rounds(o)' = Rounds(o)
    BY <1>4, <1>6, SameForward DEF Rounds
<1>8. \A e, o : ObjectMost(e, o)' = ObjectMost(e, o)
    BY <1>4, <1>6, <1>7 DEF ObjectMost, WriterMost
<1>9. \A e, o : Most(e, o)' = Most(e, o)
    BY <1>6, <1>8 DEF Most, GlobalMost
<1> QED BY <1>1, <1>2, <1>3, <1>5, <1>6, <1>9

\* Where all counts stay the same
LEMMA CountsStay ==
  ASSUME UNCHANGED <<config, set, stage, k, step, plan, loaded>>, Going,
         \A e \in Events, i \in Addons, o \in Names : Total(<<e, i, o>>)' = Total(<<e, i, o>>),
         \A o \in ToSet(tasks) : Occurrences(log', <<"write", 0, o>>, Len(log')) = Occurrences(log, <<"write", 0, o>>, Len(log)),
         ToSet(tasks) \subseteq Objects
  PROVE  CallsCounted' /\ WritesPrepared'
<1>1. \A e \in Events, i \in Addons, o \in Names : CountIs(e, i, o)' <=> CountIs(e, i, o)
    <2> TAKE e \in Events, i \in Addons, o \in Names
    <2>1. /\ Most(e, o)' = Most(e, o) /\ (Ranges(e)' <=> Ranges(e)) /\ (Mine(i, o)' <=> Mine(i, o))
          /\ Total(<<e, i, o>>)' = Total(<<e, i, o>>)
        BY SameStage
    <2> QED BY <2>1 DEF CountIs
<1>2. CallsCounted'
    <2>1. ASSUME ~(stage = "setDone" /\ tasks = <<>>) PROVE \A e \in Events, i \in Addons, o \in Names : CountIs(e, i, o)'
        BY <1>1, <2>1 DEF Going, CallsCounted
    <2>2. Addons' = Addons
        BY SameStage
    <2> QED BY <2>1, <2>2 DEF CallsCounted
<1>3. \A i \in Addons, o \in ToSet(tasks) : WriteIs(i, o)' <=> WriteIs(i, o)
    <2> TAKE i \in Addons, o \in ToSet(tasks)
    <2>1. UnderWay(o, {"write"})' = UnderWay(o, {"write"})
        BY SameStage
    <2>2. Total(<<"onBeforeUpdate", i, o>>)' = Total(<<"onBeforeUpdate", i, o>>)
        BY DEF Events, Names
    <2> QED BY <2>1, <2>2 DEF WriteIs
<1>4. WritesPrepared'
    BY <1>3, SameStage DEF Going, WritesPrepared
<1> QED BY <1>2, <1>4

\* The tasks are objects.
LEMMA TasksAre ==
  ASSUME StateOK, Going, stage # "end"
  PROVE  ToSet(tasks) \subseteq Objects
<1>1. CASE Number(stage) <= 7
    <2>1. tasks = <<>>
        BY <1>1 DEF Going, Fresh
    <2> QED BY <2>1, EmptySeq DEF ToSet
<1>2. CASE ~(Number(stage) <= 7)
    <2>1. stage # "start"
        BY <1>2, Numbers
    <2>2. set \in Sets /\ tasks \in Seq(Range(config.sets[set])) /\ config \in Configs
        BY <2>1 DEF StateOK
    <2>3. Range(config.sets[set]) \subseteq Objects
        BY <2>2, Script
    <2>4. \A n \in DOMAIN tasks : tasks[n] \in Range(config.sets[set])
        BY <2>2, LenProperties, ElementOfSeq
    <2> QED BY <2>3, <2>4 DEF ToSet
<1> QED BY <1>1, <1>2

\* The first of the handlers in the queue is taken out.
LEMMA Dequeued ==
  ASSUME CallsOK, queue # <<>>
  PROVE  /\ Head(queue) \in HandlerCalls /\ Head(queue) \in ToSet(queue)
         /\ Tail(queue) \in Seq(HandlerCalls) /\ ToSet(Tail(queue)) \subseteq ToSet(queue)
         /\ IsInjective(Tail(queue)) \/ OnlyInit(Tail(queue))
         /\ \A c : c[1] # "onInit" => (c \in ToSet(queue) <=> c = Head(queue) \/ c \in ToSet(Tail(queue)))
         /\ \A c : c[1] # "onInit" => ~(c = Head(queue) /\ c \in ToSet(Tail(queue)))
<1>1. queue \in Seq(HandlerCalls) /\ Len(queue) \in Nat \ {0} /\ DOMAIN queue = 1..Len(queue)
    BY LenProperties, EmptySeq DEF CallsOK
<1>2. /\ Head(queue) = queue[1] /\ Tail(queue) \in Seq(HandlerCalls) /\ Len(Tail(queue)) = Len(queue) - 1
      /\ \A i \in 1..Len(Tail(queue)) : Tail(queue)[i] = queue[i + 1]
    BY <1>1, HeadTailProperties
<1>3. Head(queue) \in HandlerCalls /\ Head(queue) \in ToSet(queue)
    BY <1>1, <1>2, ElementOfSeq DEF ToSet
<1>4. DOMAIN Tail(queue) = 1..(Len(queue) - 1)
    BY <1>1, <1>2, LenProperties
<1>5. ToSet(Tail(queue)) \subseteq ToSet(queue) /\ ToSet(queue) \subseteq ToSet(Tail(queue)) \cup {Head(queue)}
    <2>1. ASSUME NEW i \in 1..(Len(queue) - 1) PROVE Tail(queue)[i] \in ToSet(queue)
        BY <1>1, <1>2, <2>1 DEF ToSet
    <2>2. ASSUME NEW i \in 1..Len(queue) PROVE queue[i] \in ToSet(Tail(queue)) \cup {Head(queue)}
        <3>1. CASE i = 1
            BY <1>2, <3>1
        <3>2. CASE i # 1
            <4>1. i - 1 \in 1..(Len(queue) - 1) /\ (i - 1) + 1 = i
                BY <1>1, <3>2
            <4>2. Tail(queue)[i - 1] = queue[i]
                BY <1>2, <4>1
            <4> QED BY <1>4, <4>1, <4>2 DEF ToSet
        <3> QED BY <3>1, <3>2
    <2> QED BY <1>1, <1>4, <2>1, <2>2 DEF ToSet
<1>6. CASE IsInjective(queue)
    <2>1. IsListOf(queue, ToSet(queue))
        <3>1. queue \in Seq(ToSet(queue))
            <4>1. queue \in [1..Len(queue) -> ToSet(queue)]
                BY <1>1 DEF ToSet
            <4> QED BY <1>1, <4>1
        <3> QED BY <1>6, <3>1 DEF IsListOf
    <2>2. IsListOf(Tail(queue), ToSet(queue) \ {Head(queue)})
        BY <2>1, TailOfList
    <2>3. IsInjective(Tail(queue)) /\ ToSet(Tail(queue)) = ToSet(queue) \ {Head(queue)}
        BY <2>2 DEF IsListOf
    <2> QED BY <1>2, <1>3, <1>5, <2>3
<1>7. CASE \A q \in ToSet(queue) : q[1] = "onInit"
    <2>1. OnlyInit(Tail(queue)) /\ Head(queue)[1] = "onInit"
        BY <1>3, <1>5, <1>7 DEF OnlyInit
    <2> QED BY <1>2, <1>3, <1>5, <1>7, <2>1 DEF OnlyInit
<1> QED BY <1>6, <1>7 DEF CallsOK

\* RunHandler: the first handler of the queue goes to the log.
LEMMA HandlerRuns ==
  ASSUME StateOK, HookInv, stage # "end", queue # <<>>,
         log' = Append(log, Head(queue)), queue' = Tail(queue),
         UNCHANGED <<config, set, stage, k, step, plan, loaded>>
  PROVE  HookInv'
<1> DEFINE q == Head(queue)
           S == HandlerCalls \cup DmlCalls
<1>0. Going /\ CallsOK /\ log \in Seq(S) /\ PlanOK /\ HooksAroundData /\ Checked
    BY DEF HookInv, Going, CallsOK
<1>1. /\ q \in HandlerCalls /\ q \in ToSet(queue)
      /\ Tail(queue) \in Seq(HandlerCalls) /\ ToSet(Tail(queue)) \subseteq ToSet(queue)
      /\ IsInjective(Tail(queue)) \/ OnlyInit(Tail(queue))
      /\ \A c : c[1] # "onInit" => (c \in ToSet(queue) <=> c = q \/ c \in ToSet(Tail(queue)))
      /\ \A c : c[1] # "onInit" => ~(c = q /\ c \in ToSet(Tail(queue)))
    BY <1>0, Dequeued
<1>2. q \in S /\ q[1] \notin DmlNames /\ q[1] # "write"
    BY <1>1 DEF HandlerCalls, DmlNames, Events
<1>3. Number(stage) \in 7..21
    <2>1. Number(stage) \in 0..22 /\ Number(stage) # 22
        BY StageNumbers DEF StateOK
    <2>2. ~(Number(stage) <= 6)
        BY <1>0 DEF Going, Fresh
    <2> QED BY <2>1, <2>2
<1> HIDE DEF q, S
<1>4. log' = Append(log, q)
    BY DEF q
<1>5. /\ log' \in Seq(S) /\ Len(log') = Len(log) + 1 /\ Len(log) \in Nat
      /\ DOMAIN log' = 1..(Len(log) + 1) /\ DOMAIN log = 1..Len(log)
      /\ (\A n \in 1..Len(log) : log'[n] = log[n]) /\ log'[Len(log) + 1] = q
    <2>1. log' \in Seq(S) /\ Len(log') = Len(log) + 1 /\ (\A n \in 1..Len(log) : log'[n] = log[n]) /\ log'[Len(log) + 1] = q
        BY <1>0, <1>2, <1>4, CountAppended
    <2>2. DOMAIN log' = 1..Len(log') /\ DOMAIN log = 1..Len(log) /\ Len(log) \in Nat
        BY <1>0, <2>1, LenProperties
    <2> QED BY <2>1, <2>2
<1>6. \A c : Occurrences(log', c, Len(log')) = Occurrences(log, c, Len(log)) + (IF q = c THEN 1 ELSE 0)
             /\ Occurrences(log, c, Len(log)) \in Nat
    <2> TAKE c
    <2>1. Occurrences(Append(log, q), c, Len(log) + 1) = Occurrences(log, c, Len(log)) + (IF q = c THEN 1 ELSE 0)
        BY <1>0, <1>2, CountAppended
    <2>2. Occurrences(log, c, Len(log)) \in Nat
        BY <1>0, CountedIsThere
    <2> QED BY <1>4, <1>5, <2>1, <2>2
<1>7. /\ HandlerCalls' = HandlerCalls /\ (AllLoaded' <=> AllLoaded) /\ (StepsOK' <=> StepsOK)
    BY SameStage
<1>8. CallsOK'
    BY <1>1, <1>5, <1>7 DEF CallsOK, S, DmlCalls, OnlyInit
<1>9. Fresh' /\ AllLoaded' /\ StepsOK'
    BY <1>0, <1>3, <1>7 DEF Going, Fresh
<1>10. ChangesInTime'
    <2> SUFFICES ASSUME NEW j \in DOMAIN log', log'[j][1] \in DmlNames PROVE MayChange(log'[j][1], Number(stage'))
        BY DEF ChangesInTime
    <2>1. j \in DOMAIN log /\ log'[j] = log[j]
        BY <1>2, <1>5
    <2> QED BY <1>0, <2>1 DEF Going, ChangesInTime
<1>11. QueueInTime'
    <2> SUFFICES ASSUME NEW c \in ToSet(queue'), NEW j \in DOMAIN log' PROVE InOrder(log'[j], c)
        BY DEF QueueInTime
    <2>1. c \in ToSet(queue)
        BY <1>1
    <2>2. c[1] \notin DmlNames
        <3>1. c \in HandlerCalls
            <4>1. queue' \in Seq(HandlerCalls)
                BY <1>1
            <4> QED BY <4>1, LenProperties, ElementOfSeq DEF ToSet
        <3> QED BY <3>1 DEF HandlerCalls, DmlNames, Events
    <2>3. CASE j \in DOMAIN log
        BY <1>0, <1>5, <2>1, <2>3 DEF Going, QueueInTime
    <2>4. CASE j = Len(log) + 1
        BY <1>2, <1>5, <2>2, <2>4 DEF InOrder
    <2> QED BY <1>5, <2>3, <2>4
<1>12. CallsCounted' /\ WritesPrepared'
    <2>1. ASSUME NEW e \in Events, NEW i \in Addons, NEW o \in Names PROVE Total(<<e, i, o>>)' = Total(<<e, i, o>>)
        <3>1. PICK c : c = <<e, i, o>>
            OBVIOUS
        <3>2. c[1] # "onInit"
            BY <3>1 DEF Events
        <3>3. Total(c)' = Occurrences(log', c, Len(log')) + (IF c \in ToSet(Tail(queue)) THEN 1 ELSE 0)
            BY DEF Total
        <3>4. Total(c)' = Total(c)
            BY <1>1, <1>6, <3>2, <3>3 DEF Total
        <3> QED BY <3>1, <3>4
    <2>2. ASSUME NEW o PROVE Occurrences(log', <<"write", 0, o>>, Len(log')) = Occurrences(log, <<"write", 0, o>>, Len(log))
        <3>1. q # <<"write", 0, o>>
            BY <1>2
        <3> QED BY <1>6, <3>1
    <2>3. ToSet(tasks) \subseteq Objects
        BY <1>0, TasksAre
    <2> QED BY <1>0, <2>1, <2>2, <2>3, CountsStay
<1>13. HooksAroundData'
    <2>1. \A j \in DOMAIN log : InOrder(log[j], q)
        BY <1>0, <1>1 DEF Going, QueueInTime
    <2> QED BY <1>0, <1>2, <1>4, <2>1, Logged
<1>14. Checked'
    <2>1. config.failOnWarning => \A i \in Range(Manifests) : ~CannotLoad(config.addons[i])
        BY <1>0, <1>3 DEF Checked
    <2>2. Manifests' = Manifests
        BY ManifestsSame
    <2> QED BY <2>1, <2>2 DEF Checked
<1>15. PlanOK'
    BY <1>0, SamePlan
<1> QED BY <1>0, <1>8, <1>9, <1>10, <1>11, <1>12, <1>13, <1>14, <1>15 DEF HookInv, Going

\* InitializeAddons: what can be loaded is, and its first handlers are queued.
LEMMA AddonsInitialized ==
  ASSUME StateOK, HookInv, InitializeAddons, stage' # "end"
  PROVE  HookInv'
<1>1. stage = "loadAddons" /\ status = "running"
    BY DEF InitializeAddons, At
<1>2. /\ config.failOnWarning => \A i \in Range(Manifests) : ~CannotLoad(config.addons[i])
      /\ loaded' = Picked(Manifests, {i \in Addons : IsLoaded(config.addons[i])})
      /\ queue' = InitHandlers(loaded') /\ GoOn /\ UNCHANGED <<config, set, plan, log>>
    BY DEF InitializeAddons, Throw
<1>3. /\ Going /\ PlanOK /\ HooksAroundData /\ log = <<>> /\ tasks = <<>> /\ deleteTasks = <<>>
    BY <1>1, Numbers DEF HookInv, Going, Fresh
<1>4. config \in Configs /\ set \in Sets
    BY <1>1 DEF StateOK
<1>5. Addons' = Addons /\ HandlerCalls' = HandlerCalls /\ Loadable' = Loadable
    BY <1>2, SameAddons
<1>6. IsListOf(loaded', Loadable)
    <2> DEFINE T == {i \in Addons : IsLoaded(config.addons[i])}
    <2>1. IsListOf(Picked(Manifests, T), Declared \cap T)
        <3> HIDE DEF T
        <3> QED BY <1>4, ManifestsList, PickedList
    <2>2. Declared \cap T = Loadable
        BY DEF Declared, Loadable
    <2> QED BY <1>2, <2>1, <2>2
<1>7. loaded' \in Seq(Addons)
    <2>1. Loadable \subseteq Addons /\ loaded' \in Seq(Loadable)
        BY <1>6 DEF Loadable, Declared, IsListOf
    <2> QED BY <2>1, SeqMonotonic
<1>8. queue' \in Seq(HandlerCalls) /\ OnlyInit(queue')
    <2>1. \A entries \in Seq(Addons) : /\ InitHandlers(entries) \in Seq(HandlerCalls)
                                       /\ \A q \in ToSet(InitHandlers(entries)) : q[1] = "onInit"
        BY <1>4, InitHandlersOf
    <2> QED BY <1>2, <1>7, <2>1 DEF OnlyInit
<1>9. Number(stage') = 7 /\ stage' = "describe" /\ step' = "filter"
    BY <1>1, <1>2, StageOrder, Numbers DEF GoOn
<1>10. Idle'
    <2>1. log' \in Seq(HandlerCalls) /\ OnlyInit(log')
        BY <1>2, <1>3, EmptySeq DEF OnlyInit, ToSet
    <2>2. Fresh'
        BY <1>2, <1>3, <1>9 DEF Fresh
    <2>3. AllLoaded'
        BY <1>5, <1>6 DEF AllLoaded
    <2> QED BY <1>5, <1>8, <1>9, <2>1, <2>2, <2>3 DEF Idle, OnlyInit
<1>11. Going'
    BY <1>10, IdleGoes, PTL
<1>12. HooksAroundData'
    BY <1>2, <1>3, HooksSame
<1>13. Checked'
    <2>1. Manifests' = Manifests
        BY <1>2, ManifestsSame
    <2> QED BY <1>2, <2>1 DEF Checked, CannotLoad, CommandMatches
<1>14. PlanOK'
    BY <1>2, <1>3, SamePlan
<1> QED BY <1>2, <1>9, <1>11, <1>12, <1>13, <1>14 DEF HookInv

\* The list of a set's elements has each of them once.
LEMMA ListsOf ==
  ASSUME NEW S, IsFiniteSet(S), NEW s \in SetToSeqs(S)
  PROVE  IsInjective(s) /\ ToSet(s) = S
<1>1. IsInjective(s)
    BY SMTT(30) DEF SetToSeqs, IsInjective
<1>2. ToSet(s) = S
    <2> DEFINE n == Cardinality(S)
    <2>1. n \in Nat /\ s \in [1..n -> S] /\ \A i, j \in 1..n : s[i] = s[j] => i = j
        BY FS_CardinalityType DEF SetToSeqs
    <2> HIDE DEF n
    <2>2. s \in Injection(1..n, S)
        BY <2>1 DEF Injection, IsInjective
    <2>3. IsFiniteSet(1..n) /\ Cardinality(1..n) = n
        BY <2>1, FS_Interval
    <2>4. s \in Surjection(1..n, S)
        BY <2>2, <2>3, FS_Injection DEF n
    <2> QED BY <2>1, <2>4 DEF Surjection, ToSet
<1> QED BY <1>1, <1>2

\* A step before the job, or between two object sets: nothing was logged or queued.
LEMMA OpeningStays ==
  ASSUME StateOK, Going, stage # "end", Number(stage) <= 5, stage' \in AllStages, Number(stage') \in 1..6,
         UNCHANGED <<config, set, plan, queue, log>>, step' = "filter", HooksAroundData
  PROVE  HookInv'
<1>1. log = <<>> /\ queue = <<>> /\ tasks = <<>> /\ deleteTasks = <<>>
    <2>1. Number(stage) \in 0..22
        BY StageNumbers DEF StateOK
    <2> QED BY <2>1 DEF Going, Fresh
<1>2. Idle'
    <2>1. stage' # "end" /\ stage' # "setDone"
        BY StageNumbers
    <2> QED BY <1>1, <2>1, EmptySeq, SMTT(30) DEF Idle, Fresh, AllLoaded, OnlyInit, ToSet
<1>3. Going'
    BY <1>2, IdleGoes, PTL
<1>4. HooksAroundData' /\ Checked'
    BY <1>1, HooksSame DEF Checked
<1>5. PlanOK'
    BY <1>1, NoPlan
<1> QED BY <1>2, <1>3, <1>4, <1>5 DEF HookInv, Idle

\* A step that ends the command
LEMMA EndKeeps ==
  ASSUME StateOK, HookInv, UNCHANGED <<config, set, plan, log>>, stage' = "end", queue' = <<>>
  PROVE  HookInv'
<1>1. HooksAroundData'
    BY HooksSame DEF HookInv
<1>2. Checked'
    <2>1. Manifests' = Manifests
        BY ManifestsSame
    <2>2. Number(stage') = 22
        BY Numbers
    <2> QED BY <2>1, <2>2 DEF HookInv, Checked, CannotLoad, CommandMatches
<1> QED BY <1>1, <1>2, SamePlan DEF HookInv

\* A step that changes nothing
LEMMA StutterKeeps ==
  ASSUME StateOK, HookInv, UNCHANGED <<config, set, stage, k, step, plan, loaded, queue, log>>
  PROVE  HookInv'
<1>1. HooksAroundData' /\ PlanOK'
    BY HooksSame, SamePlan DEF HookInv
<1>2. Checked'
    <2>1. Manifests' = Manifests
        BY ManifestsSame
    <2> QED BY <2>1 DEF HookInv, Checked
<1>3. CASE stage = "end"
    BY <1>1, <1>2, <1>3 DEF HookInv
<1>4. CASE stage # "end"
    <2>1. Going
        BY <1>4 DEF HookInv
    <2>2. \A c : Total(c)' = Total(c)
        BY DEF Total
    <2>3. CallsCounted' /\ WritesPrepared'
        BY <1>4, <2>1, <2>2, CountsStay, TasksAre
    <2>4. CallsOK'
        BY <2>1, SameStage DEF Going, CallsOK, DmlCalls
    <2>5. Fresh' /\ AllLoaded' /\ StepsOK'
        BY <2>1, SameStage DEF Going, Fresh
    <2>6. ChangesInTime' /\ QueueInTime'
        BY <2>1 DEF Going, ChangesInTime, QueueInTime
    <2>7. Going'
        BY <2>3, <2>4, <2>5, <2>6 DEF Going
    <2> QED BY <1>1, <1>2, <1>4, <2>7 DEF HookInv
<1> QED BY <1>3, <1>4

\* SetupJob: tasks in any order, or none at all
LEMMA TasksSetUp ==
  ASSUME StateOK, HookInv, SetupJob, stage' # "end"
  PROVE  HookInv'
<1>1. stage = "describe" /\ queue = <<>> /\ status = "running" /\ Number(stage) = 7 /\ stage \in AllStages
    BY Numbers DEF SetupJob, At, StateOK
<1>2. Going /\ HooksAroundData /\ Checked
    BY <1>1 DEF HookInv
<1>3. config \in Configs /\ set \in Sets
    BY <1>1 DEF StateOK
<1>4. PICK S \in SUBSET Range(config.sets[set]) :
        LET kept == {o \in S : ~ExcludedForFile(o)}
        IN  /\ tasks' \in SetToSeqs(kept) /\ deleteTasks' \in SetToSeqs({o \in kept : CanDelete(o)})
            /\ IF kept # {} THEN GoOn ELSE stage' = "setDone" /\ UNCHANGED <<k, step>>
            /\ UNCHANGED <<config, set, loaded, queue, world, status, log>>
    BY DEF SetupJob, Throw
<1> DEFINE kept == {o \in S : ~ExcludedForFile(o)}
           deleted == {o \in kept : CanDelete(o)}
<1>5. /\ tasks' \in SetToSeqs(kept) /\ deleteTasks' \in SetToSeqs(deleted)
      /\ UNCHANGED <<config, set, loaded, queue, log>>
    BY <1>4
<1>6. /\ kept # {} => GoOn
      /\ kept = {} => stage' = "setDone" /\ UNCHANGED <<k, step>>
    BY <1>4
<1>7. kept \subseteq Range(config.sets[set])
    OBVIOUS
<1>17. deleted \subseteq kept /\ \A o : o \in deleted <=> o \in kept /\ CanDelete(o)'
    BY <1>5 DEF CanDelete, IsFile
<1> HIDE DEF kept, deleted
<1>8. IsFiniteSet(kept) /\ IsFiniteSet(deleted)
    <2>1. config.sets[set] \in Seq(Objects)
        BY <1>3, ConfigAssumption DEF Sets
    <2>2. IsFiniteSet(Range(config.sets[set]))
        BY <2>1, FiniteSets
    <2> QED BY <1>7, <1>17, <2>2, FS_Subset
<1>9. PlanOK'
    BY <1>5, <1>8, <1>17, ListsOf DEF PlanOK
<1>10. HooksAroundData'
    BY <1>2, <1>5, HooksSame
<1>11. Checked'
    <2>1. Manifests' = Manifests
        BY <1>5, ManifestsSame
    <2>2. config.failOnWarning => \A i \in Range(Manifests) : ~CannotLoad(config.addons[i])
        BY <1>1, <1>2 DEF Checked
    <2> QED BY <1>5, <2>1, <2>2 DEF Checked, CannotLoad, CommandMatches
<1>12. log \in Seq(HandlerCalls) /\ OnlyInit(log) /\ step = "filter"
    BY <1>1, <1>2, GoesIdle
<1>13. HandlerCalls' = HandlerCalls /\ Loadable' = Loadable
    BY <1>5, SameAddons
<1>14. IsListOf(loaded', Loadable')
    BY <1>1, <1>2, <1>5, <1>13 DEF Going, AllLoaded
<1>15. CASE kept # {}
    <2>1. stage' = "processCsv" /\ Number(stage') = 8 /\ step' = "filter"
        BY <1>1, <1>6, <1>15, StageOrder, Numbers DEF GoOn
    <2>2. Idle'
        <3>1. Fresh'
            BY <2>1 DEF Fresh
        <3>2. AllLoaded'
            BY <1>14 DEF AllLoaded
        <3> QED BY <1>1, <1>5, <1>12, <1>13, <2>1, <3>1, <3>2, EmptySeq DEF Idle, OnlyInit, ToSet
    <2>3. Going'
        BY <2>2, IdleGoes, PTL
    <2> QED BY <1>9, <1>10, <1>11, <2>1, <2>3 DEF HookInv
<1>16. CASE kept = {}
    <2>1. stage' = "setDone" /\ Number(stage') = 21 /\ step' = "filter" /\ queue' = <<>>
        BY <1>1, <1>5, <1>6, <1>12, <1>16, Numbers
    <2>2. tasks' = <<>>
        <3>1. tasks' \in [1..0 -> {}]
            BY <1>5, <1>16, FS_EmptySet DEF SetToSeqs
        <3> QED BY <3>1
    <2>3. CallsOK'
        BY <1>2, <1>5, <1>13 DEF Going, CallsOK, DmlCalls
    <2>4. Fresh' /\ StepsOK' /\ AllLoaded'
        BY <1>14, <2>1 DEF Fresh, StepsOK, AllLoaded
    <2>5. ChangesInTime'
        <3>1. \A j \in DOMAIN log : log[j][1] = "onInit"
            BY <1>12 DEF OnlyInit, ToSet
        <3> QED BY <1>5, <3>1 DEF ChangesInTime, DmlNames
    <2>6. QueueInTime'
        BY <2>1, EmptySeq DEF QueueInTime, ToSet
    <2>7. CallsCounted'
        BY <2>1, <2>2 DEF CallsCounted
    <2>8. WritesPrepared'
        <3>1. ToSet(tasks') = {}
            BY <2>2, EmptySeq DEF ToSet
        <3> QED BY <3>1 DEF WritesPrepared
    <2>9. Going'
        BY <2>3, <2>4, <2>5, <2>6, <2>7, <2>8 DEF Going
    <2> QED BY <1>9, <1>10, <1>11, <2>1, <2>9 DEF HookInv
<1> QED BY <1>15, <1>16

\* A command begins with an empty log.
LEMMA HooksBegin == Init => HookInv
<1> SUFFICES ASSUME Init PROVE HookInv
    OBVIOUS
<1>1. /\ stage = "start" /\ log = <<>> /\ queue = <<>> /\ tasks = <<>> /\ deleteTasks = <<>>
      /\ step = "filter" /\ Number(stage) = 0
    BY Numbers DEF Init
<1>2. Idle
    BY <1>1, EmptySeq DEF Idle, Fresh, AllLoaded, OnlyInit, ToSet
<1>3. Going
    BY <1>2, IdleGoes
<1>4. PlanOK
    BY <1>1, EmptySeq DEF PlanOK, IsInjective, ToSet
<1> QED BY <1>1, <1>3, <1>4 DEF HookInv, HooksAroundData, Checked

\* Every step keeps the add-ons in order.
LEMMA StepHooks == StateOK /\ HookInv /\ [Next]_vars => HookInv'
<1> SUFFICES ASSUME StateOK, HookInv, [Next]_vars PROVE HookInv'
    OBVIOUS
<1>0. PlanOK /\ HooksAroundData /\ (stage # "end" => Going)
    BY DEF HookInv
<1>1. CASE UNCHANGED vars
    BY <1>1, StutterKeeps DEF vars, job
<1>2. ASSUME NEW error, Throw(error) PROVE HookInv'
    BY <1>2, EndKeeps DEF Throw
<1>3. stage' \in AllStages
    BY StepOK DEF StateOK
<1>4. CASE RunHandler
    <2>1. queue # <<>> /\ stage # "end"
        BY <1>4 DEF RunHandler, HookInv
    <2> QED BY <1>2, <1>4, <2>1, HandlerRuns DEF RunHandler
<1>5. CASE InitializeAddons
    <2>1. CASE stage' = "end"
        BY <1>2, <1>5, <2>1, StageOrder DEF InitializeAddons, GoOn, At
    <2> QED BY <1>5, <2>1, AddonsInitialized
<1>6. CASE SetupJob
    <2>1. CASE stage' = "end"
        BY <1>2, <1>6, <2>1, StageOrder DEF SetupJob, GoOn, At
    <2> QED BY <1>6, <2>1, TasksSetUp
<1>7. CASE Executes \/ Prepare \/ ProcessCsv
    <2>1. CASE stage' = "end"
        <3>1. CASE ProcessCsv
            BY <1>2, <2>1, <3>1, StageOrder DEF ProcessCsv, CsvIssues, GoOn, At
        <3>2. CASE Executes \/ Prepare
            <4>1. stage \in DataStages /\ DataStep
                BY <3>2, Executing
            <4>2. ~(stage' = Following(stage)) /\ stage' # stage
                BY <2>1, <4>1, StageOrder DEF DataStages
            <4> QED BY <1>2, <3>2, <4>2 DEF Executes, Prepare, GlobalEvent, DeleteRecords, RetrieveRecords, ObjectEvent,
                   UpdateRecords, DeleteSourceRecords, UpdateFails, EndOfPass, GoOn, At
        <3> QED BY <1>7, <3>1, <3>2
    <2>2. CASE stage' # "end"
        <3>1. Starts /\ \E F : JobWorks(F)
            BY <1>0, <1>7, <2>2, ExecutesWorks
        <3>2. PICK F : JobWorks(F)
            BY <3>1
        <3>3. Going' /\ HooksAroundData' /\ UNCHANGED <<config, set, plan>> /\ Number(stage) \in 8..20
              /\ Number(stage') \in {Number(stage), Number(stage) + 1}
            BY <1>0, <3>1, <3>2, WorkKeeps DEF JobWorks, Works, Starts
        <3>4. Checked'
            <4>1. config.failOnWarning => \A i \in Range(Manifests) : ~CannotLoad(config.addons[i])
                BY <3>3 DEF HookInv, Checked
            <4>2. Manifests' = Manifests
                BY <3>3, ManifestsSame
            <4> QED BY <3>3, <4>1, <4>2 DEF Checked, CannotLoad, CommandMatches
        <3> QED BY <1>0, <2>2, <3>3, <3>4, SamePlan DEF HookInv
    <2> QED BY <2>1, <2>2
<1>8. ASSUME stage \in {"start", "clear", "setupSource", "setupTarget", "promptSource", "promptTarget"},
             stage' = (IF stage = "start" THEN "clear" ELSE Following(stage)),
             UNCHANGED <<config, set, plan, queue, log>>, step' = "filter" \/ step' = step
      PROVE  HookInv'
    <2>1. Number(stage) <= 5 /\ Number(stage') \in 1..6
        BY <1>8, Numbers, StageOrder
    <2>2. stage # "end" /\ stage \notin Passes
        BY <1>8, PassNames
    <2>3. step = "filter"
        BY <1>0, <2>2 DEF Going, StepsOK
    <2> QED BY <1>0, <1>3, <1>8, <2>1, <2>2, <2>3, OpeningStays
<1>9. CASE Start
    BY <1>2, <1>8, <1>9 DEF Start, At
<1>10. CASE ClearTargetDirectory
    BY <1>2, <1>8, <1>10 DEF ClearTargetDirectory, At, GoOn
<1>11. ASSUME NEW side, NEW name \in {"setupSource", "setupTarget"}, SetupOrg(side, name) PROVE HookInv'
    BY <1>2, <1>8, <1>11 DEF SetupOrg, At, GoOn
<1>12. ASSUME NEW side, NEW name \in {"promptSource", "promptTarget"}, PromptUser(side, name) PROVE HookInv'
    BY <1>2, <1>8, <1>12 DEF PromptUser, At, GoOn
<1>13. CASE NextObjectSet
    <2>1. stage = "setDone" /\ queue = <<>> /\ queue' = <<>> /\ config' = config
        BY <1>13 DEF NextObjectSet, At
    <2>2. CASE set < Len(config.sets)
        <3>1. /\ stage' = "clear" /\ step' = "filter" /\ log' = <<>> /\ Number(stage') = 1
              /\ tasks' = <<>> /\ deleteTasks' = <<>>
            BY <1>13, <2>2, Numbers DEF NextObjectSet
        <3>2. Idle'
            BY <2>1, <3>1, EmptySeq DEF Idle, Fresh, AllLoaded, OnlyInit, ToSet
        <3>3. Going'
            BY <3>2, IdleGoes, PTL
        <3>4. DOMAIN log' = {}
            BY <3>1
        <3>5. HooksAroundData' /\ Checked' /\ PlanOK'
            BY <3>1, <3>4, NoPlan DEF HooksAroundData, Checked
        <3> QED BY <3>1, <3>3, <3>5 DEF HookInv
    <2>3. CASE ~(set < Len(config.sets))
        BY <1>13, <2>1, <2>3, EndKeeps DEF NextObjectSet
    <2> QED BY <2>2, <2>3
<1>14. CASE Ended
    BY <1>1, <1>14 DEF Ended
<1> QED BY <1>1, <1>4, <1>5, <1>6, <1>7, <1>9, <1>10, <1>11, <1>12, <1>13, <1>14 DEF Next, Runs, Prepares

\* What the manifests hold are add-ons, whatever the object set.
LEMMA ManifestsIn == ASSUME config \in Configs PROVE Range(Manifests) \subseteq Addons
<1>1. \A from, names : Entries(from, names) \in Seq(Addons)
    <2> TAKE from, names
    <2> DEFINE E == {i \in Addons : config.addons[i].from = from /\ config.addons[i].objectName \in names}
    <2>1. IsListOf(Entries(from, names), E)
        BY EntriesList
    <2>2. Entries(from, names) \in Seq(E) /\ E \subseteq Addons
        BY <2>1 DEF IsListOf
    <2> HIDE DEF E
    <2> QED BY <2>2, SeqMonotonic
<1>2. Manifests \in Seq(Addons)
    BY <1>1, ConcatProperties DEF Manifests
<1> QED BY <1>2, LenProperties, ElementOfSeq DEF Range

\* At the end of an object set every event has come up as often as it is said to.
LEMMA CountsAtEnd ==
  ASSUME StateOK, Going, stage = "setDone", NEW e \in Events, NEW o \in ToSet(tasks) \cup {Global}
  PROVE  \A n \in Nat : n <= Most(e, o) /\ (Ranges(e) \/ n = Most(e, o)) => n \in Occasions(e, o)
<1>1. Number(stage) = 21 /\ step = "filter"
    <2>1. stage \notin Passes
        BY PassNames
    <2> QED BY <2>1, Numbers DEF Going, StepsOK
<1>2. ToSet(tasks) \subseteq Objects
    BY TasksAre
<1>3. After(10) = 1 /\ After(14) = 1 /\ After(20) = 1
    BY <1>1 DEF After
<1>4. /\ Turn(o, 13) = 1 /\ Turn(o, 15) = 1 /\ Turn(o, 16) = 1 /\ Turn(o, 17) = 1 /\ Turn(o, 19) = 1
      /\ UnderWay(o, {"before", "write"}) = 0 /\ UnderWay(o, {"write"}) = 0
    BY <1>1 DEF Turn, UnderWay
<1>5. Rounds(o) = (IF GoesForward(o) THEN 1 ELSE 0) + (IF IsFile("target") THEN 0 ELSE 2)
    BY <1>4 DEF Rounds
<1>6. CASE o = Global
    <2>1. Turns(o) = 0
        BY <1>6 DEF Turns
    <2>2. Most(e, o) = IF e \in {"onBefore", "onDataRetrieved", "onAfter"} THEN 1 ELSE 0
        BY <1>3, <1>6 DEF Most, GlobalMost
    <2>3. CASE e \in {"onBefore", "onAfter"}
        BY <2>2, <2>3 DEF Occasions, Ranges
    <2>4. CASE e = "onDataRetrieved"
        BY <1>6, <2>2, <2>4 DEF Occasions, Ranges
    <2>5. CASE e = "filterRecords"
        BY <2>1, <2>2, <2>5 DEF Occasions, Ranges
    <2>6. CASE e \in {"onBeforeUpdate", "onAfterUpdate"}
        BY <2>1, <2>2, <2>6 DEF Occasions, Ranges
    <2> QED BY <2>3, <2>4, <2>5, <2>6 DEF Events
<1>7. CASE o \in ToSet(tasks)
    <2>1. o # Global /\ Most(e, o) = ObjectMost(e, o)
        BY <1>2, <1>7, GlobalAssumption DEF Most
    <2>2. Turns(o) = IF Writes(o) THEN Rounds(o) ELSE 0
        BY <1>5, <2>1 DEF Turns
    <2>3. Rounds(o) \in Nat
        BY <1>5
    <2>4. CASE e \in {"onBefore", "onAfter"}
        BY <1>4, <2>1, <2>4 DEF ObjectMost, Occasions, Ranges
    <2>5. CASE e = "onDataRetrieved"
        BY <2>1, <2>5 DEF ObjectMost, WriterMost, Occasions, Ranges
    <2>6. CASE e = "filterRecords"
        <3>1. Most(e, o) = Turns(o) /\ Turns(o) \in Nat
            BY <1>4, <2>1, <2>2, <2>3, <2>6 DEF ObjectMost, WriterMost
        <3> QED BY <2>6, <3>1 DEF Occasions
    <2>7. CASE e = "onBeforeUpdate"
        <3>1. Most(e, o) = Turns(o) /\ Turns(o) \in Nat
            BY <1>4, <2>1, <2>2, <2>3, <2>7 DEF ObjectMost, WriterMost
        <3> QED BY <2>7, <3>1 DEF Occasions, Ranges
    <2>8. CASE e = "onAfterUpdate"
        <3>1. Most(e, o) = (IF IsFile("target") THEN 0 ELSE Turns(o)) /\ Turns(o) \in Nat
            BY <2>1, <2>2, <2>3, <2>8 DEF ObjectMost, WriterMost
        <3> QED BY <2>8, <3>1 DEF Occasions, Ranges
    <2> QED BY <2>4, <2>5, <2>6, <2>7, <2>8 DEF Events
<1> QED BY <1>6, <1>7

\* Then no add-on was left out or ran too often.
LEMMA EndsComplete == StateOK /\ HookInv => HandlersComplete
<1> SUFFICES ASSUME StateOK, HookInv, stage = "setDone", queue = <<>>, tasks # <<>>,
                    NEW i \in Addons, NEW o \in Names
             PROVE  Times(<<config.addons[i].event, i, o>>, Len(log)) \in
                      IF o \in Meant(i) /\ o \in Range(tasks) \cup {Global} THEN Occasions(config.addons[i].event, o) ELSE {0}
    BY DEF HandlersComplete, Names
<1> DEFINE e == config.addons[i].event
           c == <<e, i, o>>
<1>1. Going /\ config \in Configs /\ set \in Sets
    BY DEF HookInv, StateOK
<1>2. log \in Seq(HandlerCalls \cup DmlCalls)
    BY <1>1 DEF Going, CallsOK
<1>3. e \in Events \cup {"none"}
    BY <1>1, EntryOf
<1>4. Times(c, Len(log)) = Occurrences(log, c, Len(log)) /\ Occurrences(log, c, Len(log)) \in Nat
    <2> HIDE DEF c
    <2> QED BY <1>2, CountedIsThere DEF Times, Occurrences
<1>5. Range(tasks) = ToSet(tasks)
    BY DEF Range, ToSet
<1>6. CASE e = "none"
    <2>1. \A j \in 1..Len(log) : log[j] # c
        <3>1. \A x \in HandlerCalls \cup DmlCalls : x # c
            BY <1>6 DEF HandlerCalls, DmlCalls, Events, DmlNames
        <3> HIDE DEF c
        <3> QED BY <1>2, <3>1, ElementOfSeq
    <2>2. Occurrences(log, c, Len(log)) = 0
        <3> HIDE DEF c
        <3> QED BY <1>2, <2>1, CountedIsThere
    <2>3. Occasions(e, o) = {0}
        BY <1>6 DEF Occasions
    <2> QED BY <1>4, <2>2, <2>3
<1>7. CASE e \in Events
    <2>1. CountIs(e, i, o)
        BY <1>1, <1>7 DEF Going, CallsCounted
    <2>2. Total(c) = Occurrences(log, c, Len(log))
        <3>1. c \notin ToSet(queue)
            BY EmptySeq DEF ToSet
        <3> HIDE DEF c
        <3> QED BY <1>4, <3>1 DEF Total
    <2>3. o \in Meant(i) <=> Mine(i, o)
        <3>1. e # "none"
            BY <1>7 DEF Events
        <3> QED BY <1>1, <3>1, MeantIs
    <2>4. CASE ~Mine(i, o)
        BY <1>4, <2>1, <2>2, <2>3, <2>4 DEF CountIs
    <2>5. CASE Mine(i, o) /\ o \notin ToSet(tasks) \cup {Global}
        <3>1. Most(e, o) = 0
            BY <2>5 DEF Most
        <3>2. Total(c) <= Most(e, o)
            BY <2>1, <2>5 DEF CountIs
        <3> QED BY <1>4, <1>5, <2>2, <2>5, <3>1, <3>2
    <2>6. CASE Mine(i, o) /\ o \in ToSet(tasks) \cup {Global}
        <3>1. Total(c) <= Most(e, o) /\ (Ranges(e) \/ Total(c) = Most(e, o))
            BY <2>1, <2>6 DEF CountIs
        <3>2. Total(c) \in Nat
            BY <1>4, <2>2
        <3>3. Total(c) \in Occasions(e, o)
            <4> HIDE DEF c, e
            <4> QED BY <1>1, <1>7, <2>6, <3>1, <3>2, CountsAtEnd
        <3> QED BY <1>4, <1>5, <2>2, <2>3, <2>6, <3>3
    <2> QED BY <2>4, <2>5, <2>6
<1> QED BY <1>3, <1>6, <1>7

\* Add-ons run as they are declared: when, for what and how often, and none is left
\* out (ISfdmuRunAddonEvents and the calls of triggerAddonModuleMethodAsync).  How often
\* is what updateRecordsAsync makes it: once in each pass, but in a set that deletes from the
\* source only the tasks that delete go forward (_updateRecordsAsync of MigrationJob).
THEOREM AddonsAreRight == Spec => []AddonsRunAsDeclared
<1>1. StateOK /\ HookInv => AddonsRunAsDeclared
    <2> SUFFICES ASSUME StateOK, HookInv PROVE NoneMissing
        BY EndsComplete DEF AddonsRunAsDeclared, HookInv
    <2> SUFFICES ASSUME config.failOnWarning, log # <<>>, NEW i \in Range(Manifests)
                 PROVE  LET a == config.addons[i]
                        IN  a.excluded \/ a.command = "other" \/ a.event = "none" \/ a.module = "works"
        BY DEF NoneMissing
    <2>1. ~CannotLoad(config.addons[i])
        BY DEF HookInv, Checked
    <2>2. i \in Addons /\ config \in Configs
        BY ManifestsIn DEF StateOK
    <2>3. LET a == config.addons[i]
          IN  /\ a.event \in Events \cup {"none"} /\ a.command \in {"sfdmu:run", "blank", "other"}
              /\ a.excluded \in BOOLEAN /\ a.module \in {"none", "works", "fails"}
        BY <2>2, EntryOf
    <2> QED BY <2>1, <2>3 DEF CannotLoad, CommandMatches
<1> QED BY InitOK, StepOK, HooksBegin, StepHooks, <1>1, PTL DEF Spec
=============================================================================
