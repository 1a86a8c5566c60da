---------------------------- MODULE MCMainProcess ----------------------------
(****************************************************************************)
(* Instances of DesktopRuntime, DesktopUpdates, DesktopSettings, RuntimeLog,*)
(* DesktopDiagnostics and AgentTurns: the managers of the Electron main     *)
(* process. Each module has instances of its own, of one set of variables;  *)
(* which one moves is chosen at the start, so that a run asks the questions *)
(* of several parts at once. A module with two instances gets the longer    *)
(* histories in one and more failures in the other.                         *)
(****************************************************************************)
EXTENDS Naturals, Sequences, FiniteSets, TLC

CONSTANTS
    c1, c2, c3, NoProcess, NoFile

\* The instance that moves; the variables of the other modules are Off.
VARIABLE watch
VARIABLES
    daemonD, daemonProcs, daemonDisk, daemonCalls, daemonApp, daemonEnv
VARIABLES
    updatePlatform, updateCompatible, updateFeed, updateView, updateUpdater,
    updateInstallers, updateLate, updateBehind, updateRunning, updateAsked,
    updateBusy, updateCrossed, updateAsks, updateFaults
VARIABLES
    settingsPolicy, settingsFile, settingsTemporary, settingsMem,
    settingsItem, settingsSaves, settingsShown, settingsSaving,
    settingsWindow, settingsUnsettled, settingsAsks, settingsFaults
VARIABLES
    logEntries, logDropped, logRecorded, logFirst, logQueue, logFiles,
    logWriter, logLost, logFaults
VARIABLES
    supportNow, supportPending, supportShown, supportBegun, supportAsking,
    supportLatest, supportStored, supportTemporary, supportBackups,
    supportCreated, supportSaving, supportUnsure, supportFaults
VARIABLES
    taskCall, taskRun, taskActive, taskDriver, taskMonitor, taskEvents,
    taskTree, taskPrepared, taskWorker, taskKeys, taskTasks, taskRegistry,
    taskFile, taskTemporary, taskTold, taskCrossed, taskDropped, taskStray,
    taskDenied, taskFaults

daemonVars ==
    <<daemonD, daemonProcs, daemonDisk, daemonCalls, daemonApp, daemonEnv>>
updateVars ==
    <<updatePlatform, updateCompatible, updateFeed, updateView, updateUpdater,
      updateInstallers, updateLate, updateBehind, updateRunning, updateAsked,
      updateBusy, updateCrossed, updateAsks, updateFaults>>
settingsVars ==
    <<settingsPolicy, settingsFile, settingsTemporary, settingsMem,
      settingsItem, settingsSaves, settingsShown, settingsSaving,
      settingsWindow, settingsUnsettled, settingsAsks, settingsFaults>>
logVars ==
    <<logEntries, logDropped, logRecorded, logFirst, logQueue, logFiles,
      logWriter, logLost, logFaults>>
supportVars ==
    <<supportNow, supportPending, supportShown, supportBegun, supportAsking,
      supportLatest, supportStored, supportTemporary, supportBackups,
      supportCreated, supportSaving, supportUnsure, supportFaults>>
taskVars ==
    <<taskCall, taskRun, taskActive, taskDriver, taskMonitor, taskEvents,
      taskTree, taskPrepared, taskWorker, taskKeys, taskTasks, taskRegistry,
      taskFile, taskTemporary, taskTold, taskCrossed, taskDropped, taskStray,
      taskDenied, taskFaults>>
Off == "off"

\* Two workspaces over two repositories; the legacy configuration brings one.
W(i, r) == [id |-> i, root |-> r]
SomeEvents == {[type |-> "state", bytes |-> 1], [type |-> "log", bytes |-> 5],
               [type |-> "bundle", bytes |-> 5], [type |-> "progress", bytes |-> 1]}

AllPolicies == [background : BOOLEAN, login : BOOLEAN]

Commands == {"start", "stop", "restart", "attach"}
Everything == Commands \cup {"save", "remove", "changed", "migrate"}
Undisturbed == {[ext |-> "none", bundled |-> "same"]}
Disturbed ==
    [ext : {"none"}, bundled : {"same", "other", "missing", "stubborn"}]
    \cup [ext : {"compatible", "conflicting", "orphan"}, bundled : {"same"}]

\* Three calls of any kind around one process; two around three, whoever owns the
\* port; a command and a quit around two, whoever owns it; two commands and a quit.
Daemon == INSTANCE DesktopRuntime WITH
    Ids <- {"a", "b"}, Roots <- {"r", "s"}, MaxCalls <- 3, MaxSpawns <- 1,
    Ops <- Everything, Launches <- Undisturbed,
    Imported <- {W("b", "s")}, Left <- {{W("a", "r")}},
    Candidates <- {W("b", "r")}, None <- NoProcess, Null <- NoFile,
    d <- daemonD, procs <- daemonProcs, disk <- daemonDisk,
    calls <- daemonCalls, app <- daemonApp, env <- daemonEnv

DaemonLaunches == INSTANCE DesktopRuntime WITH
    Ids <- {"a", "b"}, Roots <- {"r", "s"}, MaxCalls <- 2, MaxSpawns <- 3,
    Ops <- Everything, Launches <- Disturbed,
    Imported <- {W("b", "s")}, Left <- {{W("a", "r")}},
    Candidates <- {W("b", "r")}, None <- NoProcess, Null <- NoFile,
    d <- daemonD, procs <- daemonProcs, disk <- daemonDisk,
    calls <- daemonCalls, app <- daemonApp, env <- daemonEnv

DaemonRestarts == INSTANCE DesktopRuntime WITH
    Ids <- {"a", "b"}, Roots <- {"r", "s"}, MaxCalls <- 3, MaxSpawns <- 2,
    Ops <- Commands, Launches <- Disturbed,
    Imported <- {W("b", "s")}, Left <- {{W("a", "r")}},
    Candidates <- {W("b", "r")}, None <- NoProcess, Null <- NoFile,
    d <- daemonD, procs <- daemonProcs, disk <- daemonDisk,
    calls <- daemonCalls, app <- daemonApp, env <- daemonEnv

DaemonCommands == INSTANCE DesktopRuntime WITH
    Ids <- {"a", "b"}, Roots <- {"r", "s"}, MaxCalls <- 4, MaxSpawns <- 2,
    Ops <- Commands \ {"restart"}, Launches <- Undisturbed,
    Imported <- {W("b", "s")}, Left <- {{W("a", "r")}},
    Candidates <- {W("b", "r")}, None <- NoProcess, Null <- NoFile,
    d <- daemonD, procs <- daemonProcs, disk <- daemonDisk,
    calls <- daemonCalls, app <- daemonApp, env <- daemonEnv

Updates == INSTANCE DesktopUpdates WITH
    MaxRelease <- 2, MaxAsks <- 6, MaxFaults <- 3, platform <- updatePlatform,
    compatible <- updateCompatible, feed <- updateFeed, view <- updateView,
    updater <- updateUpdater, installers <- updateInstallers,
    late <- updateLate, behind <- updateBehind, running <- updateRunning,
    asked <- updateAsked, busy <- updateBusy, crossed <- updateCrossed,
    asks <- updateAsks, faults <- updateFaults

Settings == INSTANCE DesktopSettings WITH
    Policies <- AllPolicies, MaxSaves <- 3, MaxFaults <- 1, None <- NoFile,
    policy <- settingsPolicy, file <- settingsFile,
    temporary <- settingsTemporary, mem <- settingsMem, item <- settingsItem,
    saves <- settingsSaves, shown <- settingsShown, saving <- settingsSaving,
    window <- settingsWindow, unsettled <- settingsUnsettled,
    asks <- settingsAsks, faults <- settingsFaults

SettingsFaults == INSTANCE DesktopSettings WITH
    Policies <- AllPolicies, MaxSaves <- 2, MaxFaults <- 3, None <- NoFile,
    policy <- settingsPolicy, file <- settingsFile,
    temporary <- settingsTemporary, mem <- settingsMem, item <- settingsItem,
    saves <- settingsSaves, shown <- settingsShown, saving <- settingsSaving,
    window <- settingsWindow, unsettled <- settingsUnsettled,
    asks <- settingsAsks, faults <- settingsFaults

Log == INSTANCE RuntimeLog WITH
    Events <- SomeEvents, MaxMessageBytes <- 2,
    MaxBundleBytes <- 3, MaxEntries <- 3, MaxMemoryBytes <- 4,
    MaxFileBytes <- 2, Rotations <- 2, MaxRecords <- 4, MaxFaults <- 2,
    entries <- logEntries, dropped <- logDropped, recorded <- logRecorded,
    first <- logFirst, queue <- logQueue, files <- logFiles,
    writer <- logWriter, lost <- logLost, faults <- logFaults

LogRotations == INSTANCE RuntimeLog WITH
    Events <- {e \in SomeEvents : e.type = "log"}, MaxMessageBytes <- 2,
    MaxBundleBytes <- 3, MaxEntries <- 3, MaxMemoryBytes <- 4,
    MaxFileBytes <- 2, Rotations <- 3, MaxRecords <- 6, MaxFaults <- 2,
    entries <- logEntries, dropped <- logDropped, recorded <- logRecorded,
    first <- logFirst, queue <- logQueue, files <- logFiles,
    writer <- logWriter, lost <- logLost, faults <- logFaults

Support == INSTANCE DesktopDiagnostics WITH
    Calls <- {"x", "y"}, MaxPending <- 2, Ttl <- 2, MaxAsks <- 4,
    MaxTime <- 3, MaxFaults <- 2,
    now <- supportNow, pending <- supportPending, shown <- supportShown,
    begun <- supportBegun, asking <- supportAsking, latest <- supportLatest,
    stored <- supportStored, temporary <- supportTemporary,
    backups <- supportBackups, created <- supportCreated,
    saving <- supportSaving, unsure <- supportUnsure, faults <- supportFaults

TaskAgents == INSTANCE AgentTurns WITH
    Calls <- {c1, c2, c3}, Ops <- {"loop", "direct", "cancel"}, Runs <- {"k1"},
    First <- "k1", Workers <- {}, Inputs <- {}, MaxRecovery <- 1,
    MaxIterations <- 1, MaxPrepared <- 2, MaxKeys <- 2, MaxReferences <- 2,
    PageSize <- 1, MaxPages <- 2, MaxEvents <- 0, MaxTrees <- 1, Polls <- {},
    MaxFaults <- 2, None <- "none", call <- taskCall, run <- taskRun,
    active <- taskActive, driver <- taskDriver, monitor <- taskMonitor,
    events <- taskEvents, tree <- taskTree, prepared <- taskPrepared,
    worker <- taskWorker, keys <- taskKeys, tasks <- taskTasks,
    registry <- taskRegistry, file <- taskFile, temporary <- taskTemporary,
    told <- taskTold, crossed <- taskCrossed, dropped <- taskDropped,
    stray <- taskStray, denied <- taskDenied, faults <- taskFaults

TaskTurns == INSTANCE AgentTurns WITH
    Calls <- {c1, c2}, Ops <- {"turn", "prepare", "loop", "cancel"},
    Runs <- {"k1"}, First <- "k1", Workers <- {}, Inputs <- {},
    MaxRecovery <- 1, MaxIterations <- 2, MaxPrepared <- 2, MaxKeys <- 2,
    MaxReferences <- 2, PageSize <- 1, MaxPages <- 2, MaxEvents <- 0,
    MaxTrees <- 1, Polls <- {}, MaxFaults <- 2, None <- "none",
    call <- taskCall, run <- taskRun, active <- taskActive,
    driver <- taskDriver, monitor <- taskMonitor, events <- taskEvents,
    tree <- taskTree, prepared <- taskPrepared, worker <- taskWorker,
    keys <- taskKeys, tasks <- taskTasks, registry <- taskRegistry,
    file <- taskFile, temporary <- taskTemporary, told <- taskTold,
    crossed <- taskCrossed, dropped <- taskDropped, stray <- taskStray,
    denied <- taskDenied, faults <- taskFaults

TaskWorkers == INSTANCE AgentTurns WITH
    Calls <- {c1, c2, c3}, Ops <- {"worker", "cancel"},
    Runs <- {"k1", "k2", "k3"}, First <- "k1", Workers <- {"w1"}, Inputs <- {},
    MaxRecovery <- 1, MaxIterations <- 1, MaxPrepared <- 2, MaxKeys <- 2,
    MaxReferences <- 2, PageSize <- 1, MaxPages <- 2, MaxEvents <- 0,
    MaxTrees <- 1, Polls <- {}, MaxFaults <- 2, None <- "none",
    call <- taskCall, run <- taskRun, active <- taskActive,
    driver <- taskDriver, monitor <- taskMonitor, events <- taskEvents,
    tree <- taskTree, prepared <- taskPrepared, worker <- taskWorker,
    keys <- taskKeys, tasks <- taskTasks, registry <- taskRegistry,
    file <- taskFile, temporary <- taskTemporary, told <- taskTold,
    crossed <- taskCrossed, dropped <- taskDropped, stray <- taskStray,
    denied <- taskDenied, faults <- taskFaults

TaskBegins == INSTANCE AgentTurns WITH
    Calls <- {c1, c2, c3}, Ops <- {"begin", "remember"}, Runs <- {"k1"},
    First <- "k1", Workers <- {}, Inputs <- {"i1", "i2", "i3"},
    MaxRecovery <- 1, MaxIterations <- 1, MaxPrepared <- 2, MaxKeys <- 2,
    MaxReferences <- 2, PageSize <- 1, MaxPages <- 2, MaxEvents <- 0,
    MaxTrees <- 1, Polls <- {}, MaxFaults <- 1, None <- "none",
    call <- taskCall, run <- taskRun, active <- taskActive,
    driver <- taskDriver, monitor <- taskMonitor, events <- taskEvents,
    tree <- taskTree, prepared <- taskPrepared, worker <- taskWorker,
    keys <- taskKeys, tasks <- taskTasks, registry <- taskRegistry,
    file <- taskFile, temporary <- taskTemporary, told <- taskTold,
    crossed <- taskCrossed, dropped <- taskDropped, stray <- taskStray,
    denied <- taskDenied, faults <- taskFaults

TaskMonitor == INSTANCE AgentTurns WITH
    Calls <- {c1}, Ops <- {"direct"}, Runs <- {"k1"}, First <- "k1",
    Workers <- {}, Inputs <- {}, MaxRecovery <- 1, MaxIterations <- 1,
    MaxPrepared <- 2, MaxKeys <- 2, MaxReferences <- 2, PageSize <- 1,
    MaxPages <- 2, MaxEvents <- 3, MaxTrees <- 2, Polls <- {"p", "q"},
    MaxFaults <- 2, None <- "none", call <- taskCall, run <- taskRun,
    active <- taskActive, driver <- taskDriver, monitor <- taskMonitor,
    events <- taskEvents, tree <- taskTree, prepared <- taskPrepared,
    worker <- taskWorker, keys <- taskKeys, tasks <- taskTasks,
    registry <- taskRegistry, file <- taskFile, temporary <- taskTemporary,
    told <- taskTold, crossed <- taskCrossed, dropped <- taskDropped,
    stray <- taskStray, denied <- taskDenied, faults <- taskFaults

-----------------------------------------------------------------------------
DaemonOff ==
    /\ daemonD = Off /\ daemonProcs = Off /\ daemonDisk = Off
    /\ daemonCalls = Off /\ daemonApp = Off /\ daemonEnv = Off
UpdatesOff ==
    /\ updatePlatform = Off /\ updateCompatible = Off /\ updateFeed = Off
    /\ updateView = Off /\ updateUpdater = Off /\ updateInstallers = Off
    /\ updateLate = Off /\ updateBehind = Off /\ updateRunning = Off
    /\ updateAsked = Off /\ updateBusy = Off /\ updateCrossed = Off
    /\ updateAsks = Off /\ updateFaults = Off
SettingsOff ==
    /\ settingsPolicy = Off /\ settingsFile = Off /\ settingsTemporary = Off
    /\ settingsMem = Off /\ settingsItem = Off /\ settingsSaves = Off
    /\ settingsShown = Off /\ settingsSaving = Off /\ settingsWindow = Off
    /\ settingsUnsettled = Off /\ settingsAsks = Off /\ settingsFaults = Off
LogOff ==
    /\ logEntries = Off /\ logDropped = Off /\ logRecorded = Off
    /\ logFirst = Off /\ logQueue = Off /\ logFiles = Off /\ logWriter = Off
    /\ logLost = Off /\ logFaults = Off
SupportOff ==
    /\ supportNow = Off /\ supportPending = Off /\ supportShown = Off
    /\ supportBegun = Off /\ supportAsking = Off /\ supportLatest = Off
    /\ supportStored = Off /\ supportTemporary = Off /\ supportBackups = Off
    /\ supportCreated = Off /\ supportSaving = Off /\ supportUnsure = Off
    /\ supportFaults = Off
TaskOff ==
    /\ taskCall = Off /\ taskRun = Off /\ taskActive = Off /\ taskDriver = Off
    /\ taskMonitor = Off /\ taskEvents = Off /\ taskTree = Off
    /\ taskPrepared = Off /\ taskWorker = Off /\ taskKeys = Off
    /\ taskTasks = Off /\ taskRegistry = Off /\ taskFile = Off
    /\ taskTemporary = Off /\ taskTold = Off /\ taskCrossed = Off
    /\ taskDropped = Off /\ taskStray = Off /\ taskDenied = Off
    /\ taskFaults = Off

Init ==
    \/ /\ watch = "daemon" /\ Daemon!Init
       /\ UpdatesOff /\ SettingsOff /\ LogOff /\ SupportOff /\ TaskOff
    \/ /\ watch = "daemon launches" /\ DaemonLaunches!Init
       /\ UpdatesOff /\ SettingsOff /\ LogOff /\ SupportOff /\ TaskOff
    \/ /\ watch = "daemon restarts" /\ DaemonRestarts!Init
       /\ UpdatesOff /\ SettingsOff /\ LogOff /\ SupportOff /\ TaskOff
    \/ /\ watch = "daemon commands" /\ DaemonCommands!Init
       /\ UpdatesOff /\ SettingsOff /\ LogOff /\ SupportOff /\ TaskOff
    \/ /\ watch = "updates" /\ Updates!Init
       /\ DaemonOff /\ SettingsOff /\ LogOff /\ SupportOff /\ TaskOff
    \/ /\ watch = "settings" /\ Settings!Init
       /\ DaemonOff /\ UpdatesOff /\ LogOff /\ SupportOff /\ TaskOff
    \/ /\ watch = "settings faults" /\ SettingsFaults!Init
       /\ DaemonOff /\ UpdatesOff /\ LogOff /\ SupportOff /\ TaskOff
    \/ /\ watch = "log" /\ Log!Init
       /\ DaemonOff /\ UpdatesOff /\ SettingsOff /\ SupportOff /\ TaskOff
    \/ /\ watch = "log rotations" /\ LogRotations!Init
       /\ DaemonOff /\ UpdatesOff /\ SettingsOff /\ SupportOff /\ TaskOff
    \/ /\ watch = "support" /\ Support!Init
       /\ DaemonOff /\ UpdatesOff /\ SettingsOff /\ LogOff /\ TaskOff
    \/ /\ watch = "task agents" /\ TaskAgents!Init
       /\ DaemonOff /\ UpdatesOff /\ SettingsOff /\ LogOff /\ SupportOff
    \/ /\ watch = "task turns" /\ TaskTurns!Init
       /\ DaemonOff /\ UpdatesOff /\ SettingsOff /\ LogOff /\ SupportOff
    \/ /\ watch = "task workers" /\ TaskWorkers!Init
       /\ DaemonOff /\ UpdatesOff /\ SettingsOff /\ LogOff /\ SupportOff
    \/ /\ watch = "task begins" /\ TaskBegins!Init
       /\ DaemonOff /\ UpdatesOff /\ SettingsOff /\ LogOff /\ SupportOff
    \/ /\ watch = "task monitor" /\ TaskMonitor!Init
       /\ DaemonOff /\ UpdatesOff /\ SettingsOff /\ LogOff /\ SupportOff
Next ==
    \/ /\ watch = "daemon" /\ Daemon!Next
       /\ UNCHANGED <<watch, updateVars, settingsVars, logVars, supportVars,
                      taskVars>>
    \/ /\ watch = "daemon launches" /\ DaemonLaunches!Next
       /\ UNCHANGED <<watch, updateVars, settingsVars, logVars, supportVars,
                      taskVars>>
    \/ /\ watch = "daemon restarts" /\ DaemonRestarts!Next
       /\ UNCHANGED <<watch, updateVars, settingsVars, logVars, supportVars,
                      taskVars>>
    \/ /\ watch = "daemon commands" /\ DaemonCommands!Next
       /\ UNCHANGED <<watch, updateVars, settingsVars, logVars, supportVars,
                      taskVars>>
    \/ /\ watch = "updates" /\ Updates!Next
       /\ UNCHANGED <<watch, daemonVars, settingsVars, logVars, supportVars,
                      taskVars>>
    \/ /\ watch = "settings" /\ Settings!Next
       /\ UNCHANGED <<watch, daemonVars, updateVars, logVars, supportVars,
                      taskVars>>
    \/ /\ watch = "settings faults" /\ SettingsFaults!Next
       /\ UNCHANGED <<watch, daemonVars, updateVars, logVars, supportVars,
                      taskVars>>
    \/ /\ watch = "log" /\ Log!Next
       /\ UNCHANGED <<watch, daemonVars, updateVars, settingsVars, supportVars,
                      taskVars>>
    \/ /\ watch = "log rotations" /\ LogRotations!Next
       /\ UNCHANGED <<watch, daemonVars, updateVars, settingsVars, supportVars,
                      taskVars>>
    \/ /\ watch = "support" /\ Support!Next
       /\ UNCHANGED <<watch, daemonVars, updateVars, settingsVars, logVars,
                      taskVars>>
    \/ /\ watch = "task agents" /\ TaskAgents!Next
       /\ UNCHANGED <<watch, daemonVars, updateVars, settingsVars, logVars,
                      supportVars>>
    \/ /\ watch = "task turns" /\ TaskTurns!Next
       /\ UNCHANGED <<watch, daemonVars, updateVars, settingsVars, logVars,
                      supportVars>>
    \/ /\ watch = "task workers" /\ TaskWorkers!Next
       /\ UNCHANGED <<watch, daemonVars, updateVars, settingsVars, logVars,
                      supportVars>>
    \/ /\ watch = "task begins" /\ TaskBegins!Next
       /\ UNCHANGED <<watch, daemonVars, updateVars, settingsVars, logVars,
                      supportVars>>
    \/ /\ watch = "task monitor" /\ TaskMonitor!Next
       /\ UNCHANGED <<watch, daemonVars, updateVars, settingsVars, logVars,
                      supportVars>>
Spec == Init /\ [][Next]_
  <<watch, daemonVars, updateVars, settingsVars, logVars, supportVars,
    taskVars>>

\* The commands alone, for what the documentation says of a quit.
QuitSpec ==
    /\ watch = "daemon commands" /\ DaemonCommands!Init
    /\ UpdatesOff /\ SettingsOff /\ LogOff /\ SupportOff /\ TaskOff
    /\ [][Next]_
         <<watch, daemonVars, updateVars, settingsVars, logVars, supportVars,
           taskVars>>

\* Processes, calls and names that a module treats alike.
Symmetry ==
    Permutations({c1, c2, c3})

-----------------------------------------------------------------------------
\* No daemon is left that the application does not know of, not when it quits
\* either, and an orderly exit is remembered as one, but for a process that met
\* another daemon call or the quit when it was spawned (daemon-manager.ts,
\* main.ts).
DaemonIsAccounted ==
    /\ watch = "daemon" => Daemon!DaemonIsAccounted
    /\ watch = "daemon launches" => DaemonLaunches!DaemonIsAccounted
    /\ watch = "daemon restarts" => DaemonRestarts!DaemonIsAccounted
    /\ watch = "daemon commands" => DaemonCommands!DaemonIsAccounted

\* The daemon serves the workspaces that are registered, and an import that
\* failed has registered none (workspace-manager.ts, migration-manager.ts).
RegistryIsServed ==
    /\ watch = "daemon" => Daemon!RegistryIsServed
    /\ watch = "daemon launches" => DaemonLaunches!RegistryIsServed
    /\ watch = "daemon restarts" => DaemonRestarts!RegistryIsServed
    /\ watch = "daemon commands" => DaemonCommands!RegistryIsServed

\* Only a verified update is installed, and the login item is the one the
\* stored preference asks for (update-manager.ts, background-controller.ts).
SettingsTakeEffect ==
    /\ watch = "updates" => Updates!UpdateIsVerified
    /\ watch = "settings" => Settings!LoginItemFollows
    /\ watch = "settings faults" => SettingsFaults!LoginItemFollows

\* What support will ask for is there: the end of the log, the previews that
\* were shown, the latest backup (runtime-log-store.ts, diagnostics-
\* manager.ts).
SupportDataKept ==
    /\ watch = "log" => Log!LogIsTail
    /\ watch = "log rotations" => LogRotations!LogIsTail
    /\ watch = "support" => Support!SupportStateKept

\* The active agent of a run is the one that works on it, what is reported was
\* proved, and a child run is claimed by one worker (task-manager.ts, agent-
\* worker-family.ts).
RunsAreAccounted ==
    /\ watch = "task agents" => TaskAgents!RunsAreAccounted
    /\ watch = "task turns" => TaskTurns!RunsAreAccounted
    /\ watch = "task workers" => TaskWorkers!RunsAreAccounted
    /\ watch = "task monitor" => TaskMonitor!RunsAreAccounted

\* A repeated begin begins nothing again, what was begun is listed, and a tool
\* event is shown once (task-manager.ts, task-registry.ts).
BegunOnceShownOnce ==
    /\ watch = "task begins" => TaskBegins!BegunOnceShownOnce
    /\ watch = "task monitor" => TaskMonitor!BegunOnceShownOnce

\* "application quit -> graceful shutdown of managed child before Electron exits"
\* (docs/desktop-daemon-lifecycle.md).
QuitStopsManagedChild == DaemonCommands!QuitStopsManagedChild

=============================================================================
