--------------------------- MODULE DesktopRuntime ---------------------------
(***************************************************************************)
(* The Electron main process around the managed daemon: DaemonManager,     *)
(* WorkspaceManager, WorkspaceGrantManager, MigrationManager, the crash    *)
(* marker, bootstrap and quit (desktop/src/main.ts and desktop/src/main/). *)
(*                                                                         *)
(* JavaScript runs one handler at a time, but every await lets another     *)
(* one in.  A running handler is a stack of frames, one frame for every    *)
(* async function it is inside of; a step of the model is the code between *)
(* two awaits.  Returning pops a frame and leaves the result in the pc of  *)
(* the caller's.  The files, the daemon processes and the process that may *)
(* already own the port are the environment.                               *)
(***************************************************************************)
EXTENDS Naturals, Sequences, FiniteSets

CONSTANTS
    Ids,          \* workspace ids
    Roots,        \* repository roots
    MaxCalls,     \* bound: handlers started in one session, the bootstrap included
    MaxSpawns,    \* bound: daemon processes spawned in one session
    Imported,     \* the workspaces of the legacy configuration
    Left,         \* the registries an earlier session may have left
    Candidates,   \* the workspaces the operator may save
    Launches,     \* who may own the port at launch, and how the bundled daemon may behave
    Ops,          \* what the operator asks for: daemon commands, "save", "remove",
                  \* "changed" (workspaceChanged), "migrate"
    None, Null    \* no process; no such file

VARIABLES
    d,        \* the DaemonManager: child, state, managed, stopping, plan
    procs,    \* the processes it spawned: st, the configuration each one serves, and
              \* what it met: daemon calls and a quit that were under way when it was
              \* spawned, and a SIGKILL that did not end it
    disk,     \* registry, config, state location and directories, exit marker
    calls,    \* handler -> its stack of frames
    app,      \* phase, whether the managers are held, last sync, the migration
    env       \* who owned the port at launch, and how the bundled daemon behaves

vars == <<d, procs, disk, calls, app, env>>

Workspace == [id : Ids, root : Roots]
Registry == {r \in SUBSET Workspace : \A v, w \in r : v.id = w.id => v = w}
Handlers == 1..MaxCalls
Pids == 1..MaxSpawns

------------------------------------------------------------------------------
(* Frames.                                                                  *)

Frame(fn, pc) == [fn |-> fn, pc |-> pc, p |-> None, ws |-> {}]
Top(k) == calls[k][1]
At(k, fn, pcs) == calls[k] # <<>> /\ Top(k).fn = fn /\ Top(k).pc \in pcs

\* The function on top of `rest` returned: the caller goes on with the result r.
Returned(rest, r) == IF rest = <<>> THEN <<>> ELSE <<[rest[1] EXCEPT !.pc = r]>> \o Tail(rest)
Step(k, stack) == calls' = [calls EXCEPT ![k] = stack]
Return(k, r) == Step(k, Returned(Tail(calls[k]), r))
Goto(k, pc) == Step(k, <<[Top(k) EXCEPT !.pc = pc]>> \o Tail(calls[k]))

\* A handler is free until it is used once: the operator may start it.  An import
\* and a quit remember whether any other handler ran beside them.
Free(k) == calls[k] = <<>> /\ k \notin app.used /\ \A j \in Handlers : j < k => j \in app.used
Use(k) == [app EXCEPT !.used = @ \cup {k}, !.alone = FALSE,
                      !.mig = IF @ # Null THEN IF @.result = "running" THEN [@ EXCEPT !.alone = FALSE]
                                               ELSE @ ELSE @]

\* The IPC handlers are installed after the bootstrap and stay while the application
\* quits.
Serving == app.phase \in {"running", "quitting"} /\ app.held

------------------------------------------------------------------------------
(* The daemon process.                                                      *)

Live(p) == procs[p].st \in {"up", "ready"}
Unmanaged(dd) == ~dd.managed /\ dd.state \in {"external", "incompatible"}
Unstable == d.state \in {"starting", "stopping"}

\* transition(): a crash or a stop is also reported to the crash marker, which
\* rewrites the marker with the status "running" as long as main holds the manager.
Transition(dd, s, m) == [dd EXCEPT !.state = s, !.managed = m]
RecordDaemonSnapshot(dd) ==
    IF dd.state \in {"crashed", "stopped"} /\ app.held THEN "running" ELSE disk.marker
Became(dd) ==
    \E new \in {dd} :
       /\ d' = new
       /\ disk' = [disk EXCEPT !.marker = IF new = d THEN @ ELSE RecordDaemonSnapshot(new)]

\* probeExisting(): whoever answers the health endpoint.
ProbeExisting ==
    IF env.ext # "none" THEN env.ext
    ELSE IF \E p \in Pids : procs[p].st = "ready" THEN "compatible" ELSE "none"

Outcome(dd) == IF dd.state = "ready" /\ dd.managed THEN "ready" ELSE "unready"

\* start() up to its first await.
EnterStart(dd, rest) ==
    IF dd.child # None THEN Returned(rest, Outcome(dd))
    ELSE IF ~dd.plan THEN Returned(rest, "threw")
    ELSE <<Frame("start", "probe")>> \o rest

\* stop() up to its first await: the new manager and what the caller's stack becomes.
EnterStop(dd, rest) ==
    IF dd.child = None
    THEN IF Unmanaged(dd) THEN [d |-> dd, st |-> Returned(rest, "threw")]
         ELSE [d |-> Transition(dd, "stopped", dd.managed), st |-> Returned(rest, "ok")]
    ELSE IF procs[dd.child].st = "dead"
    THEN [d |-> [Transition(dd, "stopped", TRUE) EXCEPT !.child = None, !.stopping = FALSE],
          st |-> Returned(rest, "ok")]
    ELSE [d |-> [Transition(dd, "stopping", TRUE) EXCEPT !.stopping = TRUE],
          st |-> <<[Frame("stop", "wait") EXCEPT !.p = dd.child]>> \o rest]

\* Handler k calls stop(): what that does at once.
Stops(k, dd, rest) == \E s \in {EnterStop(dd, rest)} : Became(s.d) /\ Step(k, s.st)

\* restart() up to its first await.
EnterRestart(dd, rest) ==
    IF Unmanaged(dd) THEN [d |-> dd, st |-> Returned(rest, "threw")]
    ELSE IF dd.child # None THEN EnterStop(dd, <<Frame("restart", "stopping")>> \o rest)
    ELSE [d |-> dd, st |-> EnterStart(dd, rest)]

\* waitUntilReady() and currentDaemonVersion(): some process answers as ready; the
\* loop gives up when the manager has no child any more, or at READY_TIMEOUT_MS.
WaitUntilReady(p) == [ready |-> d.child # None /\ ProbeExisting = "compatible",
                      gaveUp |-> d.child = None \/ procs[p].st # "ready"]

\* A leftover of an earlier session is killed first: findLegacyOrphanedBundledDaemon.
RecoverOrphanedDaemon(ok) == env.ext = "orphan" /\ ok

\* start() after its probe.
StartProbed(k) ==
    /\ At(k, "start", {"probe"})
    /\ \E ok \in BOOLEAN :
         LET reclaimed == RecoverOrphanedDaemon(ok)
             existing == IF reclaimed THEN "none" ELSE ProbeExisting IN
         /\ (env.ext # "orphan") => ok
         /\ env' = IF reclaimed THEN [env EXCEPT !.ext = "none"] ELSE env
         /\ IF existing = "none" THEN Goto(k, "spawn") /\ UNCHANGED <<d, disk>>
            ELSE /\ Became(Transition(d, IF existing \in {"compatible", "orphan"}
                                         THEN "external" ELSE "incompatible", FALSE))
                 /\ Return(k, "unready")
    /\ UNCHANGED <<procs, app>>

\* The daemon calls beside this one that are past their checks and have not ended, and
\* a quit: what a process meets that is spawned now.
Beside(k) ==
    {Top(j).fn : j \in {i \in Handlers \ {k} :
                          At(i, "start", {"probe", "spawn"}) \/ At(i, "attach", {"probe"})
                            \/ At(i, "stop", {"wait"})}}
    \cup (IF app.phase = "quitting" THEN {"quit"} ELSE {})

\* start() after ensureExecutable: the process is spawned and becomes the child,
\* whatever the child is by now; it reads the configuration file as it comes up.
StartSpawned(k) ==
    /\ At(k, "start", {"spawn"})
    /\ \/ \E p \in Pids :
            /\ env.bundled # "missing"
            /\ procs[p].st = "unused" /\ \A q \in Pids : q < p => procs[q].st # "unused"
            /\ procs' = [procs EXCEPT ![p] = [st |-> "up", serves |-> disk.config,
                                                met |-> Beside(k)]]
            /\ d' = [Transition(d, "starting", TRUE) EXCEPT !.child = p, !.stopping = FALSE]
            /\ Step(k, <<[Top(k) EXCEPT !.pc = "wait", !.p = p]>> \o Tail(calls[k]))
       \/ /\ env.bundled = "missing"
          /\ Return(k, "threw") /\ UNCHANGED <<d, procs>>
    /\ UNCHANGED <<disk, app, env>>

\* The catch clause of start(): the child is stopped if it is still this one.
FailStart(k, dd) ==
    LET rest == <<Frame("startFailed", "stopping")>> \o Tail(calls[k]) IN
    IF dd.child = Top(k).p
    THEN Stops(k, dd, rest)
    ELSE Became(dd) /\ Step(k, Returned(rest, "ok"))

\* waitUntilReady and the version check of start().
StartReady(k) ==
    /\ At(k, "start", {"wait"}) /\ WaitUntilReady(Top(k).p).ready
    /\ IF env.bundled = "other"
       THEN Stops(k, d, <<[Top(k) EXCEPT !.fn = "startOld"]>> \o Tail(calls[k]))
       ELSE Became(Transition(d, "ready", TRUE)) /\ Return(k, "ready")
    /\ UNCHANGED <<procs, app, env>>

StartOld(k) ==
    /\ At(k, "startOld", {"ok", "threw"})
    /\ FailStart(k, Transition(d, "incompatible", TRUE))
    /\ UNCHANGED <<procs, app, env>>

\* The daemon exited during startup, or is not ready in READY_TIMEOUT_MS.
StartFails(k) ==
    /\ At(k, "start", {"wait"}) /\ WaitUntilReady(Top(k).p).gaveUp
    /\ FailStart(k, d)
    /\ UNCHANGED <<procs, app, env>>

StartFailed(k) ==
    /\ At(k, "startFailed", {"ok", "threw"})
    /\ Became(IF d.state = "incompatible" THEN d ELSE Transition(d, "crashed", TRUE))
    /\ Return(k, "threw")
    /\ UNCHANGED <<procs, app, env>>

RestartStopped(k) ==
    /\ At(k, "restart", {"ok", "threw"})
    /\ IF Top(k).pc = "ok" THEN Step(k, EnterStart(d, Tail(calls[k]))) ELSE Return(k, "threw")
    /\ UNCHANGED <<d, procs, disk, app, env>>

\* stop() gives up after SIGKILL and FORCE_STOP_TIMEOUT_MS: the child is kept.
StopStuck(k) ==
    /\ At(k, "stop", {"wait"}) /\ env.bundled = "stubborn" /\ Live(Top(k).p)
    /\ d' = [Transition(d, "crashed", TRUE) EXCEPT !.stopping = FALSE]
    /\ disk' = [disk EXCEPT !.marker = RecordDaemonSnapshot(d')]
    /\ procs' = [procs EXCEPT ![Top(k).p].met = @ \cup {"stuck"}]
    /\ Return(k, "threw")
    /\ UNCHANGED <<app, env>>

AttachProbed(k) ==
    /\ At(k, "attach", {"probe"})
    /\ d' = IF ProbeExisting \in {"compatible", "orphan"}
            THEN Transition(d, "external", FALSE) ELSE d
    /\ Return(k, "unready")
    /\ UNCHANGED <<procs, disk, app, env>>

\* The environment: a process binds the port and answers, or exits.
ProcessReady(p) ==
    /\ app.phase # "exited" /\ procs[p].st = "up" /\ env.ext = "none" /\ \A q \in Pids : procs[q].st # "ready"
    /\ procs' = [procs EXCEPT ![p].st = "ready"]
    /\ UNCHANGED <<d, disk, calls, app, env>>

ProcessExits(p) ==
    /\ app.phase # "exited" /\ Live(p) /\ (env.bundled = "stubborn" => d.child # p \/ ~d.stopping)
    /\ procs' = [procs EXCEPT ![p].st = "dead"]
    /\ UNCHANGED <<d, disk, calls, app, env>>

\* The close event: the manager's handler runs first, then every stop() waiting
\* for this child goes on and reports "stopped".
Owns(p) == d.child = p
CloseEvent(p) ==
    /\ app.phase # "exited" /\ procs[p].st = "dead"
    /\ procs' = [procs EXCEPT ![p].st = "gone"]
    /\ LET waiting == {k \in Handlers : At(k, "stop", {"wait"}) /\ Top(k).p = p}
           closed == IF Owns(p)
                     THEN [Transition(d, IF d.stopping THEN "stopped" ELSE "crashed", TRUE)
                            EXCEPT !.child = None, !.stopping = FALSE]
                     ELSE d
       IN /\ Became(IF waiting = {} THEN closed
                    ELSE [Transition(closed, "stopped", TRUE) EXCEPT !.stopping = FALSE])
          /\ calls' = [k \in Handlers |->
                         IF k \in waiting THEN Returned(Tail(calls[k]), "ok") ELSE calls[k]]
    /\ UNCHANGED <<app, env>>

------------------------------------------------------------------------------
(* The operator's daemon commands: IPC (invokeDaemon), and the tray menu's   *)
(* (runTrayDaemonAction), which offers a part of them.                      *)

InvokeDaemon(k, op) ==
    /\ Serving /\ Free(k) /\ app' = Use(k)
    /\ \E s \in {CASE op = "start"   -> [d |-> d, st |-> EnterStart(d, <<>>)]
                  [] op = "stop"    -> EnterStop(d, <<>>)
                  [] op = "restart" -> EnterRestart(d, <<>>)
                  [] op = "attach"  -> [d |-> d, st |-> IF d.child # None THEN <<>>
                                                        ELSE <<Frame("attach", "probe")>>]} :
          (s.st # <<>> \/ s.d # d) /\ Became(s.d) /\ Step(k, s.st)
    /\ UNCHANGED <<procs, env>>

------------------------------------------------------------------------------
(* Workspaces: the registry is the source of truth, workspaceChanged makes  *)
(* the daemon follow it.                                                    *)

\* materializeRuntime(): the configuration names the workspaces and the state directory.
Materialize(ws, dir) == [ws |-> ws, dir |-> dir]

Loaded == IF disk.registry = Null THEN {} ELSE disk.registry

\* requireManagedRegistryForMutation()
RegistryForMutation == disk.registry # Null \/ disk.config = Null

\* saveWorkspace() up to the inspection: what the registry is to become.
Duplicate(w, original) == \E v \in Loaded \ original : v.id = w.id \/ v.root = w.root
SaveWorkspace(k, w, original) ==
    /\ "save" \in Ops /\ Serving /\ Free(k) /\ RegistryForMutation
    /\ original \subseteq Loaded /\ Cardinality(original) <= 1
    /\ ~Duplicate(w, original)
    /\ app' = Use(k)
    /\ Step(k, <<[Frame("save", "inspect") EXCEPT !.ws = (Loaded \ original) \cup {w}]>>)
    /\ UNCHANGED <<d, procs, disk, env>>

RemoveWorkspace(k, w) ==
    /\ "remove" \in Ops /\ Serving /\ Free(k) /\ RegistryForMutation /\ w \in Loaded
    /\ app' = Use(k)
    /\ Step(k, <<[Frame("save", "inspect") EXCEPT !.ws = Loaded \ {w}]>>)
    /\ UNCHANGED <<d, procs, disk, env>>

\* inspectRepository(): the root, its HEAD, remote and default branch exist, and it is
\* writable if that is asked for.
InspectRepository == {"ok", "invalid"}

\* applyRegistryTransaction() and the IPC handler after it: the registry is
\* written once the daemon is stable, and synchronization is queued without
\* waiting.  A repository that does not pass inspection, a conflicting daemon or
\* one that never settles ends the call.
RegistryTransaction(k) ==
    /\ At(k, "save", {"inspect"})
    /\ \/ /\ "ok" \in InspectRepository
          /\ ~Unstable /\ d.state # "incompatible" /\ ~Unmanaged(d)
          /\ disk' = [disk EXCEPT !.registry = Top(k).ws]
          /\ Step(k, <<Frame("sync", "queued")>>)
       \/ /\ "invalid" \in InspectRepository \/ Unstable \/ Unmanaged(d)
          /\ Return(k, "threw") /\ UNCHANGED disk
    /\ UNCHANGED <<d, procs, app, env>>

\* workspaceChanged(): provider connections and Public MCP calls ask for it too.
WorkspaceChanged(k) ==
    /\ "changed" \in Ops /\ Serving /\ Free(k) /\ app' = Use(k)
    /\ Step(k, <<Frame("sync", "queued")>>)
    /\ UNCHANGED <<d, procs, disk, env>>

\* enqueueMutation(): one at a time; the registry is read when its turn comes.
InSync(k) == \E i \in DOMAIN calls[k] : calls[k][i].fn = "sync" /\ calls[k][i].pc # "queued"
SyncBegins(k) ==
    /\ At(k, "sync", {"queued"}) /\ \A j \in Handlers : ~InSync(j)
    /\ Step(k, <<[Top(k) EXCEPT !.pc = "stable", !.ws = Loaded]>> \o Tail(calls[k]))
    /\ UNCHANGED <<d, procs, disk, app, env>>

SyncEnds(k, r) == app' = [app EXCEPT !.sync = r] /\ Return(k, r)

\* applyRuntime(): nothing to serve stops the daemon and removes the configuration;
\* otherwise the configuration is materialized and the manager configured with it.
SyncApplies(k) ==
    /\ At(k, "sync", {"stable"}) /\ ~Unstable
    /\ IF Unmanaged(d) THEN SyncEnds(k, "threw") /\ UNCHANGED <<d, disk>>
       ELSE IF Top(k).ws = {}
       THEN IF d.managed /\ d.state # "stopped"
            THEN Stops(k, d, calls[k]) /\ UNCHANGED app
            ELSE Goto(k, "ok") /\ UNCHANGED <<d, disk, app>>
       ELSE \/ /\ disk' = [disk EXCEPT !.config = Materialize(Top(k).ws, disk.dir)]
               /\ d' = [d EXCEPT !.plan = TRUE]
               /\ Goto(k, "stable2") /\ UNCHANGED <<app>>
            \/ SyncEnds(k, "threw") /\ UNCHANGED <<d, disk>>
    /\ UNCHANGED <<procs, env>>

\* The daemon is activated with the new configuration.
SyncActivates(k) ==
    /\ At(k, "sync", {"stable2"}) /\ ~Unstable
    /\ IF d.managed /\ d.state = "ready"
       THEN \E s \in {EnterRestart(d, calls[k])} : Became(s.d) /\ Step(k, s.st)
       ELSE /\ Step(k, IF d.state \in {"stopped", "crashed"} THEN EnterStart(d, calls[k])
                       ELSE Returned(calls[k], "unready"))
            /\ UNCHANGED <<d, disk>>
    /\ UNCHANGED <<procs, app, env>>

\* What stop(), start() or restart() returned decides how the mutation ends.
SyncResult(k) ==
    /\ At(k, "sync", {"ok", "ready", "unready", "threw"})
    /\ disk' = IF Top(k).pc = "ok" /\ Top(k).ws = {} THEN [disk EXCEPT !.config = Null] ELSE disk
    /\ SyncEnds(k, IF Top(k).pc \in {"ok", "ready"} THEN "ok" ELSE "threw")
    /\ UNCHANGED <<d, procs, env>>

\* waitForDaemonStable() runs into DAEMON_STABLE_TIMEOUT_MS.
SyncTimesOut(k) ==
    /\ At(k, "sync", {"stable", "stable2"}) /\ Unstable
    /\ SyncEnds(k, "threw")
    /\ UNCHANGED <<d, procs, disk, env>>

------------------------------------------------------------------------------
(* Migration of a legacy configuration and its state directory.  A state    *)
(* directory holds "none", "partial", "fresh", "old" (what Desktop wrote)   *)
(* or "legacy"; disk.dir is bootstrap.paths.stateDirectory.                 *)

AllowedStateStrategies ==
    IF disk.legacy = "legacy" THEN {"copy", "move", "reference", "fresh"} ELSE {"fresh"}

\* stage(): the preview offers the strategies the legacy state allows, and can be
\* applied only when every one of its repositories passed the inspection.
Preview == [strategies |-> AllowedStateStrategies, ready |-> "ok" \in InspectRepository]

AssertDaemonCanMigrate == ~Unmanaged(d) /\ ~Unstable

\* apply() up to the backup.
MigrationApply(k, strategy) ==
    /\ "migrate" \in Ops /\ Serving /\ Free(k) /\ app.mig = Null
    /\ strategy \in Preview.strategies /\ Preview.ready /\ AssertDaemonCanMigrate
    /\ app' = [Use(k) EXCEPT !.mig =
                 [strategy |-> strategy, registry |-> disk.registry, loc |-> disk.loc,
                  dir |-> disk.dir, config |-> disk.config, desk |-> disk.desk,
                  legacy |-> disk.legacy, touched |-> FALSE, result |-> "running", by |-> k,
                  alone |-> \A j \in Handlers : calls[j] = <<>>]]
    /\ Step(k, <<Frame("migrate", "backup")>>)
    /\ UNCHANGED <<d, procs, disk, env>>

\* createBackup(), then the running daemon is stopped, outside the try.
CreateBackup(k) ==
    /\ At(k, "migrate", {"backup"})
    /\ app' = [app EXCEPT !.mig.config = disk.config]
    /\ IF d.managed /\ d.state = "ready"
       THEN Stops(k, d, calls[k])
       ELSE Goto(k, "ok") /\ UNCHANGED <<d, disk>>
    /\ UNCHANGED <<procs, env>>

\* The state directory is replaced; a failing copy leaves part of it behind.
ImportState(k) ==
    /\ At(k, "migrate", {"ok", "threw"})
    /\ IF Top(k).pc = "threw"
       THEN Return(k, "threw") /\ app' = [app EXCEPT !.mig.result = "threw"] /\ UNCHANGED disk
       ELSE CASE app.mig.strategy = "reference" -> Goto(k, "commit") /\ UNCHANGED <<disk, app>>
              [] app.mig.strategy = "fresh" ->
                   /\ disk' = [disk EXCEPT !.desk = "fresh"]
                   /\ app' = [app EXCEPT !.mig.touched = TRUE] /\ Goto(k, "commit")
              [] OTHER ->
                   \/ /\ disk' = [disk EXCEPT !.desk = disk.legacy]
                      /\ app' = [app EXCEPT !.mig.touched = TRUE] /\ Goto(k, "commit")
                   \/ /\ disk' = [disk EXCEPT !.desk = "partial"]
                      /\ Goto(k, "undo") /\ UNCHANGED app
    /\ UNCHANGED <<d, procs, env>>

\* The state location, the registry and the configuration are written and the
\* daemon is started on them: applyRuntime() of the migration.
CommitImport(k) ==
    /\ At(k, "migrate", {"commit"})
    /\ LET dir == IF app.mig.strategy = "reference" THEN "legacy" ELSE "desktop" IN
       \/ /\ disk' = [disk EXCEPT !.loc = dir, !.dir = dir, !.registry = Imported,
                                  !.config = Materialize(Imported, dir)]
          /\ d' = [d EXCEPT !.plan = TRUE]
          /\ Step(k, EnterStart(d', <<[Top(k) EXCEPT !.fn = "migrated"]>> \o Tail(calls[k])))
       \/ /\ disk' = [disk EXCEPT !.loc = dir, !.dir = dir, !.registry = Imported]
          /\ Goto(k, "undo") /\ UNCHANGED d
    /\ UNCHANGED <<procs, app, env>>

\* The import is complete; "move" removes its source last.  onApplied asks for a sync.
ImportComplete(k) ==
    /\ At(k, "migrated", {"ready"})
    /\ disk' \in {disk} \cup (IF app.mig.strategy = "move"
                              THEN {[disk EXCEPT !.legacy = "none"]} ELSE {})
    /\ app' = [app EXCEPT !.mig.result = "ok"]
    /\ Step(k, <<Frame("sync", "queued")>>)
    /\ UNCHANGED <<d, procs, env>>

ImportFailed(k) ==
    /\ At(k, "migrated", {"unready", "threw"})
    /\ Step(k, <<[Top(k) EXCEPT !.fn = "migrate", !.pc = "undo"]>> \o Tail(calls[k]))
    /\ UNCHANGED <<d, procs, disk, app, env>>

\* restoreBackup(): the daemon is stopped first, whatever that returns.
RestoreBegins(k) ==
    /\ At(k, "migrate", {"undo"})
    /\ LET rest == <<[Top(k) EXCEPT !.fn = "restore"]>> \o Tail(calls[k]) IN
       IF d.managed /\ d.state # "stopped"
       THEN Stops(k, d, rest)
       ELSE Step(k, Returned(rest, "ok")) /\ UNCHANGED <<d, disk>>
    /\ UNCHANGED <<procs, app, env>>

\* A directory that did not exist before has no backup and is left as it is.
\* Mutation: the state directory of before is not copied back.
RestoredDirectoriesLegacyOnly(m) ==
    [desk |-> IF m.touched /\ m.dir # "desktop" THEN "none" ELSE disk.desk,
     legacy |-> IF m.strategy = "reference" /\ m.legacy # "none" THEN m.legacy ELSE disk.legacy]
RestoredDirectories(m) ==
    LET legacy == IF m.strategy = "reference" /\ m.legacy # "none" THEN m.legacy ELSE disk.legacy
        live == IF m.dir = "legacy" THEN m.legacy ELSE m.desk
        desk == IF m.touched /\ m.dir # "desktop" THEN "none" ELSE disk.desk
    IN [desk |-> IF m.dir = "desktop" /\ live # "none" THEN live ELSE desk,
        legacy |-> IF m.dir = "legacy" /\ live # "none" THEN live ELSE legacy]

RestoreBackup(k) ==
    /\ At(k, "restore", {"ok", "threw"})
    /\ LET m == app.mig
           r == RestoredDirectories(m) IN
       \/ /\ disk' = [disk EXCEPT !.desk = r.desk, !.legacy = r.legacy, !.loc = m.loc,
                                  !.dir = m.dir, !.registry = m.registry, !.config = m.config]
          /\ app' = [app EXCEPT !.mig.result = "restored"]
       \/ /\ disk' = [disk EXCEPT !.desk = r.desk]      \* a later write fails; swallowed
          /\ app' = [app EXCEPT !.mig.result = "threw"]
    /\ Return(k, "threw")
    /\ UNCHANGED <<d, procs, env>>

------------------------------------------------------------------------------
(* Bootstrap and quit (main.ts).                                            *)

\* existingDaemonLaunchPlan(), then workspaceChanged() when there are workspaces.
BootstrapPlan ==
    /\ At(1, "boot", {"plan"})
    /\ LET plan == Loaded # {} \/ (disk.registry = Null /\ disk.config # Null) IN
       /\ d' = [d EXCEPT !.plan = plan]
       /\ disk' = IF Loaded # {} THEN [disk EXCEPT !.config = Materialize(Loaded, disk.dir)] ELSE disk
       /\ Step(1, IF Loaded # {} THEN <<Frame("sync", "queued")>> \o calls[1]
                  ELSE <<[Top(1) EXCEPT !.pc = "ok"]>>)
    /\ UNCHANGED <<procs, app, env>>

\* The managed daemon is started if there is a plan and it is not running yet.
BootstrapStart ==
    /\ At(1, "boot", {"ok"})
    /\ Step(1, IF d.plan /\ d.state = "stopped"
               THEN EnterStart(d, <<Frame("booted", "rest")>>) ELSE <<Frame("booted", "rest")>>)
    /\ UNCHANGED <<d, procs, disk, app, env>>

BootstrapReady ==
    /\ At(1, "booted", {"rest", "ready", "unready", "threw"})
    /\ app' = [app EXCEPT !.phase = IF @ = "boot" THEN "running" ELSE @]
    /\ Step(1, <<>>)
    /\ UNCHANGED <<d, procs, disk, env>>

\* Anything that throws makes main drop every manager, a running daemon's too.
BootstrapFails ==
    /\ At(1, "boot", {"threw"}) \/ At(1, "booted", {"rest", "ready", "unready", "threw"})
    /\ app' = [app EXCEPT !.phase = IF @ = "boot" THEN "running" ELSE @, !.held = FALSE]
    /\ Step(1, <<>>)
    /\ UNCHANGED <<d, procs, disk, env>>

\* before-quit: what to stop is decided before anything is shut down.
\* Mutation: only a ready daemon is stopped on quit.
ManagedDaemonReady == app.held /\ d.managed /\ d.state = "ready"
ManagedDaemon == app.held /\ d.managed /\ d.state # "stopped"
Quit(k) ==
    /\ app.phase \in {"boot", "running"} /\ Free(k)
    /\ app' = [Use(k) EXCEPT !.phase = "quitting",
                             !.alone = \A j \in Handlers : calls[j] = <<>>]
    /\ Step(k, <<Frame("quit", IF ManagedDaemon THEN "daemon" ELSE "ok")>>)
    /\ UNCHANGED <<d, procs, disk, env>>

\* shutdownForQuit(): the daemon is stopped, and only then the exit is marked clean.
QuitStops(k) ==
    /\ At(k, "quit", {"daemon"})
    /\ Stops(k, d, calls[k])
    /\ UNCHANGED <<procs, app, env>>

MarkClean(k) ==
    /\ At(k, "quit", {"ok", "threw"})
    /\ disk' = [disk EXCEPT !.marker = "clean"]
    /\ Goto(k, "marked")
    /\ UNCHANGED <<d, procs, app, env>>

Exit(k) ==
    /\ At(k, "quit", {"marked"})
    /\ app' = [app EXCEPT !.phase = "exited"]
    /\ calls' = [j \in Handlers |-> <<>>]
    /\ UNCHANGED <<d, procs, disk, env>>

------------------------------------------------------------------------------
\* What earlier sessions left: a registry with its configuration, an unmanaged
\* configuration, or nothing; Desktop's own state or a referenced legacy one.
Init ==
    /\ d = [child |-> None, state |-> "stopped", managed |-> FALSE, stopping |-> FALSE,
            plan |-> FALSE]
    /\ procs = [p \in Pids |-> [st |-> "unused", serves |-> Null, met |-> {}]]
    /\ env \in Launches
    /\ \E reg \in {Null} \cup (Left \cap Registry), dir \in {"desktop", "legacy"}, desk \in {"old", "none"} :
         /\ dir = "legacy" => desk = "old"
         /\ env # [ext |-> "none", bundled |-> "same"] \/ "migrate" \notin Ops
               => dir = "desktop" /\ desk = "old"
         /\ disk = [registry |-> reg, config |-> IF reg \in {Null, {}} THEN Null ELSE Materialize(reg, dir),
                    loc |-> IF dir = "legacy" THEN "legacy" ELSE Null, dir |-> dir,
                    desk |-> desk, legacy |-> "legacy", marker |-> "running"]
    /\ calls = [k \in Handlers |-> IF k = 1 THEN <<Frame("boot", "plan")>> ELSE <<>>]
    /\ app = [phase |-> "boot", held |-> TRUE, used |-> {1}, sync |-> "none", mig |-> Null,
            alone |-> FALSE]

Next ==
    \/ \E k \in {j \in Handlers : calls[j] # <<>>} :
         \/ StartProbed(k) \/ StartSpawned(k) \/ StartReady(k) \/ StartOld(k) \/ StartFails(k)
         \/ StartFailed(k) \/ RestartStopped(k) \/ StopStuck(k) \/ AttachProbed(k)
         \/ RegistryTransaction(k) \/ SyncBegins(k) \/ SyncApplies(k)
         \/ SyncActivates(k) \/ SyncResult(k) \/ SyncTimesOut(k)
         \/ CreateBackup(k) \/ ImportState(k) \/ CommitImport(k) \/ ImportComplete(k)
         \/ ImportFailed(k) \/ RestoreBegins(k) \/ RestoreBackup(k)
         \/ QuitStops(k) \/ MarkClean(k) \/ Exit(k)
    \/ \E k \in {j \in Handlers : Free(j)} :
         \/ \E op \in Ops \cap {"start", "stop", "restart", "attach"} : InvokeDaemon(k, op)
         \/ \E w \in Candidates, o \in {{}} \cup {{v} : v \in Loaded} : SaveWorkspace(k, w, o)
         \/ \E w \in Loaded : RemoveWorkspace(k, w)
         \/ WorkspaceChanged(k)
         \/ \E s \in {"copy", "move", "reference", "fresh"} : MigrationApply(k, s)
         \/ Quit(k)
    \/ \E p \in Pids : ProcessReady(p) \/ ProcessExits(p) \/ CloseEvent(p)
    \/ BootstrapPlan \/ BootstrapStart \/ BootstrapReady \/ BootstrapFails

Spec == Init /\ [][Next]_vars

------------------------------------------------------------------------------
AtRest == \A k \in Handlers : calls[k] = <<>>

\* Every daemon process this Desktop spawned and that still runs is the manager's
\* child, so that stop() can reach it.  Only a process that was spawned while another
\* start() was past its check can be replaced as the child (daemon-manager.ts:111-153).
NoStrayDaemon ==
    \A p \in Pids : Live(p) => d.child = p \/ "start" \in procs[p].met

\* After the application has quit no daemon it spawned is left running.  Excepted,
\* process by process: one that was spawned while another start, an attach, the stop of
\* an older process or the quit was under way (QuitStopsManagedChild shows what
\* becomes of it), one that survived SIGKILL, and those of a failed bootstrap, which
\* makes main drop the manager.
QuitLeavesNoDaemon ==
    app.phase = "exited" /\ app.held
        => \A p \in Pids : procs[p].met = {} => ~Live(p)

\* A quit at rest, with no other call until the exit, is remembered as a clean one,
\* although stopping the daemon writes the marker too and its processes may exit at
\* any step in between.
CleanExitIsRemembered ==
    app.phase = "exited" /\ app.alone /\ (\A p \in Pids : procs[p].met = {})
        => disk.marker = "clean"

\* docs/desktop-daemon-lifecycle.md says that the managed child is shut down before
\* Electron exits; a start() that before-quit found probing spawns one all the same.
QuitStopsManagedChild ==
    app.phase = "exited" /\ app.held /\ d.managed /\ d.child # None
        => ~Live(d.child) \/ "stuck" \in procs[d.child].met

\* When nothing is in progress and the last synchronization succeeded, the
\* configuration on disk is that of the registry and of the current state directory,
\* and it is the one a ready daemon serves:
\* however many changes, restarts and imports overlapped.  Excepted: an import that
\* failed and could not be restored or had company, and a start slipped in between
\* the stop and the removal of the configuration of the last workspace.
DaemonFollowsRegistry ==
    /\ AtRest /\ Serving /\ app.sync = "ok"
    /\ app.mig = Null \/ app.mig.result = "ok" \/ (app.mig.result = "restored" /\ app.mig.alone)
    => /\ disk.config = IF Loaded = {} THEN Null ELSE Materialize(Loaded, disk.dir)
       /\ Loaded # {} /\ d.state = "ready" /\ d.managed => procs[d.child].serves = disk.config

\* An import that failed and was restored leaves the registry, the configuration,
\* the state location, the live state directory and the legacy state as they were,
\* at whichever step it failed.  Excepted: a change made by another handler while it
\* ran, and a Desktop whose state directory did not exist yet: there is no backup
\* of it, and what was copied stays (migration-manager.ts:360-407).
FailedImportIsUndone ==
    LET m == app.mig IN
    /\ m # Null
    /\ m.result = "restored" /\ m.alone /\ \A k \in app.used : k <= m.by
    => /\ disk.registry = m.registry /\ disk.config = m.config
       /\ disk.loc = m.loc /\ disk.dir = m.dir /\ disk.legacy = m.legacy
       /\ m.dir = "desktop" /\ m.desk # "none" => disk.desk = m.desk

\* No daemon is left that the application does not know of, not when it quits
\* either, and an orderly exit is remembered as one -- but for the calls that overlap a
\* start, which the parts name.
DaemonIsAccounted == NoStrayDaemon /\ QuitLeavesNoDaemon /\ CleanExitIsRemembered

\* The daemon serves the workspaces that are registered, and an import that failed
\* has registered none.
RegistryIsServed == DaemonFollowsRegistry /\ FailedImportIsUndone
=============================================================================
