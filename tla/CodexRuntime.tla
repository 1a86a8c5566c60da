----------------------------- MODULE CodexRuntime -----------------------------
(***************************************************************************)
(* The native Codex lane of the desktop application: CodexHarnessRuntime,  *)
(* CodexThinRunner, CodexSkillActivator, CodexRuntimePool,                 *)
(* CodexThreadStore and CodexAppServerHost (desktop/src/main/codex-*.ts).  *)
(*                                                                         *)
(* A harness run is bound to a Codex thread; a turn of the run is served   *)
(* by an app-server process (a host) that is attached to that thread.  At  *)
(* most MaxRuntimes hosts stay warm, the least recently used idle one is   *)
(* evicted.  All of this is one Node process: code between two awaits of   *)
(* I/O is one step, and what a rejected promise sets off (the finally      *)
(* blocks of the calls that waited on it) belongs to the step that         *)
(* rejected it.                                                            *)
(***************************************************************************)
EXTENDS Naturals, Sequences, FiniteSets, SequencesExt

CONSTANTS
    Requests,      \* calls that may be open at the same time
    Runs,          \* harness runs of one workspace
    Threads,       \* ids that Codex can give to threads
    Hosts,         \* bound: hosts that exist at the same time
    MaxRuntimes,   \* CodexRuntimePoolOptions.maxRuntimes
    MaxCalls,      \* bound: calls that are made
    MaxFaults,     \* bound: host exits, failing writes, crashes, refused requests
    MaxPolls,      \* bound: approval callbacks of a run held open
    None           \* null

VARIABLES
    daemonRun,   \* daemonRun[r]: "running" or "terminal", the daemon's view
    bindings,    \* CodexThreadStore.bindings: run -> thread
    file,        \* the registry on disk
    queue,       \* CodexThreadStore.writeQueue: snapshots not yet written
    runtimes,    \* CodexRuntimePool.runtimes: run -> host of the entry
    usedBefore,  \* RuntimeEntry.lastUsed: pairs of hosts, the first used earlier
    writers,     \* CodexRuntimePool.activeThreadWriters: thread -> run
    hosts,       \* every CodexAppServerHost with its entry's busy flag
    native,      \* Codex: "unborn", "stored" or "deleted" per thread
    nwriter,     \* Codex: who has a turn in progress in the thread
    skillDir,    \* runs with a materialized skill directory
    releasing,   \* skill directories that are about to be removed
    polls,       \* CodexHarnessRuntime.pendingApprovalCounts, per run
    cancelled,   \* CodexHarnessRuntime.cancelledRuns
    req,         \* the open calls
    calls, faults,
    overlapped   \* history: runs of which two calls have been open at once

poolVars == <<bindings, runtimes, usedBefore, writers, hosts>>
vars == <<daemonRun, bindings, file, queue, runtimes, usedBefore, writers, hosts,
          native, nwriter, skillDir, releasing, polls, cancelled, req, calls,
          faults, overlapped>>

Ops == {"none", "turn", "resume", "conversation", "clear"}
Stages == {"idle", "loaded", "activated", "wait", "evict", "attach", "persist",
           "busy", "configure", "turn", "asked", "dropped", "freed", "refused",
           "answer", "read", "coldRead", "discard", "clear", "deleted",
           "unbound", "cleaning"}

\* One app-server process and the pool entry made for it.  A fresh process was
\* started in place of one that exited and has not loaded the thread.
Host == [state : {"none", "live", "exited", "fresh"}, thread : Threads \cup {None},
         busy : BOOLEAN]
NoHost == [state |-> "none", thread |-> None, busy |-> FALSE]
\* A call: the run, the thread it works on (the captured binding, or the thread
\* asked for) and the host it has in hand.
NoCall == [op |-> "none", stage |-> "idle", run |-> None, thread |-> None,
           host |-> None]
Lingering == "lingering"

\* The state keeps its shape through every call, crash and shutdown.
TypeOK ==
    /\ daemonRun \in [Runs -> {"running", "terminal"}]
    /\ bindings \in [Runs -> Threads \cup {None}]
    /\ file \in [Runs -> Threads \cup {None}]
    /\ queue \in Seq([snapshot : [Runs -> Threads \cup {None}],
                      by : Requests \cup {None}])
    /\ runtimes \in [Runs -> Hosts \cup {None}]
    /\ usedBefore \subseteq Hosts \X Hosts
    /\ writers \in [Threads -> Runs \cup {None}]
    /\ hosts \in [Hosts -> Host]
    /\ native \in [Threads -> {"unborn", "stored", "deleted"}]
    /\ nwriter \in [Threads -> Hosts \cup {None, Lingering}]
    /\ skillDir \subseteq Runs
    /\ releasing \subseteq [run : Runs, by : Requests \cup {None}]
    /\ polls \in [Runs -> 0..MaxPolls]
    /\ cancelled \subseteq Runs
    /\ req \in [Requests ->
          [op : Ops, stage : Stages, run : Runs \cup {None},
           thread : Threads \cup {None}, host : Hosts \cup {None}]]
    /\ calls \in 0..MaxCalls
    /\ faults \in 0..MaxFaults
    /\ overlapped \subseteq Runs

Init ==
    /\ daemonRun = [r \in Runs |-> "running"]
    /\ bindings = [r \in Runs |-> None]
    /\ file = bindings
    /\ queue = <<>>
    /\ runtimes = [r \in Runs |-> None]
    /\ usedBefore = {}
    /\ writers = [t \in Threads |-> None]
    /\ hosts = [h \in Hosts |-> NoHost]
    /\ native = [t \in Threads |-> "unborn"]
    /\ nwriter = [t \in Threads |-> None]
    /\ skillDir = {}
    /\ releasing = {}
    /\ polls = [r \in Runs |-> 0]
    /\ cancelled = {}
    /\ req = [q \in Requests |-> NoCall]
    /\ calls = 0
    /\ faults = 0
    /\ overlapped = {}

-----------------------------------------------------------------------------
(* The parts of the pool that the calls share.                             *)

Registered == {runtimes[r] : r \in Runs} \ {None}

\* Requests in their try block on host h: they hold the thread's writer.
Holding(h) ==
    {q \in Requests : req[q].host = h /\ req[q].stage \in {"configure", "turn"}}
\* Requests that wait for an answer of host h outside of a turn.
Attaching(h) ==
    {q \in Requests : req[q].host = h /\ req[q].stage = "attach"}

\* The order of use without some hosts, and with one that is used last of all.
Untracked(gone) == {u \in usedBefore : u[1] \notin gone /\ u[2] \notin gone}
Touch(h) == Untracked({h}) \cup {<<x, h>> : x \in Registered \ {h}}
\* A new entry has just been used.
Tracked(h) == IF h \in Registered THEN usedBefore ELSE Touch(h)

\* releaseThreadWriter: only the run that owns the writer releases it.
ReleaseThreadWriter(w, t, r) ==
    IF t # None /\ w[t] = r THEN [w EXCEPT ![t] = None] ELSE w

\* The host is shut down: shutdown() rejects its turn and closes its rpc, so
\* the calls that hold it end; the process may linger until SIGKILL.
ShutDown(gone) ==
    /\ hosts' = [h \in Hosts |-> IF h \in gone THEN NoHost ELSE hosts[h]]
    /\ nwriter' = [t \in Threads |->
                     IF nwriter[t] \in gone \ {None} THEN Lingering ELSE nwriter[t]]
    /\ usedBefore' = Untracked(gone)

\* enqueueWrite: the snapshot is taken now and written after the earlier ones.
\* Mutation: the registry as it was when the queue was last empty.
EnqueueStale(snapshot, q) ==
    queue' = Append(queue, [snapshot |-> IF queue = <<>> THEN snapshot
                                         ELSE Head(queue).snapshot, by |-> q])
EnqueueWrite(snapshot, q) ==
    queue' = Append(queue, [snapshot |-> snapshot, by |-> q])
\* remove: nothing is written when nothing was bound.
RemoveBinding(r) ==
    /\ bindings' = [bindings EXCEPT ![r] = None]
    /\ IF bindings[r] = None THEN UNCHANGED queue
       ELSE EnqueueWrite(bindings', None)

\* rebind: the run takes the thread away from every other run.
Rebind(r, t) ==
    [x \in Runs |-> IF x = r THEN t
                    ELSE IF bindings[x] = t THEN None ELSE bindings[x]]

\* acquireThreadWriter and the busy flag: the call enters its try block.
AcquireThreadWriter(q, h, t, w, hs) ==
    /\ ~ hs[h].busy
    /\ w[t] = None
    /\ writers' = [w EXCEPT ![t] = req[q].run]
    /\ hosts' = [hs EXCEPT ![h].busy = TRUE]
    /\ usedBefore' = Touch(h)
    /\ req' = [req EXCEPT ![q].stage = "configure", ![q].thread = t,
                          ![q].host = h]

\* The call has an entry: it waits while the entry is busy, fails when another
\* run has the thread, and starts otherwise.
UseEntry(q, h, t, hs) ==
    \/ AcquireThreadWriter(q, h, t, writers, hs)
    \/ /\ hs[h].busy
       /\ req' = [req EXCEPT ![q].stage = "busy", ![q].thread = t,
                             ![q].host = h]
       /\ hosts' = hs
       /\ usedBefore' = Tracked(h)
       /\ UNCHANGED writers
    \/ /\ ~ hs[h].busy
       /\ writers[t] # None
       /\ req' = [req EXCEPT ![q] = NoCall]
       /\ hosts' = hs
       /\ usedBefore' = Tracked(h)
       /\ UNCHANGED writers

\* hostFactory and the request that attaches the new host to a thread.
NewHost(q, t) ==
    \E h \in Hosts :
        /\ hosts[h].state = "none"
        /\ \A x \in Requests : req[x].host # h
        /\ hosts' = [hosts EXCEPT ![h] = [NoHost EXCEPT !.state = "live"]]
        /\ req' = [req EXCEPT ![q].stage = "attach", ![q].thread = t,
                              ![q].host = h]

\* makeCapacity: nothing to do, or the least recently used idle entry goes, or
\* the call fails because every entry is busy.
MakeCapacity(q, t) ==
    LET idle == {h \in Registered : ~ hosts[h].busy}
    IN
    \/ /\ Cardinality(Registered) < MaxRuntimes
       /\ NewHost(q, t)
       /\ UNCHANGED <<runtimes, usedBefore, writers, nwriter>>
    \/ /\ Cardinality(Registered) >= MaxRuntimes
       /\ \E h \in idle, r \in Runs :
             /\ runtimes[r] = h
             /\ \A x \in idle : <<x, h>> \notin usedBefore
             /\ runtimes' = [runtimes EXCEPT ![r] = None]
             /\ writers' = ReleaseThreadWriter(writers, hosts[h].thread, r)
             /\ ShutDown({h})
       /\ req' = [req EXCEPT ![q].stage = "evict", ![q].thread = t]
    \/ /\ Cardinality(Registered) >= MaxRuntimes
       /\ idle = {}
       /\ req' = [req EXCEPT ![q] = NoCall]
       /\ UNCHANGED <<runtimes, usedBefore, writers, hosts, nwriter>>

-----------------------------------------------------------------------------
(* A turn.                                                                 *)

\* requireRunnable: a run that is not running (or stale, or held up by an
\* approval or a mutation of unknown outcome) gets no turn.
RequireRunnable(r) == daemonRun[r] = "running"

\* CodexHarnessRuntime.run: loadRun and requireRunnable look at the daemon once.
Run(q, r) ==
    /\ req[q] = NoCall
    /\ calls < MaxCalls
    /\ RequireRunnable(r)
    /\ req' = [req EXCEPT ![q] = [NoCall EXCEPT !.op = "turn",
                                  !.stage = "loaded", !.run = r]]
    /\ calls' = calls + 1
    /\ UNCHANGED <<daemonRun, bindings, file, queue, runtimes, usedBefore, writers,
                   hosts, native, nwriter, skillDir, releasing, polls, cancelled, faults>>

\* materialize: the run's skill directory is replaced as a whole.
Materialize(r) == skillDir' = skillDir \cup {r}

\* CodexThinRunner.run with CodexSkillActivator.activate or restore: the pinned
\* skills are projected into the run's own directory before the pool is asked; a
\* run that names none and has no directory goes without.  A skill that cannot be
\* read ends the call, with the directory there or not.
Activate(q) ==
    /\ req[q].op = "turn" /\ req[q].stage = "loaded"
    /\ cancelled' = cancelled \ {req[q].run}
    /\ \/ /\ Materialize(req[q].run)
          /\ req' = [req EXCEPT ![q].stage = "activated"]
       \/ /\ req[q].run \notin skillDir
          /\ UNCHANGED skillDir
          /\ req' = [req EXCEPT ![q].stage = "activated"]
       \/ /\ faults < MaxFaults
          /\ skillDir' \in {skillDir, skillDir \cup {req[q].run}}
          /\ req' = [req EXCEPT ![q] = NoCall]
    /\ faults' = IF req'[q] = NoCall THEN faults + 1 ELSE faults
    /\ UNCHANGED <<daemonRun, bindings, file, queue, runtimes, usedBefore, writers,
                   hosts, native, nwriter, releasing, polls, calls>>

\* runtimeFor: the warm entry of the run with its binding, or a new host.
RuntimeFor(q, stored) ==
    LET r == req[q].run
        h == runtimes[r]
        t == IF stored # None THEN stored ELSE bindings[r]
    IN \/ /\ h # None
          /\ t # None
          /\ UseEntry(q, h, t, hosts)
          /\ UNCHANGED <<runtimes, nwriter>>
       \/ /\ h # None
          /\ t = None
          /\ req' = [req EXCEPT ![q] = NoCall]
          /\ UNCHANGED <<runtimes, usedBefore, writers, hosts, nwriter>>
       \/ /\ h = None
          /\ MakeCapacity(q, stored)

\* CodexRuntimePool.runTurn up to its first wait: the binding is read here and
\* the call waits while another turn writes to its thread.
PoolRunTurn(q) ==
    LET stored == IF req[q].stage = "activated" THEN bindings[req[q].run]
                  ELSE req[q].thread
    IN /\ req[q].op = "turn" /\ req[q].stage \in {"activated", "wait"}
       /\ \/ /\ stored # None
             /\ writers[stored] # None
             /\ req[q].stage = "activated"
             /\ req' = [req EXCEPT ![q].stage = "wait", ![q].thread = stored]
             /\ UNCHANGED <<runtimes, usedBefore, writers, hosts, nwriter>>
          \/ /\ stored # None => writers[stored] = None
             /\ RuntimeFor(q, stored)
       /\ UNCHANGED <<daemonRun, bindings, file, queue, native, skillDir, releasing, polls,
                      cancelled, calls, faults>>

\* makeCapacity goes on after the shutdown it awaited: no second look.
Evicted(q) ==
    /\ req[q].stage = "evict"
    /\ NewHost(q, req[q].thread)
    /\ UNCHANGED <<daemonRun, bindings, file, queue, runtimes, usedBefore, writers,
                   native, nwriter, skillDir, releasing, polls, cancelled, calls, faults>>

\* store.bind: a run keeps the thread it has.
Bind(r, t) ==
    /\ bindings[r] \in {None, t}
    /\ bindings' = [bindings EXCEPT ![r] = t]

\* startThread answers with a new thread; store.bind refuses a second thread
\* for the run and otherwise waits for the registry to be written.
StartThread(q, t) ==
    LET r == req[q].run  h == req[q].host
    IN /\ req[q].op = "turn" /\ req[q].stage = "attach"
       /\ req[q].thread = None
       /\ native[t] = "unborn"
       /\ native' = [native EXCEPT ![t] = "stored"]
       /\ \/ /\ Bind(r, t)
             /\ hosts' = [hosts EXCEPT ![h].thread = t]
             /\ EnqueueWrite(bindings', q)
             /\ req' = [req EXCEPT ![q].stage = "persist", ![q].thread = t]
             /\ UNCHANGED <<usedBefore, nwriter>>
          \/ /\ bindings[r] \notin {None, t}
             /\ ShutDown({h})
             /\ req' = [req EXCEPT ![q] = NoCall]
             /\ UNCHANGED <<bindings, queue>>
       /\ UNCHANGED <<daemonRun, file, runtimes, writers, skillDir, releasing, polls,
                      cancelled, calls, faults>>

\* resumeThreadWhenWritable (a turn) answers when no process writes to the
\* thread; the entry is registered under the run, whatever is there by now.
ResumeForTurn(q) ==
    LET h == req[q].host  t == req[q].thread
    IN /\ req[q].op = "turn" /\ req[q].stage = "attach" /\ t # None
       /\ native[t] = "stored" /\ nwriter[t] = None
       /\ runtimes' = [runtimes EXCEPT ![req[q].run] = h]
       /\ UseEntry(q, h, t, [hosts EXCEPT ![h].thread = t])
       /\ UNCHANGED <<daemonRun, bindings, file, queue, native, nwriter,
                      skillDir, releasing, polls, cancelled, calls, faults>>

\* The awaited entry is free: waitForThreadWriter, then the second busy check.
EntryFree(q) ==
    LET h == req[q].host  t == req[q].thread
    IN /\ req[q].stage = "busy"
       /\ writers[t] = None
       /\ \/ AcquireThreadWriter(q, h, t, writers, hosts)
          \/ /\ hosts[h].busy
             /\ req' = [req EXCEPT ![q] = NoCall]
             /\ UNCHANGED <<writers, hosts, usedBefore>>
       /\ UNCHANGED <<daemonRun, bindings, file, queue, runtimes, native,
                      nwriter, skillDir, releasing, polls, cancelled, calls, faults>>

\* The finally block of runTurn.
\* Mutation: the writer is released on success only.
TurnOverKeepsWriter(q, hs) ==
    LET h == req[q].host
    IN /\ hosts' = [hs EXCEPT ![h].busy = FALSE]
       /\ usedBefore' = IF h \in Registered THEN Touch(h) ELSE usedBefore
       /\ req' = [req EXCEPT ![q] = NoCall]
       /\ UNCHANGED writers
TurnOver(q, hs) ==
    LET h == req[q].host
    IN /\ hosts' = [hs EXCEPT ![h].busy = FALSE]
       /\ writers' = ReleaseThreadWriter(writers, req[q].thread, req[q].run)
       /\ usedBefore' = IF h \in Registered THEN Touch(h) ELSE usedBefore
       /\ req' = [req EXCEPT ![q] = NoCall]

\* ensureProcess: a host that was not shut down starts a process again.
EnsureProcess(h) ==
    [hosts EXCEPT ![h].state = IF @ = "exited" THEN "fresh" ELSE @]

\* configureSkills, assertSkillsAvailable and turn/start: configureSkills starts
\* an exited process again, so runTurn finds one and does not resume the thread
\* (CodexTransport follows this); Codex loads the thread for the turn, or refuses.
TurnStart(q) ==
    LET h == req[q].host  t == hosts[h].thread
    IN /\ req[q].stage = "configure"
       /\ hosts[h].state # "none"
       /\ hosts' = [hosts EXCEPT ![h].state = "live"]
       /\ native[t] = "stored" /\ nwriter[t] = None
       /\ nwriter' = [nwriter EXCEPT ![t] = h]
       /\ req' = [req EXCEPT ![q].stage = "turn"]
       /\ UNCHANGED <<daemonRun, bindings, file, queue, runtimes, usedBefore,
                      writers, native, skillDir, releasing, polls, cancelled,
                      calls, faults>>

\* A step of the try block fails: a skill that Codex does not know, a host that
\* was shut down, a thread that is gone, not loaded or being written, a failed
\* turn; the process may have been started again by then.
TurnFails(q) ==
    LET h == req[q].host
    IN /\ req[q].stage \in {"configure", "turn"}
       /\ nwriter' = [t \in Threads |-> IF nwriter[t] = h THEN None
                                        ELSE nwriter[t]]
       /\ (TurnOver(q, hosts) \/ TurnOver(q, EnsureProcess(h)))
       /\ UNCHANGED <<daemonRun, bindings, file, queue, runtimes, native,
                      skillDir, releasing, polls, cancelled, calls, faults>>

\* turn-completed arrives: runTurn answers and its finally block runs.
TurnCompletes(q) ==
    LET h == req[q].host
    IN /\ req[q].stage = "turn"
       /\ hosts[h].state = "live"
       /\ nwriter' = [nwriter EXCEPT ![hosts[h].thread] = None]
       /\ TurnOver(q, hosts)
       /\ UNCHANGED <<daemonRun, bindings, file, queue, runtimes, native,
                      skillDir, releasing, polls, cancelled, calls, faults>>

-----------------------------------------------------------------------------
(* Native approvals.                                                       *)

\* handleServerRequest: the app-server asks during a turn, the callback is held
\* open and counted for its run.
AskApproval(q) ==
    LET r == req[q].run
    IN /\ req[q].stage = "turn"
       /\ hosts[req[q].host].state = "live"
       /\ RequireRunnable(r)
       /\ polls[r] < MaxPolls
       /\ polls' = [polls EXCEPT ![r] = @ + 1]
       /\ UNCHANGED <<daemonRun, bindings, file, queue, runtimes, usedBefore,
                      writers, hosts, native, nwriter, skillDir, releasing,
                      cancelled, req, calls, faults>>

\* One round of waitForNativeApproval that ends it: denied because the run was
\* cancelled, or whatever the ledger (or the time limit) says.
PollEnds(r) ==
    /\ polls[r] > 0
    /\ polls' = [polls EXCEPT ![r] = @ - 1]
    /\ cancelled' = IF polls[r] = 1 THEN cancelled \ {r} ELSE cancelled
    /\ UNCHANGED <<daemonRun, bindings, file, queue, runtimes, usedBefore, writers,
                   hosts, native, nwriter, skillDir, releasing, req, calls, faults>>

-----------------------------------------------------------------------------
(* Conversations.                                                          *)

\* CodexHarnessRuntime.resumeConversation: the daemon is looked at once.
AskResume(q, r, t) ==
    /\ req[q] = NoCall
    /\ calls < MaxCalls
    /\ native[t] # "unborn"
    /\ RequireRunnable(r)
    /\ calls' = calls + 1
    /\ req' = [req EXCEPT ![q] = [op |-> "resume", stage |-> "asked", run |-> r,
                                  thread |-> t, host |-> None]]
    /\ UNCHANGED <<daemonRun, bindings, file, queue, runtimes, usedBefore, writers,
                   hosts, native, nwriter, skillDir, releasing, polls, cancelled,
                   faults>>

\* The run is only rebound to the thread; the answer waits for the registry.
RebindOnly(q, t) ==
    /\ bindings' = Rebind(req[q].run, t)
    /\ EnqueueWrite(bindings', q)
    /\ req' = [req EXCEPT ![q].stage = "answer", ![q].thread = t]
    /\ UNCHANGED <<runtimes, usedBefore, hosts, nwriter>>

\* The pool's resumeConversation: a busy runtime of the run is kept and only
\* rebound, an idle one leaves the map and is shut down first.
ResumeConversation(q) ==
    LET r == req[q].run
        h == runtimes[r]
    IN /\ req[q].stage = "asked"
       /\ \/ /\ h # None /\ hosts[h].busy
             /\ RebindOnly(q, IF hosts[h].thread # None THEN hosts[h].thread
                              ELSE req[q].thread)
          \/ /\ h # None => ~ hosts[h].busy
             /\ runtimes' = [runtimes EXCEPT ![r] = None]
             /\ ShutDown({h})
             /\ req' = [req EXCEPT ![q].stage = "dropped"]
             /\ UNCHANGED <<bindings, queue>>
       /\ UNCHANGED <<daemonRun, file, writers, native, skillDir, releasing, polls,
                      cancelled, calls, faults>>

\* The rest of resumeConversation up to the new host: a thread that is being
\* written is only rebound, an idle runtime of another run is taken over.  The
\* duplicate is the first entry that find meets, in an order left open here.
ResumeOnHost(q) ==
    LET t == req[q].thread
        same == {h \in Registered : hosts[h].thread = t}
    IN /\ req[q].stage = "dropped"
       /\ \/ /\ writers[t] # None \/ \E duplicate \in same : hosts[duplicate].busy
             /\ RebindOnly(q, t)
             /\ UNCHANGED writers
          \/ /\ writers[t] = None
             /\ \E duplicate \in same, x \in Runs :
                   /\ ~ hosts[duplicate].busy
                   /\ runtimes[x] = duplicate
                   /\ runtimes' = [runtimes EXCEPT ![x] = None]
                   /\ ShutDown({duplicate})
             /\ req' = [req EXCEPT ![q].stage = "freed"]
             /\ UNCHANGED <<bindings, queue, writers>>
          \/ /\ writers[t] = None
             /\ same = {}
             /\ MakeCapacity(q, t)
             /\ UNCHANGED <<bindings, queue>>
       /\ UNCHANGED <<daemonRun, file, native, skillDir, releasing, polls,
                      cancelled, calls, faults>>

\* The duplicate is gone: makeCapacity, without a second look at the thread.
DuplicateGone(q) ==
    /\ req[q].stage = "freed"
    /\ MakeCapacity(q, req[q].thread)
    /\ UNCHANGED <<daemonRun, bindings, file, queue, native, skillDir, releasing,
                   polls, cancelled, calls, faults>>

\* resumeThread answered for a resume and the history was read: the run is
\* rebound.  A thread with an active writer needs no host.
ResumeAttached(q) ==
    LET h == req[q].host  t == req[q].thread
    IN /\ req[q].op = "resume" /\ req[q].stage = "attach"
       /\ native[t] = "stored"
       /\ \/ /\ nwriter[t] = None
             /\ bindings' = Rebind(req[q].run, t)
             /\ EnqueueWrite(bindings', q)
             /\ hosts' = [hosts EXCEPT ![h].thread = t]
             /\ req' = [req EXCEPT ![q].stage = "persist"]
             /\ UNCHANGED <<usedBefore, nwriter>>
          \/ /\ nwriter[t] # None
             /\ ShutDown({h})
             /\ req' = [req EXCEPT ![q].stage = "refused", ![q].host = None]
             /\ UNCHANGED <<bindings, queue>>
       /\ UNCHANGED <<daemonRun, file, runtimes, writers, native, skillDir,
                      releasing, polls, cancelled, calls, faults>>

\* The catch block goes on when that host has ended: the run is rebound.
ResumeRefused(q) ==
    /\ req[q].stage = "refused"
    /\ RebindOnly(q, req[q].thread)
    /\ UNCHANGED <<daemonRun, file, writers, native, skillDir, releasing, polls,
                   cancelled, calls, faults>>

\* conversation: the history of the bound thread, read by the warm host of the
\* run, which starts its process again if need be, or by a host of its own.
Conversation(q, r) ==
    LET h == runtimes[r]
    IN /\ req[q] = NoCall
       /\ calls < MaxCalls
       /\ bindings[r] # None
       /\ h # None => hosts[h].thread = bindings[r]
       /\ calls' = calls + 1
       /\ hosts' = IF h = None THEN hosts ELSE EnsureProcess(h)
       /\ req' = [req EXCEPT ![q] =
             [op |-> "conversation", run |-> r, thread |-> bindings[r], host |-> h,
              stage |-> IF h = None THEN "coldRead" ELSE "read"]]
       /\ UNCHANGED <<daemonRun, bindings, file, queue, runtimes, usedBefore,
                      writers, native, nwriter, skillDir, releasing, polls,
                      cancelled, faults>>

\* The answer: the history, "busy" or an error, which change nothing.
ConversationAnswered(q) ==
    /\ req[q].stage \in {"read", "coldRead"}
    /\ req' = [req EXCEPT ![q] = NoCall]
    /\ UNCHANGED <<daemonRun, bindings, file, queue, runtimes, usedBefore, writers,
                   hosts, native, nwriter, skillDir, releasing, polls, cancelled,
                   calls, faults>>

\* The warm host says that the thread is lost, or not loaded in a fresh process:
\* discardMissingBinding drops the entry that the run has by now, unless a turn
\* is active, and then its binding.
DiscardMissingBinding(q) ==
    LET r == req[q].run
        h == runtimes[r]
    IN /\ req[q].stage = "read"
       /\ \/ /\ native[req[q].thread] = "deleted"
             /\ hosts[req[q].host].state \in {"live", "fresh"}
          \/ hosts[req[q].host].state = "fresh"
       /\ h # None => ~ hosts[h].busy
       /\ runtimes' = [runtimes EXCEPT ![r] = None]
       /\ ShutDown({h})
       /\ writers' = IF h = None THEN writers
                     ELSE ReleaseThreadWriter(writers, hosts[h].thread, r)
       /\ req' = [req EXCEPT ![q].stage = "discard", ![q].host = None]
       /\ UNCHANGED <<daemonRun, bindings, file, queue, native, skillDir,
                      releasing, polls, cancelled, calls, faults>>

\* The host has ended, or a host of its own said that the thread is lost:
\* whatever binding the run has by now is removed.
RemoveMissing(q) ==
    /\ \/ req[q].stage = "discard"
       \/ /\ req[q].stage = "coldRead"
          /\ native[req[q].thread] = "deleted"
    /\ req' = [req EXCEPT ![q] = NoCall]
    /\ RemoveBinding(req[q].run)
    /\ UNCHANGED <<daemonRun, file, runtimes, usedBefore, writers, hosts, native,
                   nwriter, skillDir, releasing, polls, cancelled, calls, faults>>

-----------------------------------------------------------------------------
(* The store, shutdown and the world.                                      *)

\* The oldest snapshot is written; the call that waits for it goes on.
WriteDone(ok) ==
    LET w == Head(queue)
        q == w.by
        waits == q # None /\ req[q].stage \in {"persist", "answer", "unbound"}
        h == req[q].host
    IN /\ queue # <<>>
       /\ ok \/ faults < MaxFaults
       /\ faults' = IF ok THEN faults ELSE faults + 1
       /\ queue' = Tail(queue)
       /\ file' = IF ok THEN w.snapshot ELSE file
       /\ \/ /\ ~ waits
             /\ UNCHANGED <<runtimes, usedBefore, writers, hosts, nwriter, req>>
          \/ /\ waits /\ req[q].stage \in {"answer", "unbound"}
             /\ req' = IF ok /\ req[q].stage = "unbound"
                       THEN [req EXCEPT ![q].stage = "cleaning"]
                       ELSE [req EXCEPT ![q] = NoCall]
             /\ UNCHANGED <<runtimes, usedBefore, writers, hosts, nwriter>>
          \/ /\ waits /\ req[q].stage = "persist" /\ ~ ok
             /\ ShutDown({h})
             /\ req' = [req EXCEPT ![q] = NoCall]
             /\ UNCHANGED <<runtimes, writers>>
          \/ /\ waits /\ req[q].stage = "persist" /\ ok
             /\ runtimes' = [runtimes EXCEPT ![req[q].run] = h]
             /\ \/ /\ req[q].op = "turn"
                   /\ UseEntry(q, h, req[q].thread, hosts)
                \/ /\ req[q].op = "resume"
                   /\ usedBefore' = Touch(h)
                   /\ req' = [req EXCEPT ![q] = NoCall]
                   /\ UNCHANGED <<writers, hosts>>
             /\ UNCHANGED nwriter
       /\ releasing' = IF ok THEN releasing
                       ELSE {p \in releasing : p.by = None \/ p.by # q}
       /\ UNCHANGED <<daemonRun, bindings, native, skillDir, polls, cancelled, calls>>

\* The request that attaches a host is refused (the thread is gone, or any
\* error): the host is shut down and the call fails.
AttachFails(q) ==
    /\ req[q].stage = "attach"
    /\ \/ /\ req[q].thread # None
          /\ native[req[q].thread] = "deleted"
          /\ UNCHANGED faults
       \/ /\ faults < MaxFaults
          /\ faults' = faults + 1
    /\ ShutDown({req[q].host})
    /\ req' = [req EXCEPT ![q] = NoCall]
    /\ UNCHANGED <<daemonRun, bindings, file, queue, runtimes, writers, native,
                   skillDir, releasing, polls, cancelled, calls>>

\* The daemon ends the run, for the user or by itself.
RunEnds(r) ==
    /\ daemonRun[r] = "running"
    /\ daemonRun' = [daemonRun EXCEPT ![r] = "terminal"]
    /\ UNCHANGED <<bindings, file, queue, runtimes, usedBefore, writers, hosts,
                   native, nwriter, skillDir, releasing, polls, cancelled, req, calls, faults>>

\* release: after cancelHarnessRun, and on every listing of runs for each one
\* that is not running.  The entry goes, its writer is released and its host is
\* shut down, which ends the turn on it.
Release(r) ==
    LET h == runtimes[r]
    IN /\ daemonRun[r] = "terminal"
       /\ h # None \/ r \in skillDir
       /\ cancelled' = IF polls[r] > 0 THEN cancelled \cup {r} ELSE cancelled
       /\ runtimes' = [runtimes EXCEPT ![r] = None]
       /\ ShutDown({h})
       /\ req' = [q \in Requests |->
                    IF h # None /\ q \in Holding(h) THEN NoCall ELSE req[q]]
       /\ writers' = [t \in Threads |->
             IF h # None /\ writers[t] = r
                /\ (t = hosts[h].thread \/ \E q \in Holding(h) : req[q].thread = t)
             THEN None ELSE writers[t]]
       /\ releasing' = releasing \cup {[run |-> r, by |-> None]}
       /\ UNCHANGED <<daemonRun, bindings, file, queue, native, skillDir, polls,
                      calls, faults>>

\* skills.release, when the host has ended or the workspace is cleared: the skill
\* directory is removed.  A clear ends with the last one, and holds up no
\* approval of a run that it unbound.
ReleaseSkills(p) ==
    /\ p \in releasing
    /\ p.by # None => req[p.by].stage = "cleaning"
    /\ skillDir' = skillDir \ {p.run}
    /\ releasing' = releasing \ {p}
    /\ cancelled' = IF p.by # None /\ polls[p.run] > 0 THEN cancelled \cup {p.run}
                    ELSE cancelled
    /\ req' = IF p.by # None /\ \A x \in releasing' : x.by # p.by
              THEN [req EXCEPT ![p.by] = NoCall] ELSE req
    /\ UNCHANGED <<daemonRun, bindings, file, queue, runtimes, usedBefore, writers,
                   hosts, native, nwriter, polls, calls, faults>>

\* clearWorkspace: refused while a turn is active; the runtimes of the workspace
\* leave the map before the first await.
ClearWorkspace(q) ==
    /\ req[q] = NoCall
    /\ \A h \in Registered : ~ hosts[h].busy
    /\ calls < MaxCalls
    /\ \E t \in Threads : native[t] # "unborn"
    /\ calls' = calls + 1
    /\ runtimes' = [r \in Runs |-> None]
    /\ writers' = [t \in Threads |->
          IF \E r \in Runs : runtimes[r] # None
                /\ hosts[runtimes[r]].thread = t /\ writers[t] = r
          THEN None ELSE writers[t]]
    /\ ShutDown(Registered)
    /\ req' = [req EXCEPT ![q] = [NoCall EXCEPT !.op = "clear", !.stage = "clear"]]
    /\ UNCHANGED <<daemonRun, bindings, file, queue, native, skillDir, releasing, polls,
                   cancelled, faults>>

\* A host of its own lists the threads of the workspace and deletes them one
\* after the other; one that fails ends the call.
DeleteThreads(q) ==
    LET stored == {t \in Threads : native[t] = "stored"}
    IN /\ req[q].stage = "clear"
       /\ \E gone \in SUBSET stored :
             /\ native' = [t \in Threads |-> IF t \in gone THEN "deleted"
                                             ELSE native[t]]
             /\ \/ /\ gone = stored
                   /\ req' = [req EXCEPT ![q].stage = "deleted"]
                   /\ UNCHANGED faults
                \/ /\ faults < MaxFaults
                   /\ faults' = faults + 1
                   /\ req' = [req EXCEPT ![q] = NoCall]
       /\ UNCHANGED <<daemonRun, bindings, file, queue, runtimes, usedBefore,
                      writers, hosts, nwriter, skillDir, releasing, polls,
                      cancelled, calls>>

\* removeWorkspace: the call waits for the registry before it removes the skill
\* directories of the runs that it unbound.
RemoveWorkspace(q) ==
    LET gone == {r \in Runs : bindings[r] # None}
    IN /\ req[q].stage = "deleted"
       /\ bindings' = [r \in Runs |-> None]
       /\ releasing' = releasing \cup [run : gone, by : {q}]
       /\ \/ /\ gone = {}
             /\ req' = [req EXCEPT ![q] = NoCall]
             /\ UNCHANGED queue
          \/ /\ gone # {}
             /\ req' = [req EXCEPT ![q].stage = "unbound"]
             /\ EnqueueWrite(bindings', q)
       /\ UNCHANGED <<daemonRun, file, runtimes, usedBefore, writers, hosts, native,
                      nwriter, skillDir, polls, cancelled, calls, faults>>

\* The app-server process exits (handleExit, handleProcessError): the rpc is
\* closed, so every call that waits on it fails; the entry stays.
HostExits(h) ==
    LET working == Holding(h)
        attach == Attaching(h)
        reading == {q \in Requests : req[q].host = h /\ req[q].stage = "read"}
    IN /\ hosts[h].state \in {"live", "fresh"}
       /\ faults < MaxFaults
       /\ faults' = faults + 1
       /\ hosts' = [hosts EXCEPT ![h] =
             IF attach # {} THEN NoHost
             ELSE [state |-> "exited", thread |-> @.thread,
                   busy |-> IF working = {} THEN @.busy ELSE FALSE]]
       /\ nwriter' = [t \in Threads |-> IF nwriter[t] = h THEN None
                                        ELSE nwriter[t]]
       /\ writers' = [t \in Threads |->
             IF \E q \in working : req[q].thread = t /\ writers[t] = req[q].run
             THEN None ELSE writers[t]]
       /\ req' = [q \in Requests |->
                    IF q \in working \cup attach \cup reading THEN NoCall ELSE req[q]]
       /\ usedBefore' = IF attach # {} THEN Untracked({h})
                        ELSE IF working # {} /\ h \in Registered THEN Touch(h)
                        ELSE usedBefore
       /\ UNCHANGED <<daemonRun, bindings, file, queue, runtimes, native,
                      skillDir, releasing, polls, cancelled, calls>>

\* The application ends and starts again: shutdown stops every host and waits for
\* the queued writes, a crash loses them; initialize reads the registry.
Restart ==
    /\ \/ queue = <<>> /\ UNCHANGED faults
       \/ faults < MaxFaults /\ faults' = faults + 1
    /\ bindings' = file
    /\ queue' = <<>>
    /\ runtimes' = [r \in Runs |-> None]
    /\ writers' = [t \in Threads |-> None]
    /\ ShutDown(Hosts)
    /\ releasing' = {}
    /\ polls' = [r \in Runs |-> 0]
    /\ cancelled' = {}
    /\ req' = [q \in Requests |-> NoCall]
    /\ UNCHANGED <<daemonRun, file, native, skillDir, calls>>

\* A process that was told to stop is gone.
LingeringEnds(t) ==
    /\ nwriter[t] = Lingering
    /\ nwriter' = [nwriter EXCEPT ![t] = None]
    /\ UNCHANGED <<daemonRun, bindings, file, queue, runtimes, usedBefore, writers,
                   hosts, native, skillDir, releasing, polls, cancelled, req, calls, faults>>

CallStep(q) ==
    \/ Activate(q) \/ PoolRunTurn(q) \/ Evicted(q)
    \/ (\E t \in Threads : StartThread(q, t))
    \/ ResumeForTurn(q) \/ EntryFree(q) \/ TurnStart(q) \/ TurnFails(q)
    \/ TurnCompletes(q) \/ AskApproval(q)
    \/ ResumeConversation(q) \/ ResumeOnHost(q) \/ DuplicateGone(q)
    \/ ResumeAttached(q) \/ ResumeRefused(q) \/ AttachFails(q)
    \/ ConversationAnswered(q) \/ DiscardMissingBinding(q) \/ RemoveMissing(q)
    \/ ClearWorkspace(q) \/ DeleteThreads(q) \/ RemoveWorkspace(q)

Step ==
    \/ \E q \in Requests : CallStep(q)
    \/ \E q \in Requests, r \in Runs : Run(q, r) \/ Conversation(q, r)
    \/ \E q \in Requests, r \in Runs, t \in Threads : AskResume(q, r, t)
    \/ \E p \in releasing : ReleaseSkills(p)
    \/ \E ok \in BOOLEAN : WriteDone(ok)
    \/ \E r \in Runs : RunEnds(r) \/ Release(r) \/ PollEnds(r)
    \/ \E h \in Hosts : HostExits(h)
    \/ \E t \in Threads : LingeringEnds(t)
    \/ Restart

\* Runs of which two turns or resumptions are open.
Overlapping ==
    {r \in Runs : \E p, q \in Requests :
                    /\ p # q /\ req[p].run = r /\ req[q].run = r
                    /\ {req[p].op, req[q].op} \subseteq {"turn", "resume"}}
Next == Step /\ overlapped' = overlapped \cup Overlapping'
Spec == Init /\ [][Next]_vars

-----------------------------------------------------------------------------
(* Properties.                                                             *)

\* Two runs never have turns at work in the same thread, however the thread was
\* rebound from one to the other (activeThreadWriters).  A run of which two calls
\* were open at once is out of this property: its second runtime takes the place
\* of the first, and the writer is released when either is evicted or ends
\* (releaseThreadWriter looks at the run only).
TurnExclusion ==
    \A p, q \in Requests :
        /\ req[p].run # req[q].run
        /\ {req[p].stage, req[q].stage} \subseteq {"configure", "turn"}
        /\ {req[p].run, req[q].run} \cap overlapped = {}
        => req[p].thread # req[q].thread

\* A writer is never left behind: the run that has it has a call that will
\* release it in its finally block (runTurn), so nobody waits for ever.
WriterHeldByTurn ==
    \A t \in Threads : writers[t] # None =>
        \E q \in Requests : /\ req[q].stage \in {"configure", "turn"}
                            /\ req[q].thread = t
                            /\ req[q].run = writers[t]

\* What is on disk, or will be when the queued snapshots are written, is what
\* the store holds in memory; only a failed write leaves the file behind.
StoreConverges ==
    /\ queue # <<>> => Last(queue).snapshot = bindings
    /\ queue = <<>> /\ faults = 0 => file = bindings

\* A thread is written by one turn at a time, the one that holds its writer.
TurnOwnsItsThread == TypeOK /\ TurnExclusion /\ WriterHeldByTurn
=============================================================================
