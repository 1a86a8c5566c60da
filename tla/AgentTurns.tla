------------------------------- MODULE AgentTurns -------------------------------
(***************************************************************************)
(* The Desktop's task manager (task-manager.ts): prepared and verified Codex *)
(* turns with their recovery turns, the ChatGPT agents (the loop of          *)
(* chatgpt-review-loop.ts and the direct agent) that work on a Harness run,  *)
(* the workers of a family (agent-worker-family.ts) that each work on a      *)
(* child run, the cancellation of a run, the monitor that shows what an      *)
(* agent does, and the idempotent begin of a task with the registry          *)
(* (task-registry.ts) that remembers it.                                     *)
(*                                                                         *)
(* A call is one invocation over the Desktop's IPC; calls interleave at     *)
(* their awaits, which are requests to the daemon (sourcenerve-client.ts),  *)
(* Codex turns and the wait for ChatGPT.  A request is carried out and      *)
(* answered, refused by the daemon, or carried out and its answer lost.  A  *)
(* read that fails before anything was done is a call that was not made.    *)
(* The daemon, Codex and the ChatGPT driver are the environment: the driver *)
(* is modelled in ReviewBrowser, the Codex runtime in CodexRuntime.         *)
(***************************************************************************)
EXTENDS Naturals, Sequences, FiniteSets, SequencesExt

CONSTANTS
    Calls,          \* invocations over IPC
    Ops,            \* bound: the operations that are invoked
    Runs,           \* Harness runs, the first one begun
    First,          \* the run that exists at the start
    Workers,        \* the workers of a family of the first run
    Inputs,         \* the inputs of a task begin
    MaxRecovery,    \* MAX_CODEX_RECOVERY_ATTEMPTS, 2 in the code
    MaxIterations,  \* maxIterations of a loop
    MaxPrepared,    \* MAX_CODEX_TURN_PREPARATIONS, 64 in the code
    MaxKeys,        \* keys of unanswered begins kept, 16 in the code
    MaxReferences,  \* MAX_REFERENCES of the registry, 200 in the code
    PageSize,       \* events asked for at once, 200 in the code
    MaxPages,       \* pages of a poll, 8 in the code
    MaxEvents,      \* bound: tool events of the run
    MaxTrees,       \* bound: states of the working tree
    Polls,          \* names of polls
    MaxFaults,      \* bound: lost answers, failing turns, expiries, restarts
    None

Idle == [op |-> None, pc |-> "idle", run |-> None, seen |-> FALSE, n |-> 0, v |-> 0, i |-> 0,
         prep |-> 0, worker |-> None, input |-> None, key |-> 0, next |-> <<>>]
NoMonitor == [on |-> FALSE, polls |-> {}, seq |-> 0, from |-> 0, tree |-> 0,
              shown |-> [e \in 1..MaxEvents |-> 0]]

VARIABLES
    call,       \* per call: what it does and where it stands
    run,        \* the daemon: per run its status and whose work is not proved
    active,     \* activeChatGptReviewTasks: per run the agent at work on it
    driver,     \* the ChatGPT driver: per agent whether its task goes on
    monitor,    \* per agent its monitor: the polls under way, the last event, the
                \* last tree, and how often it has shown each event
    events,     \* the daemon: tool events of the first run so far
    tree,       \* the working tree, by number
    prepared,   \* preparedCodexTurns: preparations, oldest first, and how many
    worker,     \* AgentWorkerFamilyRegistry: per worker its status and lease
    keys,       \* beginKeys: the keys of begins under way, oldest first
    tasks,      \* the daemon: the tasks begun, a client request id each
    registry,   \* DesktopTaskRegistry: the keys of its tasks, latest first
    file,       \* the registry's file
    temporary,  \* its temporary file, one for all writes of the process
    told,       \* history: keys of the tasks a begin returned
    crossed,    \* history: keys remembered while another was being remembered
    dropped,    \* history: inputs whose key was evicted, deleted or forgotten
    stray,      \* history: child runs whose call does not know of them any more
    denied,     \* history: calls whose Codex turn was denied
    faults

vars == <<call, run, active, driver, monitor, events, tree, prepared, worker, keys, tasks,
          registry, file, temporary, told, crossed, dropped, stray, denied, faults>>
agents == <<active, driver, monitor>>
world == <<events, tree>>
listing == <<registry, file, temporary, crossed>>
begins == <<keys, tasks, told, dropped, listing>>
turns == <<run, agents, world, prepared, worker, stray, denied>>

Fault == faults < MaxFaults /\ faults' = faults + 1
At(c, pc) == call[c].pc = pc
Go(c, pc) == call' = [call EXCEPT ![c].pc = pc]
Live(r) == run[r].status = "running"

\* A request of call c about its run is refused when the run is over, and may fail.
Refused(c) == IF Live(call[c].run) THEN Fault ELSE UNCHANGED faults

-----------------------------------------------------------------------------
(* Calls. *)

\* The renderer invokes an operation.  Everything about a run reads it first;
\* the answer is used after an await.  Cancelling tells the driver at once.
Invoke(c) ==
    /\ At(c, "idle")
    /\ \E op \in Ops \ {"begin", "remember"}, r \in Runs :
         /\ run[r].status # "none"
         /\ op = "worker" => r = First
         /\ call' = [call EXCEPT ![c] = [@ EXCEPT !.op = op, !.run = r, !.seen = Live(r),
               !.pc = IF op \in {"cancel", "prepare"} THEN op ELSE "got"]]
         /\ driver' = [a \in Calls |->
               IF op = "cancel" /\ active[r] = a THEN "cancelled" ELSE driver[a]]
    /\ UNCHANGED <<run, active, monitor, world, prepared, worker, begins, stray, denied, faults>>

\* cancelHarnessRun: the driver's task was cancelled when the call came in;
\* the daemon cancels the run and the agent is forgotten, or it does not
\* answer and neither happens here.
CancelHarnessRun(c) ==
    LET r == call[c].run IN
    /\ At(c, "cancel")
    /\ \/ /\ run' = [run EXCEPT ![r].status = "cancelled"]
          /\ active' = [active EXCEPT ![r] = None]
          /\ Go(c, "done")
          /\ UNCHANGED faults
       \/ /\ Fault
          /\ \E s \in {run[r].status, "cancelled"} : run' = [run EXCEPT ![r].status = s]
          /\ Go(c, "failed")
          /\ UNCHANGED active
    /\ UNCHANGED <<driver, monitor, world, prepared, worker, begins, stray, denied>>

-----------------------------------------------------------------------------
(* How the operations around a verified turn end. *)

\* The finally of the agents: the monitor stops, the run has no agent any more.
Ended(c, pc) ==
    /\ Go(c, pc)
    /\ IF call[c].op \in {"loop", "direct"}
         THEN /\ active' = [active EXCEPT ![call[c].run] = None]
              /\ monitor' = [monitor EXCEPT ![c].on = FALSE]
         ELSE UNCHANGED <<active, monitor>>

\* What is thrown out of a verified turn: a worker retires and gives its child
\* run up, a loop that has executed nothing yet and the direct agent abandon
\* their run, everything else only fails.
CancelDriver(r) == driver' = [a \in Calls |-> IF active[r] = a THEN "cancelled" ELSE driver[a]]
Retire(c) ==
    /\ worker' = [worker EXCEPT ![call[c].worker].status = "retired"]
    /\ CancelDriver(call[c].run)
    /\ Go(c, "giveup")
    /\ UNCHANGED <<active, monitor>>
Abandon(c) ==
    /\ CancelDriver(call[c].run)
    /\ Go(c, "giveup")
    /\ UNCHANGED <<worker, active, monitor>>
Fail(c) ==
    /\ Ended(c, "failed")
    /\ UNCHANGED <<worker, driver>>
AbandonsOrFails(c) == IF call[c].i = 0 THEN Abandon(c) ELSE Fail(c)
Thrown(c) == CASE call[c].op = "worker" -> Retire(c)
               [] call[c].op = "loop" -> AbandonsOrFails(c)
               [] call[c].op = "direct" -> Abandon(c)
               [] OTHER -> Fail(c)

\* The rest of cancelAbandonedChatGptPlanningRun, and of the cancellation of a
\* worker's child run; an error of either is swallowed.
GiveUp(c) ==
    LET r == call[c].run IN
    /\ At(c, "giveup")
    /\ \/ /\ run' = [run EXCEPT ![r].status = "cancelled"]
          /\ UNCHANGED <<faults, stray>>
       \/ /\ Fault
          /\ \E s \in {run[r].status, "cancelled"} : run' = [run EXCEPT ![r].status = s]
          /\ stray' = stray \cup {r}
    /\ Go(c, "failed")
    /\ active' = IF call[c].op = "worker" /\ faults' # faults THEN active
                 ELSE [active EXCEPT ![r] = None]
    /\ monitor' = [monitor EXCEPT ![c].on = FALSE]
    /\ UNCHANGED <<driver, world, prepared, worker, begins, denied>>

-----------------------------------------------------------------------------
(* Preparations of Codex turns. *)

\* prunePreparedCodexTurns: the oldest go when the limit is reached.
Pruned == IF Len(prepared.list) < MaxPrepared THEN prepared.list ELSE Tail(prepared.list)

\* prepareHarnessCodexTurn, by itself or as a part of a turn: the run is read, its
\* context routed and the skills of the prompt are made ready.
PrepareHarnessCodexTurn(c) ==
    LET id == prepared.made + 1 IN
    /\ At(c, "prepare")
    /\ \/ /\ prepared' = [list |-> Append(Pruned, [id |-> id, run |-> call[c].run]), made |-> id]
          /\ call' = [call EXCEPT ![c].prep = id,
                                  ![c].pc = IF call[c].op = "prepare" THEN "done" ELSE "consume"]
          /\ UNCHANGED <<agents, worker, faults>>
       \/ /\ Refused(c)
          /\ Thrown(c)
          /\ UNCHANGED prepared
    /\ UNCHANGED <<run, world, begins, stray, denied>>

\* A preparation is too old when somebody looks.
Expire ==
    /\ Fault
    /\ prepared.list # <<>>
    /\ prepared' = [prepared EXCEPT !.list = Tail(@)]
    /\ UNCHANGED <<call, run, agents, world, worker, begins, stray, denied>>

\* consumePreparedCodexTurn prunes too, which at the limit takes the oldest, and uses
\* the preparation up, if it is one of the run.
Prepared(c) == {n \in DOMAIN Pruned : Pruned[n].id = call[c].prep}
Ready(c) == \E n \in Prepared(c) : Pruned[n].run = call[c].run
Consume(c) ==
    /\ At(c, "consume")
    /\ prepared' = [prepared EXCEPT !.list = SelectSeq(Pruned, LAMBDA e : e.id # call[c].prep)]
    /\ \/ /\ Ready(c)
          /\ Go(c, "start")
          /\ UNCHANGED <<agents, worker>>
       \/ /\ ~Ready(c)
          /\ Thrown(c)
    /\ UNCHANGED <<run, world, begins, stray, denied, faults>>

-----------------------------------------------------------------------------
(* The verified Codex turn: runHarnessCodexTurnVerified. *)

\* The run is read; the turn comes with a preparation, or makes one.
BeginTurn(c) ==
    /\ At(c, "got") /\ call[c].op = "turn"
    /\ \E id \in 0..prepared.made :
         call' = [call EXCEPT ![c].prep = id, ![c].pc = IF id = 0 THEN "prepare" ELSE "consume"]
    /\ UNCHANGED <<turns, begins, faults>>

\* An execution failed: while the proof is being recovered that is the end,
\* before that it is tried again, unless it was denied.
GivesUp(c, category) == category = "denied" \/ call[c].v > 0 \/ call[c].n = MaxRecovery
ExecutionFailed(c) ==
    \E category \in {"error", "denied"} :
        /\ denied' = IF category = "denied" THEN denied \cup {c} ELSE denied
        /\ \/ /\ GivesUp(c, category)
              /\ Thrown(c)
           \/ /\ ~GivesUp(c, category)
              /\ call' = [call EXCEPT ![c].pc = "start", ![c].n = @ + 1]
              /\ UNCHANGED <<agents, worker>>

\* One of the three steps of runSupervisedCodexExecution: it goes well or it fails.
Step(c, pc, next, may) ==
    /\ At(c, pc)
    /\ \/ /\ may
          /\ Go(c, next)
          /\ UNCHANGED <<agents, worker, denied, faults>>
       \/ /\ Refused(c)
          /\ ExecutionFailed(c)
    /\ UNCHANGED <<world, prepared, begins, stray>>

\* native/execution/start.
StartExecution(c) == Step(c, "start", "codex", Live(call[c].run)) /\ UNCHANGED run

\* The Codex turn, which may have changed files even when it fails.
RunCodex(c) ==
    /\ Step(c, "codex", "finish", TRUE)
    /\ run' = [run EXCEPT ![call[c].run].unproved = @ \cup {c}]

\* native/execution/finish: a failure here is a failure of the execution.
FinishExecution(c) == Step(c, "finish", "proof", Live(call[c].run)) /\ UNCHANGED run

\* A turn came back verified.
Verified(c) ==
    \/ /\ call[c].op = "turn"
       /\ Ended(c, "done")
       /\ UNCHANGED <<worker, driver>>
    \/ /\ call[c].op = "loop"
       /\ call' = [call EXCEPT ![c] = [@ EXCEPT !.pc = "chatgpt", !.i = @ + 1, !.n = 0, !.v = 0, !.prep = 0]]
       /\ active' = [active EXCEPT ![call[c].run] = c]
       /\ UNCHANGED <<worker, driver, monitor>>
    \/ LET w == worker[call[c].worker]
           mine == w.lease = c /\ w.status \in {"claimed", "running"}
       IN  /\ call[c].op = "worker"
           /\ \/ /\ mine
                 /\ worker' = [worker EXCEPT ![call[c].worker].status = "reported"]
                 /\ Ended(c, "done")
                 /\ UNCHANGED driver
              \/ ~mine /\ Retire(c)

\* The proof runs in the daemon, for all the work of the run.  It passes, it
\* fails and Codex is asked to recover, or it fails for good, which an error
\* does at once.
RecoversProof(c) == call[c].v < MaxRecovery
RunNativeVerification(c) ==
    LET r == call[c].run IN
    /\ At(c, "proof") /\ call[c].op # "direct"
    /\ \/ /\ Live(r)
          /\ run' = [run EXCEPT ![r].unproved = {}]
          /\ Verified(c)
          /\ UNCHANGED faults
       \/ /\ Live(r) /\ RecoversProof(c)
          /\ Fault
          /\ call' = [call EXCEPT ![c].pc = "start", ![c].v = @ + 1]
          /\ UNCHANGED <<run, agents, worker>>
       \/ /\ Refused(c)
          /\ Thrown(c)
          /\ UNCHANGED run
    /\ UNCHANGED <<world, prepared, begins, stray, denied>>

-----------------------------------------------------------------------------
(* The agents. *)

\* A bug: the agent is entered when ChatGPT has answered.
ActivateLate(c) == active

\* runHarnessCodexReviewLoop and runHarnessChatGptDirectAgent: the run was
\* current when it was read, it has no agent, and from the check on this call
\* is its agent, with a monitor that shows the events of this time.
Activate(c) == [active EXCEPT ![call[c].run] = c]
BeginAgent(c) ==
    /\ At(c, "got") /\ call[c].op \in {"loop", "direct"}
    /\ \/ /\ call[c].seen /\ active[call[c].run] = None
          /\ active' = Activate(c)
          /\ driver' = [driver EXCEPT ![c] = "asked"]
          /\ monitor' = [monitor EXCEPT ![c].on = TRUE, ![c].from = events]
          /\ Go(c, "chatgpt")
       \/ /\ call[c].seen => active[call[c].run] # None
          /\ Go(c, "failed")
          /\ UNCHANGED agents
    /\ UNCHANGED <<run, world, prepared, worker, begins, stray, denied, faults>>

\* ChatGPT answers with a plan, which a loop executes while it has iterations
\* left, or says it is done or blocked; the direct agent's work is then proved.
ChatGptReplies(c) ==
    /\ At(c, "chatgpt")
    /\ driver[c] = "asked"
    /\ \/ /\ call[c].op = "loop" /\ call[c].i < MaxIterations
          /\ Go(c, "prepare")
          /\ active' = [active EXCEPT ![call[c].run] = c]
          /\ UNCHANGED monitor
       \/ /\ call[c].op = "direct"
          /\ Go(c, "proof")
          /\ active' = [active EXCEPT ![call[c].run] = c]
          /\ UNCHANGED monitor
       \/ /\ call[c].op = "loop"
          /\ Ended(c, "done")
       \/ Ended(c, "blocked")
    /\ run' = [run EXCEPT ![call[c].run].unproved = IF call[c].op = "direct" THEN @ \cup {c} ELSE @]
    /\ UNCHANGED <<driver, world, prepared, worker, begins, stray, denied, faults>>

\* The driver's task was cancelled, or it fails or times out.
ChatGptFails(c) ==
    /\ At(c, "chatgpt")
    /\ IF driver[c] = "cancelled" THEN UNCHANGED faults ELSE Fault
    /\ Thrown(c)
    /\ UNCHANGED <<run, world, prepared, begins, stray, denied>>

\* The proof of a direct agent's work: it is done, or it reports itself
\* blocked; only an error abandons the run.
ProveDirect(c) ==
    LET r == call[c].run IN
    /\ At(c, "proof") /\ call[c].op = "direct"
    /\ \/ /\ Live(r)
          /\ run' = [run EXCEPT ![r].unproved = {}]
          /\ Ended(c, "done")
          /\ UNCHANGED <<driver, worker, faults>>
       \/ /\ Live(r)
          /\ Fault
          /\ Ended(c, "blocked")
          /\ UNCHANGED <<run, driver, worker>>
       \/ /\ Refused(c)
          /\ Thrown(c)
          /\ UNCHANGED run
    /\ UNCHANGED <<world, prepared, begins, stray, denied>>

-----------------------------------------------------------------------------
(* The workers of a family. *)

Claimable(w) == worker[w].status \in {"sleeping", "reported"}

\* runHarnessAgentWorker: the prime run is read (it need not run), a child run is
\* begun, of which nobody knows if the answer is lost, and the worker is claimed for it
\* and marked running.
BeginChild(c) ==
    /\ At(c, "got") /\ call[c].op = "worker"
    /\ \/ /\ \E r \in Runs, w \in Workers :
               /\ run[r].status = "none"
               /\ run' = [run EXCEPT ![r].status = "running"]
               /\ call' = [call EXCEPT ![c].run = r, ![c].worker = w, ![c].pc = "claim"]
          /\ UNCHANGED <<faults, stray>>
       \/ /\ Fault
          /\ Go(c, "failed")
          /\ \E lost \in {{}} \cup {{r} : r \in {x \in Runs : run[x].status = "none"}} :
               /\ run' = [r \in Runs |-> IF r \in lost THEN [run[r] EXCEPT !.status = "running"] ELSE run[r]]
               /\ stray' = stray \cup lost
    /\ UNCHANGED <<agents, world, prepared, worker, begins, denied>>
Claim(c) ==
    LET w == call[c].worker IN
    /\ At(c, "claim")
    /\ \/ /\ Claimable(w)
          /\ worker' = [worker EXCEPT ![w] = [status |-> "running", lease |-> c]]
          /\ Go(c, "prepare")
          /\ UNCHANGED stray
       \/ /\ ~Claimable(w)
          /\ stray' = stray \cup {call[c].run}
          /\ Go(c, "failed")
          /\ UNCHANGED worker
    /\ UNCHANGED <<run, agents, world, prepared, begins, denied, faults>>

-----------------------------------------------------------------------------
(* The begin of a task. *)

KeyOf(i) == {n \in DOMAIN keys : keys[n].input = i}
FreshKey == Cardinality(tasks) + Cardinality({c \in Calls : call[c].key # 0}) + 1

\* A bug: every begin has a key of its own.
ReusesKeyNever(i) == FALSE

\* begin: the key of an unanswered begin with the same input is used again;
\* a new one may evict the oldest.
ReusesKey(i) == KeyOf(i) # {}
TaskBegin(c) ==
    /\ At(c, "idle") /\ "begin" \in Ops
    /\ \E i \in Inputs :
         LET begun(key) == [call EXCEPT ![c] = [@ EXCEPT !.op = "begin", !.pc = "task", !.input = i, !.key = key]]
             full == Len(keys) = MaxKeys
         IN  \/ /\ ReusesKey(i)
                /\ call' = begun(keys[CHOOSE n \in KeyOf(i) : TRUE].key)
                /\ UNCHANGED <<keys, dropped>>
             \/ /\ ~ReusesKey(i)
                /\ call' = begun(FreshKey)
                /\ keys' = Append(IF full THEN Tail(keys) ELSE keys, [input |-> i, key |-> FreshKey])
                /\ dropped' = IF full THEN dropped \cup {keys[1].input} ELSE dropped
    /\ UNCHANGED <<turns, tasks, told, listing, faults>>

\* The daemon begins the task of the key, or finds it begun, and its snapshot
\* is read.  A failure of this or of the next steps keeps the key.
TaskBegun(c) ==
    LET mine == [input |-> call[c].input, key |-> call[c].key] IN
    /\ At(c, "task")
    /\ \/ /\ tasks' = tasks \cup {mine}
          /\ Go(c, "remember")
          /\ UNCHANGED faults
       \/ /\ Fault
          /\ tasks' \in {tasks, tasks \cup {mine}}
          /\ Go(c, "failed")
    /\ UNCHANGED <<turns, keys, told, dropped, listing>>

\* remember(taskId): a task of the daemon is put into the list again.
Remember(c) ==
    /\ At(c, "idle") /\ "remember" \in Ops
    /\ \E t \in tasks :
         call' = [call EXCEPT ![c] = [@ EXCEPT !.op = "remember", !.pc = "remember", !.key = t.key]]
    /\ UNCHANGED <<turns, begins, faults>>

\* DesktopTaskRegistry.remember: the new list, latest first, is made of the one in
\* memory, written, and only then kept in memory.
WithTask(key) ==
    LET all == <<key>> \o SelectSeq(registry, LAMBDA k : k # key)
    IN  IF Len(all) > MaxReferences THEN SubSeq(all, 1, MaxReferences) ELSE all
Writing == {c \in Calls : call[c].pc \in {"write", "rename"}}
RememberTask(c) ==
    /\ At(c, "remember")
    /\ call' = [call EXCEPT ![c].pc = "write", ![c].next = WithTask(call[c].key)]
    /\ crossed' = crossed \cup IF Writing = {} THEN {} ELSE {call[d].key : d \in Writing \cup {c}}
    /\ UNCHANGED <<turns, keys, tasks, told, dropped, registry, file, temporary, faults>>
WriteTemporary(c) ==
    /\ At(c, "write")
    /\ \/ /\ temporary' = call[c].next
          /\ Go(c, "rename")
          /\ UNCHANGED faults
       \/ /\ Fault
          /\ Go(c, "failed")
          /\ UNCHANGED temporary
    /\ UNCHANGED <<turns, keys, tasks, told, dropped, registry, file, crossed>>

\* The file is in place and the key forgotten, whoever set it; or the rename
\* fails, which it does when another write took the temporary file.
Remembered(c) ==
    LET mine == [input |-> call[c].input, key |-> call[c].key]
        others == {n \in KeyOf(mine.input) : keys[n] # mine}
    IN  /\ At(c, "rename")
        /\ \/ /\ temporary # <<>>
              /\ file' = temporary /\ temporary' = <<>>
              /\ registry' = call[c].next
              /\ IF call[c].op = "begin"
                   THEN /\ keys' = SelectSeq(keys, LAMBDA e : e.input # mine.input)
                        /\ told' = told \cup {mine.key}
                        /\ dropped' = IF others # {} THEN dropped \cup {mine.input} ELSE dropped
                   ELSE UNCHANGED <<keys, told, dropped>>
              /\ Go(c, "done")
              /\ UNCHANGED faults
           \/ /\ IF temporary = <<>> THEN UNCHANGED faults ELSE Fault
              /\ Go(c, "failed")
              /\ UNCHANGED <<keys, told, dropped, registry, file, temporary>>
        /\ UNCHANGED <<turns, tasks, crossed>>

-----------------------------------------------------------------------------
(* The progress monitor of an agent: startChatGptProgressMonitor. *)

\* What an agent does leaves events in the daemon and changes the working tree.
ToolEvent ==
    /\ events < MaxEvents
    /\ events' = events + 1
    /\ UNCHANGED <<call, run, agents, tree, prepared, worker, begins, stray, denied, faults>>
TreeChanges ==
    /\ tree < MaxTrees
    /\ tree' = tree + 1
    /\ UNCHANGED <<call, run, agents, events, prepared, worker, begins, stray, denied, faults>>

Monitors == /\ UNCHANGED <<call, run, active, driver, world, prepared, worker, begins>>
            /\ UNCHANGED <<stray, denied>>
Polled(c, p, new) == monitor' = [monitor EXCEPT ![c].polls = (@ \ {p}) \cup new]

\* The timer: one poll at a time, none once the agent has ended.
MayPoll(c) == monitor[c].on /\ monitor[c].polls = {}
Poll(c) ==
    /\ MayPoll(c)
    /\ \E p \in Polls :
         /\ \A q \in monitor[c].polls : q.id # p
         /\ monitor' = [monitor EXCEPT ![c].polls =
               @ \cup {[id |-> p, pc |-> "review", page |-> 0, after |-> 0, got |-> 0]}]
    /\ Monitors /\ UNCHANGED faults

\* The tree is looked at, for which an error counts as no answer: a tree other than the
\* last one is shown, unless it is the first one or the agent has ended.
GitReview(c) ==
    /\ \E p \in monitor[c].polls :
         /\ p.pc = "review"
         /\ \/ /\ monitor' = [monitor EXCEPT
                     ![c].polls = (@ \ {p}) \cup {[p EXCEPT !.pc = "events"]},
                     ![c].tree = IF monitor[c].on THEN tree ELSE @]
               /\ UNCHANGED faults
            \/ /\ Fault
               /\ Polled(c, p, {[p EXCEPT !.pc = "events"]})
    /\ Monitors

\* A page of events after the last one shown is asked for and answered; an error
\* counts as an empty page, which ends the poll.
PollAnswered(c) ==
    /\ \E p \in monitor[c].polls :
         LET after == IF p.page = 0 THEN monitor[c].seq ELSE p.after
             got == IF events > after + PageSize THEN after + PageSize ELSE events
         IN  /\ p.pc = "events"
             /\ \/ /\ got > after
                   /\ Polled(c, p, {[p EXCEPT !.pc = "page", !.after = after, !.got = got]})
                   /\ UNCHANGED faults
                \/ /\ IF got > after THEN Fault ELSE UNCHANGED faults
                   /\ Polled(c, p, {})
    /\ Monitors

\* Each event of the page is shown, unless it is older than the agent, and the number
\* of the last one kept.  No look at the timer: the last poll may show tools after the
\* agent has ended.
PollShows(c) ==
    /\ \E p \in monitor[c].polls :
         LET more == p.got - p.after = PageSize /\ p.page + 1 < MaxPages
         IN  /\ p.pc = "page"
             /\ monitor' = [monitor EXCEPT
                   ![c].polls = (@ \ {p}) \cup
                        IF more THEN {[p EXCEPT !.pc = "events", !.page = @ + 1, !.after = p.got]} ELSE {},
                   ![c].seq = IF p.got > @ THEN p.got ELSE @,
                   ![c].shown = [e \in 1..MaxEvents |->
                        IF e > p.after /\ e <= p.got /\ e > monitor[c].from THEN @[e] + 1 ELSE @[e]]]
    /\ Monitors /\ UNCHANGED faults

-----------------------------------------------------------------------------
\* The application ends and is started again: what is in memory is gone, the calls with
\* it, and the registry is read from its file.
Restart ==
    LET lost == {c \in Calls : call[c].pc \notin {"idle", "done", "blocked", "failed"}}
    IN  /\ Fault
        /\ call' = [c \in Calls |-> IF c \in lost THEN [call[c] EXCEPT !.pc = "failed"] ELSE call[c]]
        /\ active' = [r \in Runs |-> None]
        /\ driver' = [c \in Calls |-> None]
        /\ monitor' = [c \in Calls |-> [monitor[c] EXCEPT !.on = FALSE, !.polls = {}]]
        /\ prepared' = [prepared EXCEPT !.list = <<>>]
        /\ worker' = [w \in Workers |-> [worker[w] EXCEPT !.status = "retired"]]
        /\ keys' = <<>>
        /\ dropped' = dropped \cup {keys[n].input : n \in DOMAIN keys}
        /\ registry' = file
        /\ stray' = stray \cup {call[c].run : c \in {x \in lost : call[x].op = "worker"}}
        /\ temporary' = <<>>
        /\ UNCHANGED <<run, world, tasks, told, file, crossed, denied>>

Init ==
    /\ call = [c \in Calls |-> Idle]
    /\ run = [r \in Runs |-> [status |-> IF r = First THEN "running" ELSE "none", unproved |-> {}]]
    /\ active = [r \in Runs |-> None]
    /\ driver = [c \in Calls |-> None]
    /\ monitor = [c \in Calls |-> NoMonitor] /\ events = 0 /\ tree = 1
    /\ prepared = [list |-> <<>>, made |-> 0]
    /\ worker = [w \in Workers |-> [status |-> "sleeping", lease |-> None]]
    /\ keys = <<>> /\ tasks = {} /\ registry = <<>> /\ file = <<>> /\ temporary = <<>>
    /\ told = {} /\ crossed = {} /\ dropped = {} /\ stray = {} /\ denied = {}
    /\ faults = 0

\* A call starts, a running one goes on, or its monitor looks.
Next ==
    \/ \E c \in {x \in Calls : At(x, "idle")} : Invoke(c) \/ TaskBegin(c) \/ Remember(c)
    \/ \E c \in {x \in Calls : call[x].pc \notin {"idle", "done"}} :
         \/ CancelHarnessRun(c) \/ GiveUp(c)
         \/ BeginTurn(c) \/ PrepareHarnessCodexTurn(c) \/ Consume(c) \/ StartExecution(c)
         \/ RunCodex(c) \/ FinishExecution(c) \/ RunNativeVerification(c)
         \/ BeginAgent(c) \/ ChatGptReplies(c) \/ ChatGptFails(c) \/ ProveDirect(c)
         \/ BeginChild(c) \/ Claim(c) \/ TaskBegun(c)
         \/ RememberTask(c) \/ WriteTemporary(c) \/ Remembered(c)
    \/ \E c \in {x \in Calls : monitor[x].on \/ monitor[x].polls # {}} :
         Poll(c) \/ GitReview(c) \/ PollAnswered(c) \/ PollShows(c)
    \/ Expire \/ ToolEvent \/ TreeChanges \/ Restart

Spec == Init /\ [][Next]_vars

-----------------------------------------------------------------------------
Over(c) == call[c].pc \in {"idle", "got", "done", "blocked", "failed", "cancel"}
Agents(r) == {c \in Calls : call[c].run = r /\ call[c].op \in {"loop", "direct"} /\ ~Over(c)}

\* The entry of activeChatGptReviewTasks of a run that goes on is the one
\* agent at work on it: no second agent is let in, and no entry outlives its
\* agent and locks the run.
ActiveIsTheAgent ==
    \A r \in Runs : Live(r) => Agents(r) = {active[r]} \ {None}

\* Work that is reported as done was proved after it was done, however many
\* executions failed and were recovered on the way; and a turn that was denied
\* is not tried again.
ReportedIsProved ==
    /\ \A c \in Calls : At(c, "done") => \A r \in Runs : c \notin run[r].unproved
    /\ \A c \in denied : call[c].pc \in {"failed", "giveup"}

\* Each child run that still goes on belongs to a worker call under way or
\* reported, unless the call does not know of it any more; and no two calls hold one
\* worker.
ChildRunsAccounted ==
    /\ \A r \in Runs \ {First} : Live(r) =>
         \/ r \in stray
         \/ \E c \in Calls : call[c].run = r /\ call[c].op = "worker" /\ call[c].pc # "failed"
    /\ \A c, d \in Calls :
         c # d /\ call[c].op = "worker" /\ call[d].op = "worker" /\ call[c].worker = call[d].worker
           => Over(c) \/ Over(d) \/ At(c, "claim") \/ At(d, "claim") \/ At(c, "giveup") \/ At(d, "giveup")

\* Begins of one input that nobody heard the end of - a second click, a retry
\* after a lost answer - begin one task, as long as the key is not dropped.
BeginIsIdempotent ==
    \A i \in Inputs \ dropped : Cardinality({t \in tasks : t.input = i /\ t.key \notin told}) <= 1

\* A task whose begin was answered is in the list of tasks from then on, also after a
\* restart, unless the list is full or two were being remembered at once, when the
\* slower one wins.
BegunIsListed ==
    \A k \in told \ crossed : k \in ToSet(registry) \/ Len(registry) = MaxReferences

\* A tool an agent used is shown at most once, and none is skipped: polls that
\* take longer than the interval of the timer do not overlap.
ToolsShownOnce ==
    \A c \in Calls : \A e \in 1..MaxEvents :
        monitor[c].shown[e] = IF e <= monitor[c].seq /\ e > monitor[c].from THEN 1 ELSE 0

\* The agent that is listed as active is the one at work, its report is proved, and
\* every child run it claimed is accounted for.
RunsAreAccounted == ActiveIsTheAgent /\ ReportedIsProved /\ ChildRunsAccounted

\* A task is begun once for all retries of its request, stays listed, and every
\* tool call of it is shown once.
BegunOnceShownOnce == BeginIsIdempotent /\ BegunIsListed /\ ToolsShownOnce
=============================================================================
