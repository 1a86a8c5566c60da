---------------------------- MODULE CodexTransport ----------------------------
(***************************************************************************)
(* One CodexAppServerHost and its JSON-RPC connections                     *)
(* (desktop/src/main/codex-app-server-host.ts, codex-jsonrpc.ts and        *)
(* codex-protocol.ts): the app-server process is spawned on demand,        *)
(* initialized, told which skill roots to use, asked for threads, turns    *)
(* and reads, and killed on shutdown.  CodexRuntime has the pool above it. *)
(*                                                                         *)
(* Everything runs in one Node process.  A macrotask is the arrival of a   *)
(* chunk of lines, the exit of a process, a shutdown or a new call; what   *)
(* awaits a promise continues in a microtask, after the whole chunk was    *)
(* handled and before the next macrotask (Quiet).                          *)
(***************************************************************************)
EXTENDS Naturals, Sequences, FiniteSets, Functions

CONSTANTS
    Calls,       \* calls that may be open at the same time
    Procs,       \* 1..n, bound: app-server processes that are spawned
    Configs,     \* skill configurations, positive numbers
    MaxTurns,    \* bound: turns that Codex starts
    MaxCalls,    \* bound: calls that are made
    MaxFaults    \* bound: exits, refusals, lines nobody understands

VARIABLES
    host,     \* the fields of CodexAppServerHost
    proc,     \* proc[p]: the process, its connection and the two pipes
    call,     \* the open calls
    turns,    \* turns started so far
    draining, \* microtasks of the last macrotask have begun to run
    reply,    \* what the last turn that succeeded returned, <<>> before
    calls, faults

vars == <<host, proc, call, turns, draining, reply, calls, faults>>

None == 0
Pieces == 2          \* deltas of the answer to a prompt
Turns == 1..MaxTurns

NoCall == [op |-> "none", stage |-> "idle", ans |-> "none", proc |-> None,
           turn |-> None, config |-> None]
NoProc == [state |-> "unborn", open |-> FALSE, nextId |-> 1, pending |-> <<>>,
           wire |-> <<>>, out |-> <<>>, loaded |-> FALSE, roots |-> None,
           refused |-> FALSE, turn |-> None, sent |-> 0]
NoHost == [thread |-> FALSE, child |-> None, disposed |-> FALSE,
           desired |-> None, applied |-> FALSE, active |-> None,
           completed |-> {}, text |-> [t \in Turns |-> 0]]

Init ==
    /\ host = NoHost
    /\ proc = [p \in Procs |-> NoProc]
    /\ call = [c \in Calls |-> NoCall]
    /\ turns = 0
    /\ draining = FALSE
    /\ reply = <<>>
    /\ calls = 0 /\ faults = 0

-----------------------------------------------------------------------------
(* CodexJsonRpcConnection.                                                 *)

\* No continuation is waiting to run.
Quiet == \A c \in Calls : call[c].ans = "none"
\* A line is handled: the first one of a chunk, or a further one of it.
Arrives(p) == proc[p].open /\ ~draining

\* The next request id of a connection.
NextId(p) == proc[p].nextId

\* request: the id is registered before the line is written.
Requested(p, c, method, config) ==
    LET id == NextId(p)
    IN [proc[p] EXCEPT
          !.nextId = @ + 1,
          !.pending = [i \in DOMAIN @ \cup {id} |-> IF i = id THEN c ELSE @[i]],
          !.wire = Append(@, [id |-> id, method |-> method, config |-> config,
                              by |-> c])]

\* fail: the connection is closed once, whoever waits on it is rejected.
Failed(p) == [proc[p] EXCEPT !.open = FALSE, !.pending = <<>>, !.wire = <<>>,
                             !.out = <<>>]
Rejected(cs, p) ==
    [c \in Calls |-> IF c \in Range(proc[p].pending)
                     THEN [cs[c] EXCEPT !.ans = "error"] ELSE cs[c]]

\* rejectActiveTurn: only the turn that is active and waited for.
RejectActiveTurn(cs) ==
    [c \in Calls |-> IF cs[c].stage = "wait" /\ cs[c].turn = host.active
                        /\ cs[c].ans = "none"
                     THEN [cs[c] EXCEPT !.ans = "error"] ELSE cs[c]]

\* handleResponse: the request is found by its id and settled.
HandleResponse(p) ==
    LET line == Head(proc[p].out)
    IN /\ Arrives(p) /\ proc[p].out # <<>>
       /\ line.kind = "answer"
       /\ line.id \in DOMAIN proc[p].pending
       /\ LET c == proc[p].pending[line.id]
          IN call' = [call EXCEPT ![c] = [call[c] EXCEPT
                        !.ans = IF line.ok THEN "ok" ELSE "error", !.turn = line.turn]]
       /\ proc' = [proc EXCEPT ![p] = [proc[p] EXCEPT
                     !.out = Tail(@), !.pending = Restrict(@, DOMAIN @ \ {line.id})]]
       /\ UNCHANGED <<host, turns, draining, reply, calls, faults>>

\* A line that is no JSON-RPC message fails the connection; the process lives on.
HandleMalformed(p) ==
    /\ Arrives(p) /\ proc[p].state = "alive" /\ faults < MaxFaults
    /\ call' = Rejected(call, p)
    /\ proc' = [proc EXCEPT ![p] = Failed(p)]
    /\ faults' = faults + 1
    /\ UNCHANGED <<host, turns, draining, reply, calls>>

-----------------------------------------------------------------------------
(* Notifications.                                                          *)

\* updateAgentMessageItem: a delta is appended, a completed item replaces.
UpdateAgentMessageItem(text, t, append) ==
    [text EXCEPT ![t] = IF append THEN @ + 1 ELSE Pieces]

HandleMessage(p) ==
    LET line == Head(proc[p].out)
    IN /\ Arrives(p) /\ proc[p].out # <<>>
       /\ line.kind \in {"delta", "item"}
       /\ host' = [host EXCEPT !.text =
                     UpdateAgentMessageItem(@, line.turn, line.kind = "delta")]
       /\ proc' = [proc EXCEPT ![p].out = Tail(@)]
       /\ UNCHANGED <<call, turns, draining, reply, calls, faults>>

\* turn/completed: the waiter is resolved, or the result is kept for it.
HandleTurnCompleted(p) ==
    LET line == Head(proc[p].out)
        waiting == {c \in Calls : /\ call[c].stage = "wait"
                                  /\ call[c].turn = line.turn
                                  /\ call[c].ans = "none"}
    IN /\ Arrives(p) /\ proc[p].out # <<>>
       /\ line.kind = "done"
       /\ call' = [c \in Calls |->
                     IF c \in waiting
                     THEN [call[c] EXCEPT !.ans = IF line.ok THEN "ok" ELSE "error"]
                     ELSE call[c]]
       /\ host' = IF waiting # {} THEN host
                  ELSE [host EXCEPT !.completed = @ \cup {<<line.turn, line.ok>>}]
       /\ proc' = [proc EXCEPT ![p].out = Tail(@)]
       /\ UNCHANGED <<turns, draining, reply, calls, faults>>

\* A notification that parseCodexServerEvent refuses rejects the active turn.
HandleInvalidNotification(p) ==
    /\ Arrives(p) /\ proc[p].state = "alive" /\ faults < MaxFaults
    /\ call' = RejectActiveTurn(call)
    /\ faults' = faults + 1
    /\ UNCHANGED <<host, proc, turns, draining, reply, calls>>

-----------------------------------------------------------------------------
(* The app-server (external): it answers the requests of its connection in *)
(* order and streams the turn that is in progress.                         *)

Answer(req, ok, t) == [kind |-> "answer", id |-> req.id, ok |-> ok, turn |-> t,
                       by |-> req.by]
Notice(kind, t, ok) == [kind |-> kind, id |-> None, ok |-> ok, turn |-> t,
                        by |-> None]

ServerRefuses(p) ==
    LET req == Head(proc[p].wire)
        free == req.method = "turn" /\ (proc[p].turn # None \/ ~proc[p].loaded)
    IN /\ Quiet /\ proc[p].state = "alive" /\ proc[p].wire # <<>>
       /\ free \/ faults < MaxFaults
       /\ proc' = [proc EXCEPT ![p] = [proc[p] EXCEPT
                     !.wire = Tail(@),
                     !.refused = @ \/ req.method = "roots",
                     !.out = Append(@, Answer(req, FALSE, None))]]
       /\ faults' = IF free THEN faults ELSE faults + 1
       /\ UNCHANGED <<host, call, turns, draining, reply, calls>>

ServerAnswers(p) ==
    LET req == Head(proc[p].wire)
    IN /\ Quiet /\ proc[p].state = "alive" /\ proc[p].wire # <<>>
       /\ req.method # "turn"
       /\ proc' = [proc EXCEPT ![p] = [proc[p] EXCEPT
                     !.wire = Tail(@),
                     !.roots = IF req.method = "roots" THEN req.config ELSE @,
                     !.loaded = @ \/ req.method \in {"start", "resume"},
                     !.out = Append(@, Answer(req, TRUE, None))]]
       /\ UNCHANGED <<host, call, turns, draining, reply, calls, faults>>

ServerStartsTurn(p) ==
    LET req == Head(proc[p].wire)
    IN /\ Quiet /\ proc[p].state = "alive" /\ proc[p].wire # <<>>
       /\ req.method = "turn" /\ proc[p].turn = None /\ turns < MaxTurns
       /\ turns' = turns + 1
       /\ proc' = [proc EXCEPT ![p] = [proc[p] EXCEPT
                     !.wire = Tail(@), !.turn = turns + 1, !.sent = 0,
                     !.out = Append(@, Answer(req, TRUE, turns + 1))]]
       /\ UNCHANGED <<host, call, draining, reply, calls, faults>>

ServerStreams(p) ==
    LET t == proc[p].turn
    IN /\ Quiet /\ proc[p].state = "alive" /\ proc[p].open
       /\ t # None /\ proc[p].sent <= Pieces
       /\ proc' = [proc EXCEPT ![p] = [proc[p] EXCEPT
                     !.sent = @ + 1,
                     !.out = Append(@, Notice(IF proc[p].sent < Pieces
                                              THEN "delta" ELSE "item", t, TRUE))]]
       /\ UNCHANGED <<host, call, turns, draining, reply, calls, faults>>

\* A turn ends when everything was said, or earlier when it fails.
ServerCompletesTurn(p, ok) ==
    LET t == proc[p].turn
    IN /\ Quiet /\ proc[p].state = "alive" /\ proc[p].open /\ t # None
       /\ ok => proc[p].sent > Pieces
       /\ ~ok => faults < MaxFaults
       /\ faults' = IF ok THEN faults ELSE faults + 1
       /\ proc' = [proc EXCEPT ![p] = [proc[p] EXCEPT
                     !.turn = None, !.out = Append(@, Notice("done", t, ok))]]
       /\ UNCHANGED <<host, call, turns, draining, reply, calls>>

-----------------------------------------------------------------------------
(* CodexAppServerHost: processes.                                          *)

Live == host.child # None /\ proc[host.child].state = "alive"

\* The first request of an operation once ensureProcess has returned.
FirstStage(op) ==
    IF op = "turn" THEN "roots" ELSE IF op = "recover" THEN "reattach" ELSE op
Method(stage) ==
    IF stage = "iroots" THEN "roots" ELSE IF stage = "ilist" THEN "list"
    ELSE IF stage = "reattach" THEN "resume" ELSE stage

\* Call c sends the request of a stage on p and waits for the answer.
Sends(c, record, p, stage, config) ==
    /\ proc[p].open
    /\ call' = [call EXCEPT ![c] = [record EXCEPT
                  !.stage = stage, !.ans = "none", !.proc = p]]
    /\ proc' = [proc EXCEPT ![p] = Requested(p, c, Method(stage), config)]

\* ensureProcess spawns: what belonged to the last process is forgotten.
Spawned(p) == [host EXCEPT !.child = p, !.applied = FALSE]

Spawns(c, record) ==
    \E p \in Procs :
       /\ proc[p].state = "unborn"
       /\ \A q \in Procs : q < p => proc[q].state # "unborn"
       /\ call' = [call EXCEPT ![c] = [record EXCEPT !.stage = "init", !.proc = p]]
       /\ proc' = [proc EXCEPT ![p] =
                     [NoProc EXCEPT !.state = "alive", !.open = TRUE, !.nextId = 2,
                        !.pending = <<c>>,
                        !.wire = <<[id |-> 1, method |-> "init", config |-> None,
                                    by |-> c]>>]]
       /\ host' = Spawned(p)

ConfiguredOnce(h, config) == [h EXCEPT !.desired = config]
\* configureSkills: another configuration has to be applied again.
Configured(h, config) ==
    [h EXCEPT !.applied = @ /\ h.desired = config, !.desired = config]

\* The request with which an operation goes on after ensureProcess.  A skill
\* configuration that is applied is only listed again.
Continues(c, record, p) ==
    LET after == FirstStage(record.op)
        next == IF record.op = "turn" THEN Configured(host, record.config) ELSE host
        stage == IF after = "roots" /\ next.applied THEN "list" ELSE after
    IN /\ Sends(c, record, p, stage, next.desired)
       /\ host' = next

\* What the pool asks of a host: a new host is given a thread, or answers one
\* question; a host with a thread has one turn at a time, beside it reads.
MayCall(op) ==
    LET open == {call[c].op : c \in Calls} \ {"none"}
    IN /\ op \in {"start", "resume"} => ~host.thread /\ open = {}
       /\ op \in {"turn", "recover"} => host.thread /\ open \subseteq {"read"}
       /\ op = "read" => host.thread \/ open = {}

Begins(c, op, config) ==
    /\ Quiet
    /\ call[c] = NoCall /\ calls < MaxCalls
    /\ MayCall(op) /\ ~host.disposed
    /\ calls' = calls + 1

\* A call finds a process, or has to spawn one.
CallOnLive(c, op, config) ==
    LET record == [NoCall EXCEPT !.op = op, !.config = config]
    IN /\ Begins(c, op, config)
       /\ Live /\ op # "recover"
       /\ Continues(c, record, host.child)
       /\ UNCHANGED <<turns, draining, reply, faults>>
CallSpawns(c, op, config) ==
    /\ Begins(c, op, config)
    /\ ~Live
    /\ Spawns(c, [NoCall EXCEPT !.op = op, !.config = config])
    /\ UNCHANGED <<turns, draining, reply, faults>>

-----------------------------------------------------------------------------
(* Continuations: they all run before the next macrotask.                 *)

\* The next macrotask waits until no continuation is left.
Drains == draining' = (\E d \in Calls : call'[d].ans # "none")

Ends(c) == call' = [call EXCEPT ![c] = NoCall]
Answered(c, stages) == call[c].stage \in stages /\ call[c].ans = "ok"
Open(c) == proc[call[c].proc].open

\* initialize was answered: the skill roots this host wants are set first.
Initialized(c) ==
    /\ Answered(c, {"init"}) /\ Open(c)
    /\ IF host.desired # None
       THEN /\ Sends(c, call[c], call[c].proc,
                     IF host.applied THEN "ilist" ELSE "iroots", host.desired)
            /\ UNCHANGED host
       ELSE Continues(c, call[c], call[c].proc)
    /\ Drains
    /\ UNCHANGED <<turns, reply, calls, faults>>

RootsSet(c) ==
    /\ Answered(c, {"iroots", "roots"}) /\ Open(c)
    /\ Sends(c, call[c], call[c].proc,
             IF call[c].stage = "roots" THEN "list" ELSE "ilist", host.desired)
    /\ host' = [host EXCEPT !.applied = TRUE]
    /\ Drains
    /\ UNCHANGED <<turns, reply, calls, faults>>

SkillsListed(c) ==
    /\ Answered(c, {"ilist"}) /\ Open(c)
    /\ Continues(c, call[c], call[c].proc)
    /\ Drains
    /\ UNCHANGED <<turns, reply, calls, faults>>

\* ensureProcess fails: the process it spawned is given up and killed.
Killed(p) == [Failed(p) EXCEPT !.state = IF @ = "alive" THEN "dying" ELSE @]
GivenUpNotKilled(p) == Failed(p)
GivenUp(p) == Killed(p)

InitializeFails(c) ==
    LET p == call[c].proc
    IN /\ call[c].stage \in {"init", "iroots", "ilist"}
       /\ call[c].ans = "error" \/ (call[c].ans = "ok" /\ ~Open(c))
       /\ call' = Rejected([call EXCEPT ![c] = NoCall], p)
       /\ proc' = [proc EXCEPT ![p] = GivenUp(p)]
       /\ host' = IF host.child = p THEN [host EXCEPT !.child = None] ELSE host
       /\ Drains
       /\ UNCHANGED <<turns, reply, calls, faults>>

\* runTurn: configureSkills has left a live process, so that
\* ensureAttachedThreadReady returns at once and the prompt is sent.
PromptSent(c) ==
    /\ Answered(c, {"list"}) /\ Open(c)
    /\ Live
    /\ Sends(c, call[c], host.child, "turn", None)
    /\ Drains
    /\ UNCHANGED <<host, turns, reply, calls, faults>>

\* waitForTurn: a turn that has completed already is not waited for.
WaitForTurn(c, t) ==
    LET done == {e \in host.completed : e[1] = t}
    IN IF done = {} THEN "none"
       ELSE IF (CHOOSE e \in done : TRUE)[2] THEN "ok" ELSE "error"

TurnStarted(c) ==
    LET t == call[c].turn
    IN /\ Answered(c, {"turn"})
       /\ call' = [call EXCEPT ![c] = [call[c] EXCEPT !.stage = "wait", !.ans = WaitForTurn(c, t)]]
       /\ host' = [host EXCEPT !.active = t,
                     !.completed = {e \in @ : e[1] # t}]
       /\ Drains
       /\ UNCHANGED <<proc, turns, reply, calls, faults>>

\* The finally block of runTurn.
TurnForgotten(t) ==
    [host EXCEPT !.active = IF @ = t THEN None ELSE @, !.text[t] = 0,
                 !.completed = {e \in @ : e[1] # t}]

TurnReturns(c) ==
    LET t == call[c].turn
    IN /\ Answered(c, {"wait"})
       /\ reply' = <<host.text[t]>>
       /\ host' = TurnForgotten(t)
       /\ Ends(c)
       /\ Drains
       /\ UNCHANGED <<proc, turns, calls, faults>>

TurnThrows(c) ==
    /\ call[c].stage = "wait" /\ call[c].ans = "error"
    /\ host' = TurnForgotten(call[c].turn)
    /\ Ends(c)
    /\ Drains
    /\ UNCHANGED <<proc, turns, reply, calls, faults>>

\* startThread and resumeThread keep the thread; the other reads just answer.
ThreadAttached(c) ==
    /\ Answered(c, {"start", "resume"})
    /\ host' = [host EXCEPT !.thread = TRUE]
    /\ Ends(c)
    /\ Drains
    /\ UNCHANGED <<proc, turns, reply, calls, faults>>
ReadAnswered(c) ==
    /\ Answered(c, {"read", "reattach"})
    /\ Ends(c)
    /\ Drains
    /\ UNCHANGED <<host, proc, turns, reply, calls, faults>>

\* Any other request that is refused, or cannot be sent, ends its call.
CallThrows(c) ==
    /\ \/ /\ call[c].stage \in {"start", "resume", "roots", "list", "turn", "read",
                                "reattach"}
          /\ call[c].ans = "error"
       \/ Answered(c, {"roots", "list"}) /\ ~Open(c)
    /\ Ends(c)
    /\ host' = IF Answered(c, {"roots"}) THEN [host EXCEPT !.applied = TRUE] ELSE host
    /\ Drains
    /\ UNCHANGED <<proc, turns, reply, calls, faults>>

-----------------------------------------------------------------------------
(* Exits and shutdown.                                                     *)

\* handleExit and handleProcessError of the current process.
ExitHandled == [host EXCEPT !.child = None, !.applied = FALSE]

ProcessExits(p) ==
    /\ Quiet
    /\ proc[p].state = "alive" /\ host.child = p /\ faults < MaxFaults
    /\ faults' = faults + 1
    /\ proc' = [proc EXCEPT ![p] = [Failed(p) EXCEPT !.state = "crashed"]]
    /\ call' = RejectActiveTurn(Rejected(call, p))
    /\ host' = ExitHandled
    /\ UNCHANGED <<turns, draining, reply, calls>>

\* A process that is no longer the current one (it was sent SIGTERM, and
\* SIGKILL if need be) exits: nobody looks.
OtherExits(p) ==
    /\ Quiet
    /\ proc[p].state \in {"alive", "dying"} /\ host.child # p
    /\ proc' = [proc EXCEPT ![p].state = "exited"]
    /\ UNCHANGED <<host, call, turns, draining, reply, calls, faults>>

Shutdown ==
    /\ Quiet
    /\ ~host.disposed
    /\ host' = [host EXCEPT !.disposed = TRUE, !.child = None, !.desired = None,
                            !.applied = FALSE]
    /\ IF host.child # None
       THEN /\ call' = RejectActiveTurn(Rejected(call, host.child))
            /\ proc' = [proc EXCEPT ![host.child] = Killed(host.child)]
       ELSE call' = RejectActiveTurn(call) /\ UNCHANGED proc
    /\ UNCHANGED <<turns, draining, reply, calls, faults>>

-----------------------------------------------------------------------------
ConnectionSteps ==
    \E p \in Procs : HandleResponse(p) \/ HandleMalformed(p) \/ HandleMessage(p)
                     \/ HandleTurnCompleted(p) \/ HandleInvalidNotification(p)
ServerSteps ==
    \E p \in Procs : \/ ServerRefuses(p) \/ ServerAnswers(p) \/ ServerStartsTurn(p)
                     \/ ServerStreams(p)
                     \/ \E ok \in BOOLEAN : ServerCompletesTurn(p, ok)
HostSteps ==
    \/ \E c \in Calls : \E op \in {"start", "resume", "turn", "recover", "read"} :
          \E config \in IF op = "turn" THEN Configs ELSE {None} :
             CallOnLive(c, op, config) \/ CallSpawns(c, op, config)
    \/ \E c \in Calls :
          \/ Initialized(c) \/ RootsSet(c) \/ SkillsListed(c) \/ InitializeFails(c)
          \/ PromptSent(c) \/ TurnStarted(c) \/ TurnReturns(c) \/ TurnThrows(c)
          \/ ThreadAttached(c) \/ ReadAnswered(c) \/ CallThrows(c)
    \/ \E p \in Procs : ProcessExits(p) \/ OtherExits(p)
    \/ Shutdown

Next == ConnectionSteps \/ ServerSteps \/ HostSteps
Spec == Init /\ [][Next]_vars

-----------------------------------------------------------------------------
\* An answer is given to the call that asked: ids are never reused within a
\* connection and never looked up in another one.
AnswersMatch ==
    \A p \in Procs : \A i \in DOMAIN proc[p].out :
       LET line == proc[p].out[i]
       IN line.kind = "answer" =>
             /\ line.id \in DOMAIN proc[p].pending
             /\ proc[p].pending[line.id] = line.by

\* A turn that waits is still being worked on, or its end is on the way: the
\* exit of the process, a shutdown or an end that came before the answer to
\* turn/start never leaves it waiting for ever.  (A connection that broke on a
\* malformed line, or that another call gave up when it could not initialize
\* the process, does: nobody rejects the turn then.)
WaitIsNotInVain ==
    \A c \in Calls : call[c].stage = "wait" /\ call[c].ans = "none" =>
       LET p == call[c].proc
       IN /\ ~host.disposed /\ proc[p].state # "crashed"
          /\ proc[p].open => \/ proc[p].turn = call[c].turn
                             \/ \E i \in DOMAIN proc[p].out :
                                   /\ proc[p].out[i].kind = "done"
                                   /\ proc[p].out[i].turn = call[c].turn

\* At most one process runs that was not told to stop: the current one, and
\* none once the host was shut down.
OneProcess ==
    \A p \in Procs : proc[p].state = "alive" => host.child = p /\ ~host.disposed

\* A turn that succeeds returns the whole answer, every piece of it once.
ReplyIsWhole == reply \in {<<>>, <<Pieces>>}

\* A prompt is sent to a process that has the skills its call asked for, unless
\* that process once refused to set them.
TurnHasItsSkills ==
    \A p \in Procs : \A i \in DOMAIN proc[p].wire :
       LET req == proc[p].wire[i]
       IN req.method = "turn" /\ i = 1 /\ ~proc[p].refused =>
             proc[p].roots = call[req.by].config

\* A prompt is sent to a process that has loaded the thread.
PromptFindsItsThread ==
    \A p \in Procs : \A i \in DOMAIN proc[p].wire :
       proc[p].wire[i].method = "turn" =>
          \/ proc[p].loaded
          \/ \E j \in 1..(i - 1) : proc[p].wire[j].method \in {"start", "resume"}

\* Every call gets the answer to its own request from the one live process, and a
\* turn waits only for what can still come (codex-jsonrpc.ts,
\* codex-app-server-host.ts).
NobodyWaitsInVain == AnswersMatch /\ WaitIsNotInVain /\ OneProcess

\* A turn runs with the skills it asked for and reports the whole of its reply
\* (codex-app-server-host.ts).
TurnIsAsAsked == ReplyIsWhole /\ TurnHasItsSkills
=============================================================================
