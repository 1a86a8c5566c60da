---------------------------- MODULE HarnessPanel ----------------------------
(***************************************************************************)
(* The chat panel of a workspace (renderer/components/CodexChatPanel.tsx), *)
(* the screen that owns the list of runs (HarnessScreen.tsx) and the       *)
(* conversation calls of the main process that they await                  *)
(* (DesktopTaskManager in main/task-manager.ts).                           *)
(*                                                                         *)
(* A handler of the panel runs from one await to the next.  It keeps the   *)
(* props and state of the render it was created in (the fields ws, sel,    *)
(* thread, perm, hyd and direct of a call): between two awaits the operator can    *)
(* have switched to another workspace, and the handler does not notice.    *)
(* The calls a handler has still to await are its script `todo'.           *)
(***************************************************************************)
EXTENDS Naturals, Sequences, FiniteSets

CONSTANTS
    Workspaces,
    Permissions,    \* PERMISSION_PRESETS
    Agents,         \* the agents that are offered: "codex", "chat-gpt", "goal"
    Inherited,      \* what an earlier process left: sets of runs, as sequences
    MaxRuns,        \* bound: Harness runs
    MaxOps,         \* bound: what the operator starts and the daemon changes
    None

VARIABLES
    runs,      \* the daemon's runs, oldest first; a thread is named by its first run
    seen,      \* the runs as the screen listed them last
    p,         \* the panel's state, see Panel
    agent,     \* workspaceAgentDefaults
    chosen,    \* workspacePermissionDefaults
    calls,     \* the handlers in flight
    mixed,     \* history: a handler of one workspace wrote into another's panel
    overlap,   \* history: a prompt started while /clear all was counting
    ops

vars == <<runs, seen, p, agent, chosen, calls, mixed, overlap, ops>>

\* "usable": running, current and waiting for nobody; "gated":
\* runRequiresOperatorResolution; "stale": running on an old snapshot.
RunStates == {"usable", "gated", "stale", "ended"}
RunIds == 1..MaxRuns
Run == [ws : Workspaces, perm : Permissions, state : RunStates,
        thread : RunIds \cup {None}, said : BOOLEAN]

Message == [ws : Workspaces, own : BOOLEAN]

Panel == [ws : Workspaces,                     \* selectedWorkspaceId
          sel : RunIds \cup {None},            \* selectedRunId
          busy : STRING \cup {None},
          thread : RunIds \cup {None},         \* currentThreadId
          msgs : SUBSET Message,
          hyd : RunIds \cup {None},            \* the run a hydration effect awaits
          key : (RunIds \cup {None}) \X BOOLEAN,  \* that effect's dependencies
          cont : Workspaces \cup {None},       \* approvalContinuationPrompt
          active : RunIds \cup {None},         \* activePromptRunIdRef
          cancelled : SUBSET RunIds,           \* cancelledPromptRunsRef
          gateErr : BOOLEAN]                   \* error = HARNESS_OPERATOR_GATE_ERROR

-----------------------------------------------------------------------------
(* What a render derives from the state.                                   *)

\* selectedWorkspaceRun, conversationRun: the selected run, if it is listed
\* and of this workspace.
ConversationRun(q, list) ==
    IF q.sel \in DOMAIN list /\ list[q.sel].ws = q.ws THEN q.sel ELSE None

Direct(q) == agent[q.ws] = "chat-gpt"

\* permissionForRun and desiredPermission.
DefaultPermission == CHOOSE x \in Permissions : TRUE
DesiredPermission(q) ==
    LET r == ConversationRun(q, seen)
    IN  IF chosen[q.ws] # None THEN chosen[q.ws]
        ELSE IF r # None THEN seen[r].perm ELSE DefaultPermission

\* compatibleRun.  Mutation: whatever the run may do is good enough.
CompatibleAnyPermission(q) ==
    LET r == ConversationRun(q, seen)
    IN  IF r # None /\ seen[r].state = "usable" THEN r ELSE None
CompatibleRun(q) ==
    LET r == ConversationRun(q, seen)
    IN  IF r # None /\ seen[r].state = "usable" /\ seen[r].perm = DesiredPermission(q)
          THEN r ELSE None

OperatorGateActive(q) ==
    q.gateErr \/ LET r == ConversationRun(q, seen) IN r # None /\ seen[r].state = "gated"

\* autoSelectableWorkspaceRun: the newest usable run of the workspace.
AutoSelectable(list, ws) ==
    LET fit == {r \in DOMAIN list : list[r].ws = ws /\ list[r].state = "usable"}
    IN  IF fit = {} THEN None ELSE CHOOSE r \in fit : \A o \in fit : o <= r

\* The effects that run after a render: the screen selects a run of this
\* workspace, and the hydration of the selected run starts over when that
\* run or the kind of agent changed, which drops the answer to an earlier one.
Reselected(q, list) ==
    IF q.sel \in DOMAIN list /\ list[q.sel].ws = q.ws THEN q
    ELSE [q EXCEPT !.sel = AutoSelectable(list, q.ws)]
\* Mutation: the effect has no clean-up, an earlier answer is still taken.
HydrationUncancelled(q, list) ==
    LET r == ConversationRun(q, list)
    IN  IF q.key = <<r, Direct(q)>> THEN q
        ELSE [q EXCEPT !.key = <<r, Direct(q)>>, !.hyd = IF q.hyd # None THEN q.hyd ELSE r]
HydrationEffect(q, list) ==
    LET r == ConversationRun(q, list)
    IN  IF q.key = <<r, Direct(q)>> THEN q ELSE [q EXCEPT !.key = <<r, Direct(q)>>, !.hyd = r]
Settled(q, list) == HydrationEffect(Reselected(q, list), list)

\* The effect of another selectedWorkspaceId: all of the conversation goes,
\* busy and the continuation of an approval stay.
WorkspaceEffect(q, ws) ==
    [q EXCEPT !.ws = ws, !.msgs = {}, !.thread = None, !.active = None, !.cancelled = {},
              !.gateErr = FALSE]

Reset(q) == [q EXCEPT !.msgs = {}, !.thread = None]

-----------------------------------------------------------------------------
(* Messages.                                                               *)

\* What the main process has of a run (getHarnessCodexConversation).
Persisted(r) == IF runs[r].said THEN {[ws |-> runs[r].ws, own |-> FALSE]} ELSE {}
NativeThread(r, native) == IF native THEN runs[r].thread ELSE None

\* mergeConversationMessages.
MergeConversationMessages(current, incoming) == current \cup incoming

\* mergeHydratedConversationMessages: `before' is the thread of the render
\* that asked.
MergeHydrated(before, next, current, hydrated) ==
    IF hydrated = {} THEN current
    ELSE IF before # None /\ next # None /\ before # next
      THEN MergeConversationMessages(hydrated, {m \in current : m.own})
    ELSE MergeConversationMessages(current, hydrated)

\* hydrateConversation, for the panel of now by a handler of then.
HydrateConversation(q, r, before, native) ==
    [q EXCEPT !.msgs = MergeHydrated(before, NativeThread(r, native), q.msgs, Persisted(r)),
              !.thread = NativeThread(r, native)]

-----------------------------------------------------------------------------
(* The main process.                                                       *)

NewRun(ws, perm, thread) ==
    [ws |-> ws, perm |-> perm, state |-> "usable", thread |-> thread,
     said |-> thread # None]

\* beginHarnessRun.
Begin(ws, perm) == Len(runs) < MaxRuns /\ runs' = Append(runs, NewRun(ws, perm, None))

\* codex.listConversations.
ThreadsOf(ws) == {runs[r].thread : r \in {o \in DOMAIN runs : runs[o].ws = ws}} \ {None}

\* resumeHarnessCodexConversation: a new run is bound to the thread; when
\* that fails, the run is cancelled.
ResumeConversation(ws, thread, perm, ok) ==
    /\ thread \in ThreadsOf(ws)
    /\ Len(runs) < MaxRuns
    /\ runs' = Append(runs, [NewRun(ws, perm, IF ok THEN thread ELSE None)
                               EXCEPT !.state = IF ok THEN "usable" ELSE "ended"])

\* cancelHarnessRun.
Cancelled(r) == [runs EXCEPT ![r].state = "ended"]

\* The daemon: a run waits for an approval or a decision, its snapshot grows
\* old, or it ends.
RunChanges(r, s) ==
    /\ ops < MaxOps /\ ops' = ops + 1
    /\ runs[r].state # "ended" /\ runs[r].state # s
    /\ runs' = [runs EXCEPT ![r].state = s]
    /\ UNCHANGED <<seen, p, agent, chosen, calls, mixed, overlap>>

-----------------------------------------------------------------------------
(* Handlers.                                                               *)

Call(op, todo, a, run) ==
    [op |-> op, todo |-> todo, agent |-> a, ws |-> p.ws, sel |-> p.sel, thread |-> p.thread,
     perm |-> DesiredPermission(p), hyd |-> p.hyd, direct |-> Direct(p), run |-> run]

Native(c) == c.agent # "chat-gpt"

Enter(c, q) ==
    /\ calls' = Append(calls, c)
    /\ p' = Settled(q, seen)
    /\ overlap' = (overlap \/ (/\ q.busy # p.busy
                               /\ \E i \in DOMAIN calls : Head(calls[i].todo) = "summaries"))
    /\ UNCHANGED <<runs, seen, agent, chosen, mixed>>
Start(c, q) ==
    /\ ops < MaxOps /\ ops' = ops + 1
    /\ Enter(c, q)

Without(i) == SubSeq(calls, 1, i - 1) \o SubSeq(calls, i + 1, Len(calls))
\* The i-th handler goes on with the rest of its script, or is done.
GoOn(i, c) ==
    calls' = IF c.todo = <<>> THEN Without(i) ELSE [calls EXCEPT ![i] = c]
Rest(c) == [c EXCEPT !.todo = Tail(c.todo)]

\* An answer is written into the panel as it is now.
Write(c, q) ==
    /\ p' = Settled(q, seen)
    /\ mixed' = (mixed \/ (c.ws # p.ws /\ <<q.msgs, q.thread>> # <<p.msgs, p.thread>>))

\* setError; setBusy(null); return.
Fail(i) ==
    /\ calls' = Without(i)
    /\ p' = Settled([p EXCEPT !.busy = None], seen)
    /\ UNCHANGED <<runs, seen, chosen, mixed>>

\* The tail of send after ensureRun found its run.
PromptScript(a) ==
    CASE a = "codex" -> <<"account", "prepare", "turn", "hydrate", "refresh", "list">>
      [] a = "goal" -> <<"account", "turn", "hydrate", "refresh", "list">>
      [] OTHER -> <<"turn", "refresh", "list">>

\* send, to its first await.
Send(a) ==
    /\ p.busy = None /\ ~OperatorGateActive(p)
    /\ Start(Call("send", <<"ready">>, a, CompatibleRun(p)), [p EXCEPT !.busy = "send", !.gateErr = FALSE])

\* The effect that continues after an approval.
Continue ==
    /\ p.cont # None /\ p.busy = None /\ ~OperatorGateActive(p) /\ Direct(p)
    /\ Enter(Call("send", <<"ready">>, "chat-gpt", CompatibleRun(p)),
             [p EXCEPT !.busy = "send", !.cont = None])
    /\ UNCHANGED ops

\* A handler that sets busy and awaits `todo'.
Operate(op, todo, q) ==
    /\ p.busy = None
    /\ Start(Call(op, todo, agent[p.ws], None), [q EXCEPT !.busy = op, !.gateErr = FALSE])

\* /new, /clear: createConversation(); /permission: applyPermission.
NewConversation == Operate("new-run", <<"begin", "list", "refresh">>, p)
ApplyPermission(x) ==
    /\ ~OperatorGateActive(p)
    /\ DesiredPermission(p) # x
    /\ p.busy = None
    /\ Start([Call("permission", <<"begin", "list", "refresh">>, agent[p.ws], None) EXCEPT !.perm = x],
             [p EXCEPT !.busy = "permission", !.gateErr = FALSE])
\* resumeNativeConversation, of a summary that was listed for this workspace.
ResumeNative(t) ==
    /\ t \in ThreadsOf(p.ws) /\ p.busy = None
    /\ Start([Call("resume", <<"resume", "list", "refresh">>, agent[p.ws], None) EXCEPT !.thread = t],
             [p EXCEPT !.busy = "resume", !.msgs = {}, !.gateErr = FALSE])
\* clearWorkspaceConversations counts first, and only then sets busy.
ClearAll ==
    /\ p.busy = None
    /\ \A i \in DOMAIN calls : calls[i].op # "clear"
    /\ Start(Call("clear", <<"summaries", "clear", "list">>, agent[p.ws], None), p)
\* Handlers that change nothing here: refreshSetup, installCodex, loginCodex;
\* /status and /usage; !command; the repository picker and /workspace.
InstallCodex == Operate("quick", <<"quick">>, p)
CodexInfo == Operate("quick", <<"quick">>, p)
ExecuteBangCommand == Operate("command", <<"quick", "list">>, p)
WorkspaceCommand == Operate("workspace", <<"quick">>, p)
\* refreshOperatorGateState and cancelOperatorGateRun, /run cancel.
RefreshGate == OperatorGateActive(p) /\ Operate("run", <<"refresh">>, p)
CancelRun ==
    /\ ConversationRun(p, seen) # None /\ seen[ConversationRun(p, seen)].state # "ended"
    /\ p.busy = None
    /\ Start(Call("run", <<"cancel", "list">>, agent[p.ws], ConversationRun(p, seen)),
             [p EXCEPT !.busy = "run", !.gateErr = FALSE])
\* cancelActivePrompt and respondToApproval do not look at busy.
CancelActivePrompt ==
    /\ p.busy = "send" /\ p.active # None /\ p.active \notin p.cancelled
    /\ Start(Call("stop", <<"cancel", "list">>, agent[p.ws], p.active),
             [p EXCEPT !.cancelled = @ \cup {p.active}, !.gateErr = FALSE])
RespondToApproval(r) ==
    /\ r = ConversationRun(p, seen) /\ seen[r].state = "gated"
    /\ \A i \in DOMAIN calls : calls[i].op # "approve"
    /\ Start(Call("approve", <<"respond", "list">>, agent[p.ws], r), [p EXCEPT !.gateErr = FALSE])

\* selectWorkspace in the sidebar, at any time; /agents.
SelectWorkspace(ws) ==
    /\ ws # p.ws
    /\ ops < MaxOps /\ ops' = ops + 1
    /\ p' = Settled(WorkspaceEffect(p, ws), seen)
    /\ UNCHANGED <<runs, seen, agent, chosen, calls, mixed, overlap>>
SelectAgent(a) ==
    /\ p.busy = None /\ agent[p.ws] # a
    /\ ops < MaxOps /\ ops' = ops + 1
    /\ agent' = [agent EXCEPT ![p.ws] = a]
    /\ p' = [p EXCEPT !.key = <<p.key[1], a = "chat-gpt">>,
                      !.hyd = IF p.key[2] = (a = "chat-gpt") THEN p.hyd ELSE p.key[1]]
    /\ UNCHANGED <<runs, seen, chosen, calls, mixed, overlap>>

-----------------------------------------------------------------------------
(* Answers.  Every step ends one await of the i-th handler.                *)

At(i, what) == Head(calls[i].todo) = what

\* The prompt is shown as the operator's own message before the agent hears
\* of it; from the "turn" on it can be cancelled.
Asked(c, q) ==
    LET shown == [q EXCEPT !.msgs = @ \cup {[ws |-> c.ws, own |-> TRUE]}]
    IN  IF Head(c.todo) = "turn" THEN [shown EXCEPT !.active = c.run] ELSE shown
\* A prompt that has its run goes on; one of ChatGPT without asking for the
\* account.
Proceed(i, c, q) ==
    /\ GoOn(i, c)
    /\ Write(c, IF Head(c.todo) \in {"prepare", "turn"} THEN Asked(c, q) ELSE q)

\* ensureRun: the compatible run, a new one, or one that resumes the thread.
EnsureRun(c) ==
    IF c.run # None THEN <<>>
    ELSE IF Native(c) /\ c.thread # None THEN <<"resume">> ELSE <<"begin">>
Ready(i) ==
    LET c == calls[i]
    IN  /\ At(i, "ready")
        /\ \/ Fail(i)
           \/ /\ c.run = None /\ Native(c) /\ c.thread = None => c.hyd = None
              /\ UNCHANGED <<runs, seen, chosen>>
              /\ Proceed(i, [c EXCEPT !.todo = EnsureRun(c) \o PromptScript(c.agent)], p)
        /\ UNCHANGED <<agent, overlap, ops>>

\* createConversation; only a prompt keeps the transcript.
Begun(i) ==
    LET c == [Rest(calls[i]) EXCEPT !.run = Len(runs) + 1]
    IN  /\ At(i, "begin")
        /\ \/ Fail(i)
           \/ /\ Begin(c.ws, c.perm)
              /\ chosen' = IF c.op = "permission" THEN [chosen EXCEPT ![c.ws] = c.perm] ELSE chosen
              /\ UNCHANGED seen
              /\ Proceed(i, c, IF c.op = "send" THEN p ELSE Reset(p))
        /\ UNCHANGED <<agent, overlap, ops>>

\* resumeSelectedThreadForPrompt and resumeNativeConversation.
Resumed(i) ==
    LET c == [Rest(calls[i]) EXCEPT !.run = Len(runs) + 1]
        shown == [p EXCEPT !.thread = c.thread,
                           !.msgs = (IF c.op = "send" THEN @ ELSE {})
                                      \cup {[ws |-> c.ws, own |-> FALSE]}]
    IN  /\ At(i, "resume")
        /\ \/ Fail(i)
           \/ /\ ResumeConversation(c.ws, c.thread, c.perm, FALSE)
              /\ calls' = Without(i)
              /\ p' = Settled([p EXCEPT !.busy = None], seen)
              /\ UNCHANGED <<seen, chosen, mixed>>
           \/ /\ ResumeConversation(c.ws, c.thread, c.perm, TRUE)
              /\ UNCHANGED <<seen, chosen>>
              /\ Proceed(i, c, shown)
        /\ UNCHANGED <<agent, overlap, ops>>

\* getHarnessCodexAccount, prepareHarnessCodexTurn.
Account(i) ==
    /\ At(i, "account")
    /\ \/ Fail(i)
       \/ Proceed(i, Rest(calls[i]), p) /\ UNCHANGED <<runs, seen, chosen>>
    /\ UNCHANGED <<agent, overlap, ops>>
Prepared(i) ==
    LET c == Rest(calls[i])
    IN  /\ At(i, "prepare")
        /\ \/ Fail(i)
           \/ /\ GoOn(i, c)
              /\ p' = Settled([p EXCEPT !.active = c.run], seen)
              /\ UNCHANGED <<runs, seen, chosen, mixed>>
        /\ UNCHANGED <<agent, overlap, ops>>

\* The native turn has a thread, which is written down at once.
BindThread(i) ==
    LET r == calls[i].run
    IN  /\ At(i, "turn") /\ Native(calls[i]) /\ runs[r].thread = None
        /\ runs' = [runs EXCEPT ![r].thread = r, ![r].said = TRUE]
        /\ UNCHANGED <<seen, p, agent, chosen, calls, mixed, overlap, ops>>
\* startStreamingConversationHydration, until the turn is answered.
StreamHydration(i) ==
    LET c == calls[i]
    IN  /\ At(i, "turn") /\ Native(c)
        /\ UNCHANGED seen
        /\ Write(c, [p EXCEPT !.thread = runs[c.run].thread,
                              !.msgs = @ \cup Persisted(c.run) \cup {[ws |-> c.ws, own |-> TRUE]}])
        /\ UNCHANGED <<runs, agent, chosen, calls, overlap, ops>>

\* The end of a prompt: its run is selected, which is awaited ("refresh"),
\* unless it was selected at the start; then the messages of a direct agent
\* are shown, and busy is given up.
Finish(c, q) ==
    [q EXCEPT !.busy = None, !.active = IF c.op = "send" THEN None ELSE @,
              !.msgs = IF c.op = "send" /\ ~Native(c) /\ Head(c.todo) = "refresh"
                         THEN @ \cup {[ws |-> c.ws, own |-> TRUE]} ELSE @]
SelectPromptRun(i, c, q) ==
    IF c.run # c.sel THEN Write(c, [q EXCEPT !.sel = c.run]) /\ GoOn(i, c)
    ELSE Write(c, Finish(c, q)) /\ GoOn(i, Rest(c))

\* runHarnessCodexTurn and runHarnessCodexReviewLoop answer.  A direct
\* failure of the transport takes the operator's message back.
TurnDone(i) ==
    LET c == Rest(calls[i])
        q == [p EXCEPT !.cancelled = @ \ {c.run}]
        leave == [c EXCEPT !.todo = <<"leave", "list">>]
    IN  /\ At(i, "turn")
        /\ \/ /\ Native(c) /\ runs[c.run].thread # None
              /\ runs' = [runs EXCEPT ![c.run].said = TRUE]
              /\ Write(c, [q EXCEPT !.thread = runs[c.run].thread,
                                    !.msgs = @ \cup {[ws |-> c.ws, own |-> FALSE]}])
              /\ GoOn(i, c)
           \/ /\ Native(c) /\ UNCHANGED runs
              /\ \E g \in {c.agent = "codex", FALSE} : Write(c, [q EXCEPT !.gateErr = g])
              /\ GoOn(i, c)
           \/ /\ ~Native(c)
              /\ \E ok \in BOOLEAN : runs' = [runs EXCEPT ![c.run].said = @ \/ ok]
              /\ SelectPromptRun(i, c, q)
           \/ /\ ~Native(c) /\ UNCHANGED runs
              /\ SelectPromptRun(i, leave, [q EXCEPT !.msgs = {m \in @ : ~m.own \/ m.ws # c.ws}])
        /\ UNCHANGED <<seen, agent, chosen, overlap, ops>>

\* hydrateConversation after a turn, which may fail, then onRunSelected.
Hydrated(i) ==
    LET c == Rest(calls[i])
    IN  /\ At(i, "hydrate")
        /\ \E q \in {p, HydrateConversation(p, c.run, c.thread, ~c.direct)} : SelectPromptRun(i, c, q)
        /\ UNCHANGED <<runs, seen, agent, chosen, overlap, ops>>

\* refreshRun of the selected run is answered: the handler gives up busy.
Refreshed(i) ==
    /\ At(i, "refresh") \/ At(i, "leave")
    /\ GoOn(i, Rest(calls[i]))
    /\ Write(calls[i], Finish(calls[i], p))
    /\ UNCHANGED <<runs, seen, agent, chosen, overlap, ops>>

\* onChanged: refreshRuns lists the runs and prefers the run that was
\* selected when the handler started.
Preferred(c) ==
    IF c.sel \in DOMAIN runs /\ runs[c.sel].ws = c.ws THEN c.sel ELSE AutoSelectable(runs, c.ws)
Listed(i) ==
    LET c == Rest(calls[i])
        q == [p EXCEPT !.sel = IF c.todo # <<>> THEN c.run ELSE Preferred(c),
                       !.busy = IF c.op = "run" THEN None ELSE @,
                       !.cont = IF c.op = "approve" /\ c.direct THEN c.ws ELSE @]
    IN  /\ At(i, "list")
        /\ GoOn(i, c)
        /\ \/ seen' = runs /\ p' = Settled(q, runs)
           \/ UNCHANGED seen /\ p' = Settled([q EXCEPT !.sel = IF c.todo # <<>> THEN c.run ELSE p.sel], seen)
        /\ UNCHANGED <<runs, agent, chosen, mixed, overlap, ops>>

\* The awaits that end in setBusy(null); saving a workspace can select it.
Quick(i) ==
    LET c == Rest(calls[i])
        q == [p EXCEPT !.busy = None]
    IN  /\ At(i, "quick")
        /\ GoOn(i, c)
        /\ \/ p' = Settled(q, seen)
           \/ \E ws \in Workspaces \ {p.ws} :
                c.op = "workspace" /\ p' = Settled(WorkspaceEffect(q, ws), seen)
        /\ UNCHANGED <<runs, seen, agent, chosen, mixed, overlap, ops>>

\* cancelHarnessRun; a failing one of the active prompt takes its mark back.
CancelDone(i) ==
    LET c == Rest(calls[i])
    IN  /\ At(i, "cancel")
        /\ \/ /\ runs' = Cancelled(c.run) /\ GoOn(i, c) /\ UNCHANGED p
           \/ /\ UNCHANGED runs /\ calls' = Without(i)
              /\ p' = Settled(IF c.op = "stop" THEN [p EXCEPT !.cancelled = @ \ {c.run}]
                              ELSE [p EXCEPT !.busy = None], seen)
        /\ UNCHANGED <<seen, agent, chosen, mixed, overlap, ops>>

Responded(i) ==
    LET c == Rest(calls[i])
    IN  /\ At(i, "respond")
        /\ \/ /\ runs' = [runs EXCEPT ![c.run].state = IF @ = "gated" THEN "usable" ELSE @]
              /\ GoOn(i, c)
           \/ UNCHANGED runs /\ calls' = Without(i)
        /\ UNCHANGED <<seen, p, agent, chosen, mixed, overlap, ops>>

\* clearWorkspaceConversations: nothing to delete or not confirmed; else the
\* threads of the workspace go.
Counted(i) ==
    /\ At(i, "summaries")
    /\ \/ calls' = Without(i) /\ UNCHANGED p
       \/ GoOn(i, Rest(calls[i])) /\ p' = [p EXCEPT !.busy = "clear"]
    /\ UNCHANGED <<runs, seen, agent, chosen, mixed, overlap, ops>>
Cleared(i) ==
    LET c == Rest(calls[i])
    IN  /\ At(i, "clear")
        /\ \/ Fail(i)
           \/ /\ runs' = [r \in DOMAIN runs |-> IF runs[r].ws # c.ws THEN runs[r]
                                              ELSE [runs[r] EXCEPT !.thread = None, !.said = FALSE]]
              /\ GoOn(i, c) /\ UNCHANGED seen
              /\ Write(c, [Reset(p) EXCEPT !.busy = None])
              /\ UNCHANGED chosen
        /\ UNCHANGED <<agent, overlap, ops>>

\* The hydration effect is answered, or fails and keeps what is shown.
HydrationAnswer ==
    /\ p.hyd # None
    /\ \/ p' = [p EXCEPT !.hyd = None]
       \/ p' = [HydrateConversation(p, p.hyd, p.thread, ~Direct(p)) EXCEPT !.hyd = None]
    /\ UNCHANGED <<runs, seen, agent, chosen, calls, mixed, overlap, ops>>

\* The selected run is polled.
PollRun ==
    /\ p.sel \in DOMAIN seen /\ seen[p.sel] # runs[p.sel]
    /\ seen' = [seen EXCEPT ![p.sel] = runs[p.sel]]
    /\ p' = Settled(p, seen')
    /\ UNCHANGED <<runs, agent, chosen, calls, mixed, overlap, ops>>

-----------------------------------------------------------------------------
EmptyPanel(ws) ==
    [ws |-> ws, sel |-> None, busy |-> None, thread |-> None, msgs |-> {}, hyd |-> None,
     key |-> <<None, FALSE>>, cont |-> None, active |-> None, cancelled |-> {}, gateErr |-> FALSE]

Init ==
    /\ runs \in Inherited
    /\ seen = runs
    /\ \E a \in Agents \ {"goal"} : agent = [ws \in Workspaces |-> a]
    /\ chosen = [ws \in Workspaces |-> None]
    /\ \E ws \in Workspaces : p = Settled(EmptyPanel(ws), seen)
    /\ calls = <<>> /\ mixed = FALSE /\ overlap = FALSE
    /\ ops = 0

OperatorStep ==
    \/ \E a \in Agents : (a = agent[p.ws] \/ a = "goal") /\ Send(a)
    \/ NewConversation \/ ClearAll \/ InstallCodex \/ CodexInfo \/ ExecuteBangCommand
    \/ WorkspaceCommand \/ RefreshGate \/ CancelRun \/ CancelActivePrompt
    \/ \E x \in Permissions : ApplyPermission(x)
    \/ \E r \in DOMAIN runs : ResumeNative(r) \/ RespondToApproval(r)
    \/ \E ws \in Workspaces : SelectWorkspace(ws)
    \/ \E a \in Agents \ {"goal"} : SelectAgent(a)

Answer(i) ==
    \/ Ready(i) \/ Begun(i) \/ Resumed(i) \/ Account(i) \/ Prepared(i) \/ BindThread(i)
    \/ StreamHydration(i) \/ TurnDone(i) \/ Hydrated(i) \/ Refreshed(i) \/ Listed(i)
    \/ Quick(i) \/ CancelDone(i) \/ Responded(i) \/ Counted(i) \/ Cleared(i)

Next ==
    \/ OperatorStep
    \/ \E i \in DOMAIN calls : Answer(i)
    \/ Continue \/ HydrationAnswer \/ PollRun
    \/ \E r \in DOMAIN runs, s \in RunStates : RunChanges(r, s)

Spec == Init /\ [][Next]_vars

-----------------------------------------------------------------------------
(* Properties.                                                             *)

\* A handler that has set busy and has not given it up.
HoldsBusy(c) ==
    /\ c.op \notin {"stop", "approve"}
    /\ c.op = "clear" => Head(c.todo) = "clear"
    /\ c.op \in {"send", "command"} => c.todo # <<"list">>

\* The composer is locked exactly while one handler holds it: no early
\* return, failure or switch of the workspace leaves it locked for good, and
\* no second prompt starts beside a running one.  (/clear all sets busy only
\* after an await; a prompt started meanwhile is the one exception.)
BusyMatches ==
    ~overlap => Cardinality({i \in DOMAIN calls : HoldsBusy(calls[i])})
                  = (IF p.busy = None THEN 0 ELSE 1)

\* A prompt runs in the workspace it was written in and with the permission
\* that was shown, though runs are created, resumed and reselected, and the
\* operator switches, while it is on its way.
PromptRunsAsAsked ==
    \A i \in DOMAIN calls : At(i, "turn") =>
        runs[calls[i].run].ws = calls[i].ws /\ runs[calls[i].run].perm = calls[i].perm

\* No run is ever bound to a native thread of another workspace, not even
\* when the panel has come to show one.
ThreadStaysInWorkspace ==
    \A r \in DOMAIN runs : runs[r].thread # None => runs[runs[r].thread].ws = runs[r].ws

\* Unless a handler that outlived a switch wrote into it, the panel shows
\* messages and a thread of the selected workspace only: an answer to the
\* hydration of another workspace's run is dropped.
ShownIsOfWorkspace ==
    ~mixed => /\ \A m \in p.msgs : m.ws = p.ws
              /\ p.thread # None => runs[p.thread].ws = p.ws

\* A prompt runs once, with the permission it was sent with, and the panel is busy
\* for as long as it runs.
PromptsRunAsAsked == BusyMatches /\ PromptRunsAsAsked

\* No thread is continued in another workspace, and no conversation shown for one,
\* unless a handler that outlived a switch wrote it there.
WorkspacesStayApart == ThreadStaysInWorkspace /\ ShownIsOfWorkspace
=============================================================================
