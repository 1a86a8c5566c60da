--------------------------- MODULE MCConversation ---------------------------
(****************************************************************************)
(* Instances of ConversationTimeline, HarnessPanel and AppShell: the        *)
(* conversation as it is recorded, the panel it is led in and the shell     *)
(* around it. Each module has instances of its own, of one set of           *)
(* variables; which one moves is chosen at the start, so that a run asks    *)
(* the questions of several parts at once. A module with two instances gets *)
(* the longer histories in one and more failures in the other.              *)
(****************************************************************************)
EXTENDS Naturals, Sequences, FiniteSets, TLC

CONSTANTS
    w1, w2, Null

\* The instance that moves; the variables of the other modules are Off.
VARIABLE watch
VARIABLES
    logStore, logThread, logTimer, logQueue, logDisk, logChannel, logPanel, logView,
    logLosses, logSynced, logStale, logRecords, logWrites, logViews, logFaults
VARIABLES
    panelRuns, panelSeen, panelP, panelAgent, panelChosen, panelCalls,
    panelMixed, panelOverlap, panelOps
VARIABLES
    shellDaemon, shellRegistry, shellUsable, shellCli, shellJobs, shellEvents,
    shellGeneration, shellRefreshes, shellSignals, shellListed, shellSelected,
    shellWelcome, shellWizard, shellCommands, shellBusy, shellRetry,
    shellHash, shellRoute, shellDialog, shellSection, shellHashEvent,
    shellBounds, shellChanges, shellFaults, shellSeen, shellError, shellUnheard,
    shellOverlapped

logVars ==
    <<logStore, logThread, logTimer, logQueue, logDisk, logChannel, logPanel,
      logView, logLosses, logSynced, logStale, logRecords, logWrites,
      logViews, logFaults>>
panelVars ==
    <<panelRuns, panelSeen, panelP, panelAgent, panelChosen, panelCalls,
      panelMixed, panelOverlap, panelOps>>
shellVars ==
    <<shellDaemon, shellRegistry, shellUsable, shellCli, shellJobs,
      shellEvents, shellGeneration, shellRefreshes, shellSignals, shellListed,
      shellSelected, shellWelcome, shellWizard, shellCommands, shellBusy,
      shellRetry, shellHash, shellRoute, shellDialog, shellSection,
      shellHashEvent, shellBounds, shellChanges, shellFaults, shellSeen, shellError,
      shellUnheard, shellOverlapped>>
Off == "off"

\* One run: deltas of a reply and of a command, a command that failed, a tool call, a
\* change of two files; tool calls of ChatGPT, one of them with an item; a message and
\* its correction; and a file of the first version with an unfinished reply.
Note(method, type, body, failed) ==
    [run |-> "r1", item |-> <<"turn", "i">>, method |-> method, type |-> type,
     body |-> body, failed |-> failed, args |-> "p"]
SomeNotes ==
    {Note("agent-message-delta", "", <<"a">>, FALSE),
     Note("item/commandExecution/outputDelta", "", <<"a">>, FALSE),
     Note("item/started", "mcpToolCall", <<>>, FALSE),
     Note("item/completed", "commandExecution", <<"a", "a">>, TRUE),
     Note("item/completed", "fileChange", <<"f", "g">>, FALSE)}
FewNotes == {n \in SomeNotes : n.method \in {"agent-message-delta", "item/started"}}
Call(stage, item, args) ==
    [src |-> "chatgpt", run |-> "r1", task |-> "k", item |-> item, kind |-> "tool",
     stage |-> stage, text |-> <<>>, out |-> <<"a">>, diff |-> <<>>,
     tool |-> "x", args |-> args]
SomeReplies == {Call("", <<>>, "p"), Call("completed", <<"i">>, Null)}
SomeMessages == {[id |-> 1, run |-> "r1", text |-> x] : x \in {"a", "b"}}
NoFile == [legacy |-> FALSE, log |-> <<>>, acts |-> <<>>, messages |-> <<>>,
           nextPosition |-> 1]
OldReply ==
    [id |-> [src |-> "codex", scope |-> <<"r1", FALSE>>, kind |-> "response",
             key |-> <<"turn", "i">>, position |-> 0],
     src |-> "codex", run |-> "r1", item |-> <<"turn", "i">>, task |-> Null,
     thread |-> FALSE, kind |-> "response", stage |-> "streaming", position |-> 1,
     tool |-> Null, args |-> Null, text |-> <<"a">>, out |-> <<>>, diff |-> <<>>]
OldFile == [NoFile EXCEPT !.legacy = TRUE, !.acts = <<OldReply>>]

\* Nothing yet; or a run with a thread in one workspace, and one that has ended in
\* the other.
Default == CHOOSE x \in {"write", "read"} : TRUE
Run(ws, s, t) == [ws |-> ws, perm |-> Default, state |-> s, thread |-> t, said |-> t # Null]
SomeRuns == {<<>>, <<Run(w1, "usable", 1), Run(w2, "ended", 2)>>, <<Run(w2, "usable", 1), Run(w1, "ended", 2)>>}

\* What the window opens on, and how much of what may follow: workspace commands
\* beside the daemon's events or beside a failure, on a runtime that is set up; setup
\* itself, begun or not, with any Codex; and a screen or a section of the settings.
Opened(d, c, w, h) == [daemon |-> d, cli |-> c, welcome |-> w, hash |-> h]
Codex(a) == [installed |-> TRUE, account |-> a]
SomeCodex == {[installed |-> FALSE, account |-> "none"]}
                 \union {Codex(a) : a \in {"none", "apiKey", "chatgpt"}}
Follows(n, d, w, a, o, s, f) ==
    [refreshes |-> n, faults |-> f,
     changes |-> [daemon |-> d, works |-> w, account |-> a, other |-> o, screens |-> s]]
StartsOf(opened, follows) == {o @@ f : o \in opened, f \in follows}
SomeStarts ==
    StartsOf({Opened(d, Codex("chatgpt"), TRUE, "harness") : d \in {"stopped", "ready"}},
             {Follows(3, 0, 2, 0, 0, 0, 0), Follows(3, 1, 1, 0, 0, 0, 0),
              Follows(2, 0, 1, 0, 0, 0, 1)})
    \union
    StartsOf({Opened("ready", c, w, "harness") : c \in SomeCodex, w \in BOOLEAN},
             {Follows(2, 0, 0, 1, 0, 0, 1)})
    \union
    StartsOf({Opened("ready", Codex("chatgpt"), TRUE, h) : h \in {"harness", "mcp"}},
             {Follows(2, 0, 0, 0, 1, 2, 0)})

LogFaults == INSTANCE ConversationTimeline WITH
    Runs <- {"r1"}, Owner <- [r \in {"r1"} |-> "w"], Notes <- SomeNotes,
    Replies <- SomeReplies, Messages <- SomeMessages, Files <- {NoFile, OldFile},
    MaxEvents <- 3, MaxMessages <- 1, MaxText <- 3, MaxShown <- 2, MaxShownText <- 2,
    MaxRecords <- 2, MaxWrites <- 2, MaxViews <- 0, MaxFaults <- 1,
    None <- Null, store <- logStore, thread <- logThread,
    timer <- logTimer, queue <- logQueue, disk <- logDisk,
    channel <- logChannel, panel <- logPanel, view <- logView,
    losses <- logLosses, synced <- logSynced, stale <- logStale,
    records <- logRecords, writes <- logWrites, views <- logViews,
    faults <- logFaults

Log == INSTANCE ConversationTimeline WITH
    Runs <- {"r1"}, Owner <- [r \in {"r1"} |-> "w"], Notes <- FewNotes,
    Replies <- SomeReplies, Messages <- {}, Files <- {NoFile},
    MaxEvents <- 2, MaxMessages <- 1, MaxText <- 3, MaxShown <- 2, MaxShownText <- 2,
    MaxRecords <- 3, MaxWrites <- 0, MaxViews <- 3, MaxFaults <- 0,
    None <- Null, store <- logStore, thread <- logThread,
    timer <- logTimer, queue <- logQueue, disk <- logDisk,
    channel <- logChannel, panel <- logPanel, view <- logView,
    losses <- logLosses, synced <- logSynced, stale <- logStale,
    records <- logRecords, writes <- logWrites, views <- logViews,
    faults <- logFaults

Panel == INSTANCE HarnessPanel WITH
    Workspaces <- {w1, w2}, Permissions <- {"write", "read"},
    Agents <- {"codex", "goal"}, Inherited <- SomeRuns, MaxRuns <- 2,
    MaxOps <- 3, None <- Null, runs <- panelRuns, seen <- panelSeen,
    p <- panelP, agent <- panelAgent, chosen <- panelChosen,
    calls <- panelCalls, mixed <- panelMixed, overlap <- panelOverlap,
    ops <- panelOps

PanelRuns == INSTANCE HarnessPanel WITH
    Workspaces <- {w1, w2}, Permissions <- {"write", "read"},
    Agents <- {"codex", "chat-gpt", "goal"}, Inherited <- SomeRuns,
    MaxRuns <- 3, MaxOps <- 2, None <- Null, runs <- panelRuns,
    seen <- panelSeen, p <- panelP, agent <- panelAgent,
    chosen <- panelChosen, calls <- panelCalls, mixed <- panelMixed,
    overlap <- panelOverlap, ops <- panelOps

Shell == INSTANCE AppShell WITH
    Workspaces <- {w1, w2}, None <- Null, Starts <- SomeStarts,
    daemon <- shellDaemon, registry <- shellRegistry, usable <- shellUsable,
    cli <- shellCli, jobs <- shellJobs, events <- shellEvents,
    generation <- shellGeneration, refreshes <- shellRefreshes,
    signals <- shellSignals, listed <- shellListed, selected <- shellSelected,
    welcome <- shellWelcome, wizard <- shellWizard, commands <- shellCommands,
    busy <- shellBusy, retry <- shellRetry, hash <- shellHash,
    route <- shellRoute, dialog <- shellDialog, section <- shellSection,
    hashEvent <- shellHashEvent, bounds <- shellBounds,
    changes <- shellChanges, faults <- shellFaults, seen <- shellSeen,
    error <- shellError, unheard <- shellUnheard,
    overlapped <- shellOverlapped

-----------------------------------------------------------------------------
LogOff ==
    /\ logStore = Off /\ logThread = Off /\ logTimer = Off /\ logQueue = Off
    /\ logDisk = Off /\ logChannel = Off /\ logView = Off /\ logLosses = Off
    /\ logSynced = Off /\ logStale = Off /\ logPanel = Off
    /\ logRecords = Off /\ logWrites = Off /\ logViews = Off
    /\ logFaults = Off
PanelOff ==
    /\ panelRuns = Off /\ panelSeen = Off /\ panelP = Off /\ panelAgent = Off
    /\ panelChosen = Off /\ panelCalls = Off /\ panelMixed = Off
    /\ panelOverlap = Off /\ panelOps = Off
ShellOff ==
    /\ shellDaemon = Off /\ shellRegistry = Off /\ shellUsable = Off
    /\ shellCli = Off /\ shellJobs = Off /\ shellEvents = Off
    /\ shellGeneration = Off /\ shellRefreshes = Off /\ shellSignals = Off
    /\ shellListed = Off /\ shellSelected = Off /\ shellWelcome = Off
    /\ shellWizard = Off /\ shellCommands = Off /\ shellBusy = Off
    /\ shellRetry = Off /\ shellHash = Off /\ shellRoute = Off
    /\ shellDialog = Off /\ shellSection = Off /\ shellHashEvent = Off
    /\ shellBounds = Off /\ shellChanges = Off /\ shellFaults = Off /\ shellSeen = Off
    /\ shellError = Off /\ shellUnheard = Off /\ shellOverlapped = Off

Init ==
    \/ /\ watch = "log faults" /\ LogFaults!Init
       /\ PanelOff /\ ShellOff
    \/ /\ watch = "log" /\ Log!Init
       /\ PanelOff /\ ShellOff
    \/ /\ watch = "panel" /\ Panel!Init
       /\ LogOff /\ ShellOff
    \/ /\ watch = "panel runs" /\ PanelRuns!Init
       /\ LogOff /\ ShellOff
    \/ /\ watch = "shell" /\ Shell!Init
       /\ LogOff /\ PanelOff
Next ==
    \/ /\ watch = "log faults" /\ LogFaults!Next
       /\ UNCHANGED <<watch, panelVars, shellVars>>
    \/ /\ watch = "log" /\ Log!Next
       /\ UNCHANGED <<watch, panelVars, shellVars>>
    \/ /\ watch = "panel" /\ Panel!Next
       /\ UNCHANGED <<watch, logVars, shellVars>>
    \/ /\ watch = "panel runs" /\ PanelRuns!Next
       /\ UNCHANGED <<watch, logVars, shellVars>>
    \/ /\ watch = "shell" /\ Shell!Next
       /\ UNCHANGED <<watch, logVars, panelVars>>
Spec == Init /\ [][Next]_<<watch, logVars, panelVars, shellVars>>

\* Processes, calls and names that a module treats alike.
Symmetry ==
    Permutations({w1, w2})

-----------------------------------------------------------------------------
\* The activity log replays to the timeline that was shown, and with nothing
\* under way to it the panel shows what the store holds: no delta is lost or
\* applied twice (conversation-activity-store.ts, CodexChatPanel.tsx).
TimelineIsKept ==
    /\ watch = "log faults" => LogFaults!TimelineIsKept
    /\ watch = "log" => Log!TimelineIsKept

\* A prompt runs once, with the permission it was sent with, and the panel is
\* busy for as long as it runs (CodexChatPanel.tsx).
PromptsRunAsAsked ==
    /\ watch = "panel" => Panel!PromptsRunAsAsked
    /\ watch = "panel runs" => PanelRuns!PromptsRunAsAsked

\* No thread is continued in, and no conversation shown for, another workspace
\* (CodexChatPanel.tsx, HarnessScreen.tsx).
WorkspacesStayApart ==
    /\ watch = "panel" => Panel!WorkspacesStayApart
    /\ watch = "panel runs" => PanelRuns!WorkspacesStayApart

\* The shell shows the runtime as it is, calls nothing ready that is not, and
\* shows the screen its address names (App.tsx, setup-state.ts,
\* navigation.ts).
ShellIsTruthful ==
    watch = "shell" => Shell!ShellIsTruthful

=============================================================================
