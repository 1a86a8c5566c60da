------------------------------ MODULE MCControl ------------------------------
(****************************************************************************)
(* ProviderPulls with instances of DesktopControl and ReviewBrowser beside  *)
(* it: what is done on the user's behalf outside the application - on pull  *)
(* requests, on the desktop and on a ChatGPT page. Which one moves is       *)
(* chosen at the start, so that a run asks the questions of all at once;    *)
(* the variables of ProviderPulls keep their initial values while another   *)
(* module moves. A module gets the longer histories with one set of bounds  *)
(* and more failures with the other.                                        *)
(****************************************************************************)
EXTENDS ProviderPulls, TLC

\* The instance that moves; the variables of an instance that stands still are Off.
VARIABLE watch
VARIABLES
    controlFocus, controlBackend, controlPerms, controlAsked, controlFile,
    controlCalls, controlChild, controlHelpers, controlCloses, controlProbed,
    controlToken, controlShot, controlSeen, controlHits, controlHeld,
    controlServer, controlExt, controlRec, controlBegun, controlTicks,
    controlStarts, controlFaults, controlOverlap, controlDropped, controlMissed
VARIABLES
    chatLoop, chatTransport, chatActive, chatCancelled, chatExec, chatPage,
    chatAttempted, chatConvs, chatLive, chatCmds, chatStore, chatLogical,
    chatFaults, chatStrays, chatDisturbed, chatResent
controlVars ==
    <<controlFocus, controlBackend, controlPerms, controlAsked,
      controlFile, controlCalls, controlChild, controlHelpers,
      controlCloses, controlProbed, controlToken, controlShot, controlSeen,
      controlHits, controlHeld, controlServer, controlExt, controlRec,
      controlBegun, controlTicks, controlStarts, controlFaults,
      controlOverlap, controlDropped, controlMissed>>
chatVars ==
    <<chatLoop, chatTransport, chatActive, chatCancelled, chatExec,
      chatPage, chatAttempted, chatConvs, chatLive, chatCmds, chatStore,
      chatLogical, chatFaults, chatStrays, chatDisturbed, chatResent>>
Off == "off"

Control == INSTANCE DesktopControl WITH
    Agents <- {"a"}, MaxHelpers <- 3, MaxCalls <- 3, MaxTicks <- 3,
    MaxStarts <- 2, MaxFaults <- 0, focus <- controlFocus,
    backend <- controlBackend, perms <- controlPerms, asked <- controlAsked,
    file <- controlFile, calls <- controlCalls, child <- controlChild,
    helpers <- controlHelpers, closes <- controlCloses,
    probed <- controlProbed, token <- controlToken, shot <- controlShot,
    seen <- controlSeen, hits <- controlHits, held <- controlHeld,
    server <- controlServer, ext <- controlExt, rec <- controlRec,
    begun <- controlBegun, ticks <- controlTicks, starts <- controlStarts,
    faults <- controlFaults, overlap <- controlOverlap,
    dropped <- controlDropped, missed <- controlMissed

ControlFaults == INSTANCE DesktopControl WITH
    Agents <- {"a"}, MaxHelpers <- 3, MaxCalls <- 2, MaxTicks <- 3,
    MaxStarts <- 2, MaxFaults <- 2, focus <- controlFocus,
    backend <- controlBackend, perms <- controlPerms, asked <- controlAsked,
    file <- controlFile, calls <- controlCalls, child <- controlChild,
    helpers <- controlHelpers, closes <- controlCloses,
    probed <- controlProbed, token <- controlToken, shot <- controlShot,
    seen <- controlSeen, hits <- controlHits, held <- controlHeld,
    server <- controlServer, ext <- controlExt, rec <- controlRec,
    begun <- controlBegun, ticks <- controlTicks, starts <- controlStarts,
    faults <- controlFaults, overlap <- controlOverlap,
    dropped <- controlDropped, missed <- controlMissed

Agents == INSTANCE ReviewBrowser WITH
    Tasks <- Workspaces, Tabs <- {"tab"}, Logicals <- {"g"},
    Iterations <- [t \in Workspaces |-> 0], MaxConversations <- 2,
    MaxProjects <- 1, MaxCommands <- 2, MaxFaults <- 1, loop <- chatLoop,
    transport <- chatTransport, active <- chatActive,
    cancelled <- chatCancelled, exec <- chatExec, page <- chatPage,
    attempted <- chatAttempted, convs <- chatConvs, live <- chatLive,
    cmds <- chatCmds, store <- chatStore, logical <- chatLogical,
    faults <- chatFaults, strays <- chatStrays, disturbed <- chatDisturbed,
    resent <- chatResent

Loop == INSTANCE ReviewBrowser WITH
    Tasks <- {"t1"}, Tabs <- {"tab"}, Logicals <- {"g"},
    Iterations <- [t \in {"t1"} |-> 1], MaxConversations <- 2,
    MaxProjects <- 1, MaxCommands <- 2, MaxFaults <- 2, loop <- chatLoop,
    transport <- chatTransport, active <- chatActive,
    cancelled <- chatCancelled, exec <- chatExec, page <- chatPage,
    attempted <- chatAttempted, convs <- chatConvs, live <- chatLive,
    cmds <- chatCmds, store <- chatStore, logical <- chatLogical,
    faults <- chatFaults, strays <- chatStrays, disturbed <- chatDisturbed,
    resent <- chatResent

Both == INSTANCE ReviewBrowser WITH
    Tasks <- {"t1", "t2"}, Tabs <- {"tab"}, Logicals <- {"g"},
    Iterations <- [t \in {"t1", "t2"} |-> IF t = "t1" THEN 1 ELSE 0],
    MaxConversations <- 2, MaxProjects <- 1, MaxCommands <- 2,
    MaxFaults <- 0, loop <- chatLoop, transport <- chatTransport,
    active <- chatActive, cancelled <- chatCancelled, exec <- chatExec,
    page <- chatPage, attempted <- chatAttempted, convs <- chatConvs,
    live <- chatLive, cmds <- chatCmds, store <- chatStore,
    logical <- chatLogical, faults <- chatFaults, strays <- chatStrays,
    disturbed <- chatDisturbed, resent <- chatResent

PullFaults == INSTANCE ProviderPulls WITH MaxLoads <- 1, MaxFaults <- 1

-----------------------------------------------------------------------------
ControlOff ==
    /\ controlFocus = Off /\ controlBackend = Off /\ controlPerms = Off
    /\ controlAsked = Off /\ controlFile = Off /\ controlCalls = Off
    /\ controlChild = Off /\ controlHelpers = Off /\ controlCloses = Off
    /\ controlProbed = Off /\ controlToken = Off /\ controlShot = Off
    /\ controlSeen = Off /\ controlHits = Off /\ controlHeld = Off
    /\ controlServer = Off /\ controlExt = Off /\ controlRec = Off
    /\ controlBegun = Off /\ controlTicks = Off /\ controlStarts = Off
    /\ controlFaults = Off /\ controlOverlap = Off /\ controlDropped = Off
    /\ controlMissed = Off
ChatOff ==
    /\ chatLoop = Off /\ chatTransport = Off /\ chatActive = Off
    /\ chatCancelled = Off /\ chatExec = Off /\ chatPage = Off
    /\ chatAttempted = Off /\ chatConvs = Off /\ chatLive = Off
    /\ chatCmds = Off /\ chatStore = Off /\ chatLogical = Off
    /\ chatFaults = Off /\ chatStrays = Off /\ chatDisturbed = Off
    /\ chatResent = Off
\* No task has pushed its branch yet: every pull request is the provider's own.
AtRest == Init /\ \A w \in Workspaces : task[w].phase = "none"

ControlInit ==
    \/ /\ watch = "control" /\ Control!Init
       /\ ChatOff /\ AtRest
    \/ /\ watch = "control faults" /\ ControlFaults!Init
       /\ ChatOff /\ AtRest
    \/ /\ watch = "agents" /\ Agents!Init
       /\ ControlOff /\ AtRest
    \/ /\ watch = "loop" /\ Loop!Init
       /\ ControlOff /\ AtRest
    \/ /\ watch = "both" /\ Both!Init
       /\ ControlOff /\ AtRest
    \/ /\ watch \in {"pull", "pull faults"} /\ Init
       /\ ControlOff /\ ChatOff
ControlNext ==
    \/ /\ watch = "control" /\ Control!Next
       /\ UNCHANGED <<watch, chatVars, vars>>
    \/ /\ watch = "control faults" /\ ControlFaults!Next
       /\ UNCHANGED <<watch, chatVars, vars>>
    \/ /\ watch = "agents" /\ Agents!Next
       /\ UNCHANGED <<watch, controlVars, vars>>
    \/ /\ watch = "loop" /\ Loop!Next
       /\ UNCHANGED <<watch, controlVars, vars>>
    \/ /\ watch = "both" /\ Both!Next
       /\ UNCHANGED <<watch, controlVars, vars>>
    \/ /\ watch = "pull" /\ Next
       /\ UNCHANGED <<watch, controlVars, chatVars>>
    \/ /\ watch = "pull faults" /\ PullFaults!Next
       /\ UNCHANGED <<watch, controlVars, chatVars>>
ControlSpec == ControlInit /\ [][ControlNext]_<<watch, controlVars, chatVars, vars>>

\* Processes, calls and names that a module treats alike.
Symmetry ==
    Permutations(Workspaces)

-----------------------------------------------------------------------------
\* Agents control the desktop within what the user chose: the portal grant,
\* the stored choice, the injected input and the gateway all follow it
\* (desktop-control-bridge.ts, desktop-control-mcp-server.ts, desktop-control-
\* wayland-portal.ts).
ControlFollowsChoice ==
    /\ watch = "control" => Control!ControlFollowsChoice
    /\ watch = "control faults" => ControlFaults!ControlFollowsChoice

\* A task acts on the reply to its own question, never on another one the page
\* or a tab holds (chatgpt-review-response-ownership.ts, chatgpt-review-
\* loop.ts, content.js).
RepliesBelong ==
    /\ watch = "agents" => Agents!RepliesBelong
    /\ watch = "loop" => Loop!RepliesBelong
    /\ watch = "both" => Both!RepliesBelong

\* A control message reaches ChatGPT twice only through a redelivered command
\* or the fallback to the window (chrome-extension-bridge.ts, content.js).
SubmittedOnce ==
    /\ watch = "agents" => Agents!SubmittedOnce
    /\ watch = "loop" => Loop!SubmittedOnce
    /\ watch = "both" => Both!SubmittedOnce

=============================================================================
