-------------------------------- MODULE AppShell --------------------------------
(***************************************************************************)
(* The renderer's shell: what App.tsx knows of the runtime and how first-  *)
(* run setup (onboarding.ts, OnboardingWizard.tsx) follows from it, the    *)
(* manager of the Codex command line behind it (codex-cli-manager.ts), and *)
(* the routes and the settings dialog (navigation.ts, SettingsModal.tsx).  *)
(*                                                                         *)
(* refreshRuntimeState asks the main process several things at once and    *)
(* applies the answers when all are there, unless a later refresh began.   *)
(* Events of the main process change the signals at once and start another *)
(* refresh.  Nothing else is told of a login or of a repository that       *)
(* breaks.  The setup card forgets that one of its requests is under way   *)
(* when the wizard is left, so its buttons are taken as always enabled.    *)
(* The product profile is settled before the window opens and the signals  *)
(* of the optional services gate nothing: both are left out.               *)
(***************************************************************************)
EXTENDS Naturals, Sequences, FiniteSets, SequencesExt

CONSTANTS Workspaces,
          None,          \* a model value
          Starts         \* what the window may open on: [daemon, cli, welcome, hash],
                         \* and the bounds of what follows: refreshes, changes (steps of
                         \* the daemon, of workspaces, of the account, of other services
                         \* and between screens), faults (answers and commands that fail)

VARIABLES
  daemon,      \* the daemon's state
  registry,    \* the managed workspaces, in order
  usable,      \* the ones whose repository is writable and valid now
  cli,         \* the Codex command line: installed, account
  jobs,        \* the manager's installation and login under way
  events,      \* state events on their way to the window
  generation,  \* runtimeRefreshGeneration
  refreshes,   \* the refresh under way
  signals,     \* onboardingRuntimeSignals
  listed, selected,
  welcome,     \* the stored progress: welcomeAcknowledged
  wizard,      \* showOnboarding
  commands,    \* workspace commands under way
  busy,        \* the panel waits for one
  retry,       \* a retry of setup: "no", "ask", "start"
  hash, route, dialog, section, hashEvent,
  bounds, changes, faults,
  seen,        \* what has been true of the command line so far
  error,       \* the last refresh got an error
  unheard,     \* a save nobody was told of: the refresh that was the last one then
  overlapped   \* a workspace command or an import began beside a command

outside == <<daemon, registry, usable, cli, jobs>>
shell == <<signals, listed, selected, welcome, wizard>>
asking == <<commands, busy, retry>>
known == <<seen, error, unheard, overlapped>>
navigation == <<hash, route, dialog, section, hashEvent>>
vars == <<outside, events, generation, refreshes, shell, asking, navigation, bounds, changes,
          faults, known>>

DaemonStates == {"stopped", "starting", "ready", "external", "crashed"}
Up == {"ready", "external"}
Fault == faults < bounds.faults /\ faults' = faults + 1
Change(kind) == changes[kind] < bounds.changes[kind] /\ changes' = [changes EXCEPT ![kind] = @ + 1]

-----------------------------------------------------------------------------
(* Onboarding: the step the signals recommend. *)

CodexChatgptReady(probes) == \E p \in probes : p.authenticated /\ p.account = "chatgpt"
RecommendedStep(s) ==
  IF ~welcome THEN "welcome"
  ELSE IF ~s.installed \/ ~s.authenticated THEN "codex"
  ELSE IF ~s.workspace \/ ~s.daemon THEN "workspace"
  ELSE "ready"
OnboardingActive(step) ==
  route = "harness" /\ wizard /\ step # "ready" /\ RecommendedStep(signals) = step
InHarness == route = "harness" /\ (wizard => RecommendedStep(signals) = "ready")
\* Only the daemon's state says something of a signal that matters.
ApplyRuntimeEvent(s, e) == IF e \in DaemonStates THEN [s EXCEPT !.daemon = e \in Up] ELSE s
\* When the panel is left, for another screen or for setup, its commands go on
\* without it.
LeavesPanel ==
  IF InHarness /\ ~InHarness'
  THEN /\ busy' = FALSE /\ commands' = {[c EXCEPT !.mine = FALSE] : c \in commands}
  ELSE UNCHANGED <<busy, commands>>
EmptySignals == [installed |-> FALSE, authenticated |-> FALSE,
                 workspace |-> FALSE, daemon |-> FALSE]

-----------------------------------------------------------------------------
(* The command line as the manager's probes see it. *)

NotInstalled == [installed |-> FALSE, authenticated |-> FALSE, account |-> "none"]
\* status(): the version and the login are asked one after the other; a probe
\* that fails or times out reads as nothing.
Status(c, version, login) ==
  IF ~c.installed THEN NotInstalled
  ELSE [installed |-> version, authenticated |-> login /\ c.account = "chatgpt",
        account |-> IF login THEN c.account ELSE "none"]
See(c) == [installed |-> seen.installed \/ c.installed,
           chatgpt |-> seen.chatgpt \/ (c.installed /\ c.account = "chatgpt")]

-----------------------------------------------------------------------------
(* refreshRuntimeState *)

\* An overtaken refresh returns when its answers are there; it is dropped at once.
Refresh ==
  /\ generation < bounds.refreshes
  /\ generation' = generation + 1
  /\ refreshes' = {[gen |-> generation + 1, daemon |-> "unread", works |-> <<>>, listed |-> FALSE,
                    setup |-> None, account |-> "unasked"]}
Answered(r, q) == refreshes' = (refreshes \ {r}) \union {q}
reading == <<outside, events, generation, shell, asking, navigation, changes, known>>

\* The answers, each taken in the main process at its own time.
ReadDaemon(r) ==
  /\ r.daemon = "unread"
  /\ \/ Answered(r, [r EXCEPT !.daemon = daemon]) /\ UNCHANGED faults
     \/ Fault /\ Answered(r, [r EXCEPT !.daemon = "failed"])
  /\ UNCHANGED reading
\* listManagedWorkspaces: each with what its repository looks like now.
ReadWorkspaces(r) ==
  /\ ~r.listed
  /\ \/ /\ Answered(r, [r EXCEPT !.listed = TRUE,
                        !.works = [i \in DOMAIN registry |->
                                     [id |-> registry[i], ready |-> registry[i] \in usable]]])
        /\ UNCHANGED faults
     \/ Fault /\ Answered(r, [r EXCEPT !.listed = TRUE, !.works = None])
  /\ UNCHANGED reading
ReadSetup(r) ==
  /\ r.setup = None
  /\ \/ Answered(r, [r EXCEPT !.setup = Status(cli, TRUE, TRUE)]) /\ UNCHANGED faults
     \/ /\ Fault
        /\ \E version, login \in BOOLEAN :
             Answered(r, [r EXCEPT !.setup = Status(cli, version, login)])
     \/ Fault /\ Answered(r, [r EXCEPT !.setup = NotInstalled])
  /\ UNCHANGED reading

AllRead(r) == r.daemon # "unread" /\ r.listed /\ r.setup # None
ReadyOf(r) == IF r.works = None THEN <<>> ELSE SelectSeq(r.works, LAMBDA w : w.ready)
NeedsAccount(r) == ~CodexChatgptReady({r.setup}) /\ ReadyOf(r) # <<>>
\* The app-server's account, asked only when the probe did not confirm the login.
ReadAccount(r) ==
  /\ AllRead(r) /\ NeedsAccount(r) /\ r.account = "unasked"
  /\ \/ Answered(r, [r EXCEPT !.account = IF cli.installed THEN cli.account ELSE "none"])
        /\ UNCHANGED faults
     \/ Fault /\ Answered(r, [r EXCEPT !.account = "none"])
  /\ UNCHANGED reading

Complete(r) == AllRead(r) /\ (NeedsAccount(r) => r.account # "unasked")
Native(r) == [authenticated |-> r.account = "chatgpt",
              account |-> IF r.account = "unasked" THEN "none" ELSE r.account]
FirstOf(r) == IF ReadyOf(r) # <<>> THEN ReadyOf(r)[1].id
              ELSE IF r.works # <<>> THEN r.works[1].id ELSE None
Selection(r) == IF r.works = None THEN None
                ELSE IF selected \in {r.works[i].id : i \in DOMAIN r.works} THEN selected
                ELSE FirstOf(r)
SignalsOf(r) ==
  [installed |-> r.setup.installed \/ CodexChatgptReady({Native(r)}),
   authenticated |-> CodexChatgptReady({r.setup, Native(r)}),
   workspace |-> ReadyOf(r) # <<>>,
   daemon |-> r.daemon \in Up]
Apply(r) ==
  /\ Complete(r)
  /\ refreshes' = refreshes \ {r} /\ signals' = SignalsOf(r)
  /\ listed' = (IF r.works = None THEN <<>> ELSE [i \in DOMAIN r.works |-> r.works[i].id])
  /\ selected' = Selection(r)
  /\ error' = (r.works = None \/ r.daemon = "failed")
  /\ unheard' = (IF r.gen > unheard THEN 0 ELSE unheard)
  /\ overlapped' = (overlapped /\ commands # {})
  /\ UNCHANGED <<outside, events, generation, welcome, wizard, retry, navigation, changes, faults,
                 seen>>
  /\ LeavesPanel

-----------------------------------------------------------------------------
(* Events of the main process. *)

DaemonNext == [stopped |-> {"starting", "external"}, starting |-> {"ready", "crashed", "stopped"},
               ready |-> {"stopped", "crashed"}, external |-> {"stopped"}, crashed |-> {"starting"}]
DaemonStep ==
  /\ Change("daemon")
  /\ daemon' \in DaemonNext[daemon] /\ events' = Append(events, daemon')
  /\ UNCHANGED <<registry, usable, cli, jobs, generation, refreshes, shell, asking, navigation,
                 faults, known>>
\* Git providers and the public route report too.
OtherEvent ==
  /\ Change("other") /\ events' = Append(events, "other")
  /\ UNCHANGED <<outside, generation, refreshes, shell, asking, navigation, faults, known>>
OnEvent ==
  /\ events # <<>> /\ Refresh
  /\ signals' = ApplyRuntimeEvent(signals, Head(events)) /\ events' = Tail(events)
  /\ UNCHANGED <<outside, listed, selected, welcome, wizard, retry, navigation, changes, faults,
                 known>>
  /\ LeavesPanel

-----------------------------------------------------------------------------
(* Workspaces: commands of the conversation, and what happens on disk. *)

Without(w) == SelectSeq(registry, LAMBDA v : v # w)
Saved(w) == IF Contains(registry, w) THEN registry ELSE Append(registry, w)
\* The panel sends one command at a time, but forgets it when it is left.
\* saveWorkspace writes the registry and then inspects the repository once more.
Command(next, w) ==
  /\ InHarness /\ ~busy /\ next # registry /\ Change("works")
  /\ registry' = next /\ busy' = TRUE
  /\ overlapped' = (overlapped \/ commands # {})
  /\ \/ /\ commands' = commands \union {[at |-> "saved", select |-> w, gen |-> 0, mine |-> TRUE]}
        /\ UNCHANGED <<unheard, faults>>
     \/ /\ Fault /\ w # None /\ unheard' = generation
        /\ commands' = commands \union {[at |-> "lost", select |-> None, gen |-> 0, mine |-> TRUE]}
  /\ UNCHANGED <<daemon, usable, cli, jobs, events, generation, refreshes, shell, retry, navigation,
                 seen, error>>
SaveWorkspace(w) == w \in usable /\ Command(Saved(w), w)
RemoveWorkspace(w) == Contains(listed, w) /\ Command(Without(w), None)
\* A command that succeeded goes on with a refresh and, when that is over or
\* overtaken, selects what it added; one that failed only shows why.
Over(c) == commands' = commands \ {c} /\ busy' = (busy /\ ~c.mine)
Commanded(c) ==
  /\ \/ /\ c.at = "saved" /\ Refresh
        /\ commands' = (commands \ {c})
                          \union {[c EXCEPT !.at = "refreshing", !.gen = generation + 1]}
        /\ UNCHANGED <<selected, busy>>
     \/ /\ c.at = "refreshing" /\ \A r \in refreshes : r.gen # c.gen
        /\ Over(c) /\ selected' = IF c.select # None THEN c.select ELSE selected
        /\ UNCHANGED <<generation, refreshes>>
     \/ c.at = "lost" /\ Over(c) /\ UNCHANGED <<generation, refreshes, selected>>
  /\ UNCHANGED <<outside, events, signals, listed, welcome, wizard, retry, navigation, changes, faults,
                 known>>

\* Setting the address it has already raises no event.
SetHash(h) == hash' = h /\ hashEvent' = (hashEvent \/ h # hash)
SelectWorkspace(w) ==
  /\ Contains(listed, w) /\ Change("screens")
  /\ selected' = w /\ wizard' = FALSE /\ SetHash("harness")
  /\ UNCHANGED <<outside, events, generation, refreshes, signals, listed, welcome, asking, route,
                 dialog, section, faults, known>>
\* Everybody else: a repository breaks or is repaired, an import puts its
\* workspaces in the place of those there and reports it, somebody logs in or out.
RepositoryChanges(w) ==
  /\ Change("works")
  /\ usable' = (IF w \in usable THEN usable \ {w} ELSE usable \union {w})
  /\ UNCHANGED <<daemon, registry, cli, jobs, events, generation, refreshes, shell, asking, navigation,
                 faults, known>>
Import(w) ==
  /\ Change("works") /\ registry # <<w>>
  /\ registry' = <<w>> /\ events' = Append(events, "other")
  /\ overlapped' = (overlapped \/ commands # {})
  /\ UNCHANGED <<daemon, usable, cli, jobs, generation, refreshes, shell, asking, navigation, faults,
                 seen, error, unheard>>
AccountChanges(a) ==
  /\ cli.installed /\ a # cli.account /\ Change("account")
  /\ cli' = [cli EXCEPT !.account = a] /\ seen' = See(cli')
  /\ UNCHANGED <<daemon, registry, usable, jobs, events, generation, refreshes, shell, asking,
                 navigation, faults, error, unheard, overlapped>>

-----------------------------------------------------------------------------
(* The setup card and the Codex manager. *)

AcknowledgeWelcome(existing) ==
  /\ OnboardingActive("welcome")
  /\ welcome' = TRUE
  /\ IF existing THEN Refresh ELSE UNCHANGED <<generation, refreshes>>
  /\ UNCHANGED <<outside, events, signals, listed, selected, wizard, asking, navigation, changes,
                 faults, known>>
\* install() and login(): a request during another one waits for the same promise.
setupRest == <<daemon, registry, usable, events, generation, refreshes, listed, selected, welcome,
               wizard, retry, navigation, changes, error, unheard, overlapped>>
Press(job) ==
  /\ OnboardingActive("codex") /\ jobs[job] = "idle"
  /\ signals.installed <=> job = "login"
  /\ job = "login" => ~signals.authenticated
  /\ jobs' = [jobs EXCEPT ![job] = IF job = "login" /\ ~cli.installed THEN "refused" ELSE "running"]
  /\ UNCHANGED <<setupRest, commands, busy, cli, signals, seen, faults>>
\* The command ends well, fails or is killed at its timeout.
InstallRuns ==
  /\ jobs.install = "running"
  /\ \/ /\ cli' = [cli EXCEPT !.installed = TRUE] /\ seen' = See(cli')
        /\ jobs' = [jobs EXCEPT !.install = "probing"] /\ UNCHANGED faults
     \/ Fault /\ jobs' = [jobs EXCEPT !.install = "refused"] /\ UNCHANGED <<cli, seen>>
  /\ UNCHANGED <<setupRest, commands, busy, signals>>
LoginRuns ==
  /\ jobs.login = "running"
  /\ \/ \E a \in {"chatgpt", "apiKey"} :
          /\ cli' = [cli EXCEPT !.account = a] /\ seen' = See(cli')
          /\ jobs' = [jobs EXCEPT !.login = "probing"] /\ UNCHANGED faults
     \/ Fault /\ jobs' = [jobs EXCEPT !.login = "refused"] /\ UNCHANGED <<cli, seen>>
  /\ UNCHANGED <<setupRest, commands, busy, signals>>
\* The status after the command is the answer: an installation must be found, a
\* login must be one with ChatGPT.
Accepted(job, s) == IF job = "install" THEN s.installed ELSE s.authenticated
Probed(job) ==
  /\ jobs[job] = "probing"
  /\ \E version, login \in BOOLEAN :
       LET s == Status(cli, version, login)
       IN /\ IF version /\ login THEN UNCHANGED faults ELSE Fault
          /\ signals' = IF Accepted(job, s)
                        THEN [signals EXCEPT !.installed = s.installed,
                                             !.authenticated = CodexChatgptReady({s})]
                        ELSE signals
  /\ jobs' = [jobs EXCEPT ![job] = "idle"]
  /\ UNCHANGED <<setupRest, cli, seen>>
  /\ LeavesPanel
Refused(job) ==
  /\ jobs[job] = "refused"
  /\ jobs' = [jobs EXCEPT ![job] = "idle"]
  /\ UNCHANGED <<setupRest, commands, busy, cli, signals, seen, faults>>
\* retryCurrentOnboardingLayer: a daemon found stopped is started, and awaited,
\* before the refresh.
retryRest == <<registry, usable, cli, jobs, shell, commands, busy, navigation, faults, known>>
Retry ==
  /\ OnboardingActive("codex") \/ OnboardingActive("workspace")
  /\ retry = "no"
  /\ IF OnboardingActive("workspace") /\ ~signals.daemon
     THEN retry' = "ask" /\ UNCHANGED <<generation, refreshes>>
     ELSE Refresh /\ UNCHANGED retry
  /\ UNCHANGED <<retryRest, daemon, events, changes>>
RetryStarts ==
  /\ retry = "ask" /\ daemon \in {"stopped", "crashed"} /\ Change("daemon")
  /\ daemon' = "starting" /\ events' = Append(events, "starting") /\ retry' = "start"
  /\ UNCHANGED <<retryRest, generation, refreshes>>
RetryRefreshes ==
  /\ \/ retry = "ask" /\ daemon \notin {"stopped", "crashed"}
     \/ retry = "start" /\ daemon # "starting"
  /\ Refresh /\ retry' = "no"
  /\ UNCHANGED <<retryRest, daemon, events, changes>>
\* Open Harness, Continue setup.
Leave ==
  /\ OnboardingActive("workspace") /\ wizard' = FALSE /\ SetHash("harness")
  /\ UNCHANGED <<outside, events, generation, refreshes, signals, listed, selected, welcome, asking,
                 route, dialog, section, changes, faults, known>>
ContinueSetup ==
  /\ route = "harness" /\ ~wizard /\ RecommendedStep(signals) # "ready"
  /\ wizard' = TRUE
  /\ UNCHANGED <<outside, events, generation, refreshes, signals, listed, selected, welcome, retry,
                 navigation, changes, faults, known>>
  /\ LeavesPanel

-----------------------------------------------------------------------------
(* Navigation: routes in the address, the settings dialog over them. *)

MainRoutes == {"harness", "pull-requests"}
SettingsRoutes == {"settings", "connections", "mcp", "plugins"}
SettingsSectionForRoute == [settings |-> "general", connections |-> "connections", mcp |-> "mcp",
                            plugins |-> "plugins"]
screenRest == <<outside, events, generation, refreshes, shell, retry, faults, known>>

\* A link, the address typed or a step back.
Navigate(h) ==
  /\ h # hash /\ SetHash(h) /\ Change("screens")
  /\ UNCHANGED <<screenRest, route, dialog, section, commands, busy>>
OnHashChange ==
  /\ hashEvent /\ hashEvent' = FALSE
  /\ \/ /\ hash \in SettingsRoutes
        /\ dialog' = TRUE /\ section' = SettingsSectionForRoute[hash]
        /\ UNCHANGED route
     \/ /\ hash \in MainRoutes
        /\ dialog' = FALSE /\ route' = hash /\ UNCHANGED section
  /\ UNCHANGED <<screenRest, hash, changes>>
  /\ LeavesPanel
OpenSettings ==
  /\ ~dialog /\ Change("screens")
  /\ dialog' = TRUE /\ section' = "general"
  /\ UNCHANGED <<screenRest, hash, route, hashEvent, commands, busy>>
SelectSection(s) ==
  /\ dialog /\ Change("screens") /\ section' = s
  /\ UNCHANGED <<screenRest, hash, route, dialog, hashEvent, commands, busy>>
\* Mutant: closing the dialog leaves the address alone.
CloseSettingsOnly ==
  /\ dialog /\ dialog' = FALSE
  /\ UNCHANGED <<screenRest, changes, hash, hashEvent, route, section, commands, busy>>

CloseSettings ==
  /\ dialog /\ dialog' = FALSE
  /\ IF hash \in SettingsRoutes THEN SetHash(route) ELSE UNCHANGED <<hash, hashEvent>>
  /\ UNCHANGED <<screenRest, changes, route, section, commands, busy>>

-----------------------------------------------------------------------------
\* The window opens on a runtime that already runs; the first refresh is under way.
Init ==
  /\ \E start \in Starts :
       /\ daemon = start.daemon /\ cli = start.cli /\ welcome = start.welcome /\ hash = start.hash
       /\ bounds = [refreshes |-> start.refreshes, changes |-> start.changes,
                    faults |-> start.faults]
  /\ registry \in {<<>>} \union {<<w>> : w \in Workspaces} /\ usable = Workspaces
  /\ jobs = [install |-> "idle", login |-> "idle"] /\ events = <<>>
  /\ generation = 1
  /\ refreshes = {[gen |-> 1, daemon |-> "unread", works |-> <<>>, listed |-> FALSE, setup |-> None,
                   account |-> "unasked"]}
  /\ signals = EmptySignals /\ listed = <<>> /\ selected = None /\ wizard = TRUE
  /\ commands = {} /\ busy = FALSE /\ retry = "no"
  /\ changes = [k \in DOMAIN bounds.changes |-> 0] /\ faults = 0
  /\ seen = [installed |-> cli.installed, chatgpt |-> cli.account = "chatgpt"]
  /\ error = FALSE /\ unheard = 0 /\ overlapped = FALSE
  /\ route = (IF hash \in SettingsRoutes THEN "harness" ELSE hash)
  /\ dialog = (hash \in SettingsRoutes)
  /\ section = (IF hash \in SettingsRoutes THEN SettingsSectionForRoute[hash] ELSE "general")
  /\ hashEvent = FALSE

Step ==
  \/ \E r \in refreshes : \/ ReadDaemon(r) \/ ReadWorkspaces(r) \/ ReadSetup(r) \/ ReadAccount(r)
                          \/ Apply(r)
  \/ DaemonStep \/ OtherEvent \/ OnEvent
  \/ \E c \in commands : Commanded(c)
  \/ \E w \in Workspaces : SaveWorkspace(w) \/ RemoveWorkspace(w) \/ SelectWorkspace(w)
                             \/ RepositoryChanges(w) \/ Import(w)
  \/ \E a \in {"none", "apiKey", "chatgpt"} : AccountChanges(a)
  \/ \E existing \in BOOLEAN : AcknowledgeWelcome(existing)
  \/ \E job \in {"install", "login"} : Press(job) \/ Probed(job) \/ Refused(job)
  \/ InstallRuns \/ LoginRuns \/ Retry \/ RetryStarts \/ RetryRefreshes \/ Leave \/ ContinueSetup
  \/ \E h \in MainRoutes \union SettingsRoutes : Navigate(h)
  \/ \E s \in {"general", "connections", "mcp", "plugins"} : SelectSection(s)
  \/ OnHashChange \/ OpenSettings \/ CloseSettings
Next == Step /\ UNCHANGED bounds

Spec == Init /\ [][Next]_vars

-----------------------------------------------------------------------------
Settled == events = <<>> /\ refreshes = {} /\ commands = {} /\ ~error /\ unheard = 0

\* Once every event is handled and the last refresh has answered, the shell shows
\* the runtime as it is: the daemon's signal, the list of workspaces, and a
\* selection that is one of them - however events, refreshes and commands crossed.
\* It does not hold after an answer that was an error, or a save that was
\* reported as failed after the registry was written, until the next refresh; and
\* of commands that overlapped, or that an import overlapped, the first may still
\* select what is gone.
ShellFollowsRuntime ==
  Settled => /\ signals.daemon <=> daemon \in Up
             /\ listed = registry
             /\ ~overlapped => IF registry = <<>> THEN selected = None
                               ELSE Contains(registry, selected)

\* Setup calls Codex ready only if it has been installed and logged in with
\* ChatGPT at some time; an API key never counts, whichever of the probes, the
\* installation or the login said so.
ReadyIsEarned ==
  /\ signals.installed => seen.installed
  /\ signals.authenticated => seen.chatgpt

\* With no change of address to be handled, the address and the screen agree: a
\* settings address has the dialog open, any other is the route shown, so that
\* reloading the window shows the same thing.
ScreenFollowsAddress ==
  ~hashEvent => IF hash \in SettingsRoutes THEN dialog ELSE route = hash

\* The shell shows the runtime as it is, calls nothing ready that is not, and shows
\* the screen its address names.
ShellIsTruthful == ShellFollowsRuntime /\ ReadyIsEarned /\ ScreenFollowsAddress
================================================================================
