---------------------------- MODULE MCExtensions ----------------------------
(****************************************************************************)
(* Instances of McpExtensions, ExtensionScreens and NpmSkills: extensions   *)
(* and skills from their registries to a turn, and the screens that manage  *)
(* them. Each module has instances of its own, of one set of variables;     *)
(* which one moves is chosen at the start, so that a run asks the questions *)
(* of several parts at once. A module with two instances gets the longer    *)
(* histories in one and more failures in the other.                         *)
(****************************************************************************)
EXTENDS Naturals, Sequences, FiniteSets, TLC

CONSTANTS
    x1, x2, w1, w2, Boot, Null

\* The instance that moves; the variables of the other modules are Off.
VARIABLE watch
VARIABLES
    mcpW, mcpPolicy, mcpLatest, mcpCall, mcpAuto, mcpLoose, mcpLeaky,
    mcpCalls, mcpFaults
VARIABLES
    screenFocus, screenHub, screenReady, screenCalls, screenBusy, screenTab,
    screenShown, screenTools, screenPlan, screenDraft, screenCreds,
    screenUpdates, screenRollbackReady, screenPending, screenSelected,
    screenSkillStatus, screenOps, screenFaults, screenDisturbed
VARIABLES
    npmTurn, npmFolder, npmLock, npmCache, npmMixed, npmPrepared, npmFaults

mcpVars ==
    <<mcpW, mcpPolicy, mcpLatest, mcpCall, mcpAuto, mcpLoose, mcpLeaky,
      mcpCalls, mcpFaults>>
screenVars ==
    <<screenFocus, screenHub, screenReady, screenCalls, screenBusy,
      screenTab, screenShown, screenTools, screenPlan, screenDraft,
      screenCreds, screenUpdates, screenRollbackReady, screenPending,
      screenSelected, screenSkillStatus, screenOps, screenFaults,
      screenDisturbed>>
npmVars ==
    <<npmTurn, npmFolder, npmLock, npmCache, npmMixed, npmPrepared,
      npmFaults>>
Off == "off"

\* No policy; a pinned version with tools that must ask; a blocked version.
SomePolicies ==
    LET open == [managed |-> FALSE, revoked |-> FALSE, pin |-> Null, versions |-> {1, 2},
                 blocked |-> {}, cap |-> [t \in {"t1"} |-> 2]]
    IN {open,
        [open EXCEPT !.managed = TRUE, !.pin = 1, !.cap = [t \in {"t1"} |-> 1]],
        [open EXCEPT !.managed = TRUE, !.blocked = {1}, !.cap = [t \in {"t1"} |-> 0]]}
\* What the planner tells apart: signatures and digests of npm packages, pypi
\* packages, remote endpoints, an entry with arguments, one installed by hand.
Published(kinds, digests, signatures, metadata, arguments) ==
    [kind : kinds, arguments : arguments, digest : digests, signature : signatures,
     signatureRequired : BOOLEAN, metadata : metadata]
SomeEntries ==
    Published({"npm"}, {"match", "mismatch"}, {"none", "valid", "untrusted", "invalid"}, {"none"}, {FALSE})
      \cup Published({"pypi", "manual"}, {"match"}, {"none"}, {"none"}, BOOLEAN)
      \cup Published({"remote"}, {"match"}, {"none"}, {"none", "complete"}, {FALSE})

\* Two sources offer a skill of the same name; the most popular one is prose.
Listed(source, skill, installs, coding) ==
    [source |-> source, skill |-> skill, installs |-> installs, coding |-> coding]
SomeCatalog ==
    [q \in {"react", "review"} |->
        CASE q = "react" -> {Listed("acme", "lint", 3, TRUE), Listed("zen", "essay", 9, FALSE)}
          [] OTHER -> {Listed("beta", "lint", 2, TRUE), Listed("acme", "tests", 1, TRUE)}]

Mcp == INSTANCE McpExtensions WITH
    Ext <- {"e1"}, Ver <- {1, 2}, Tools <- {"t1"},
    Policies <- {p \in SomePolicies : p.blocked = {}},
    Entries <- SomeEntries, MaxCalls <- 2, MaxFaults <- 0, Boot <- Boot,
    None <- Null, w <- mcpW, policy <- mcpPolicy, latest <- mcpLatest,
    call <- mcpCall, auto <- mcpAuto, loose <- mcpLoose, leaky <- mcpLeaky,
    calls <- mcpCalls, faults <- mcpFaults

McpFaults == INSTANCE McpExtensions WITH
    Ext <- {"e1"}, Ver <- {1, 2}, Tools <- {"t1"}, Policies <- SomePolicies,
    Entries <- SomeEntries, MaxCalls <- 1, MaxFaults <- 2, Boot <- Boot,
    None <- Null, w <- mcpW, policy <- mcpPolicy, latest <- mcpLatest,
    call <- mcpCall, auto <- mcpAuto, loose <- mcpLoose, leaky <- mcpLeaky,
    calls <- mcpCalls, faults <- mcpFaults

Screen == INSTANCE ExtensionScreens WITH
    Items <- {"x"}, Workspaces <- {w1, w2}, None <- Null, MaxOps <- 3,
    MaxFaults <- 0, focus <- screenFocus, hub <- screenHub,
    ready <- screenReady, calls <- screenCalls, busy <- screenBusy,
    tab <- screenTab, shown <- screenShown, tools <- screenTools,
    plan <- screenPlan, draft <- screenDraft, creds <- screenCreds,
    updates <- screenUpdates, rollbackReady <- screenRollbackReady,
    pending <- screenPending, selected <- screenSelected,
    skillStatus <- screenSkillStatus, ops <- screenOps,
    faults <- screenFaults, disturbed <- screenDisturbed

ScreenFaults == INSTANCE ExtensionScreens WITH
    Items <- {x1, x2}, Workspaces <- {w1, w2}, None <- Null, MaxOps <- 2,
    MaxFaults <- 2, focus <- screenFocus, hub <- screenHub,
    ready <- screenReady, calls <- screenCalls, busy <- screenBusy,
    tab <- screenTab, shown <- screenShown, tools <- screenTools,
    plan <- screenPlan, draft <- screenDraft, creds <- screenCreds,
    updates <- screenUpdates, rollbackReady <- screenRollbackReady,
    pending <- screenPending, selected <- screenSelected,
    skillStatus <- screenSkillStatus, ops <- screenOps,
    faults <- screenFaults, disturbed <- screenDisturbed

Npm == INSTANCE NpmSkills WITH
    Turns <- {x1, x2}, Workspaces <- {"w1", "w2"},
    Queries <- {"react", "review"}, Catalog <- SomeCatalog, MaxActive <- 2,
    MaxPrepared <- 3, MaxFaults <- 1, turn <- npmTurn, folder <- npmFolder,
    lock <- npmLock, cache <- npmCache, mixed <- npmMixed,
    prepared <- npmPrepared, faults <- npmFaults

-----------------------------------------------------------------------------
McpOff ==
    /\ mcpW = Off /\ mcpPolicy = Off /\ mcpLatest = Off /\ mcpCall = Off
    /\ mcpAuto = Off /\ mcpLoose = Off /\ mcpLeaky = Off /\ mcpCalls = Off
    /\ mcpFaults = Off
ScreenOff ==
    /\ screenFocus = Off /\ screenHub = Off /\ screenReady = Off
    /\ screenCalls = Off /\ screenBusy = Off /\ screenTab = Off
    /\ screenShown = Off /\ screenTools = Off /\ screenPlan = Off
    /\ screenDraft = Off /\ screenCreds = Off /\ screenUpdates = Off
    /\ screenRollbackReady = Off /\ screenPending = Off
    /\ screenSelected = Off /\ screenSkillStatus = Off /\ screenOps = Off
    /\ screenFaults = Off /\ screenDisturbed = Off
NpmOff ==
    /\ npmTurn = Off /\ npmFolder = Off /\ npmLock = Off /\ npmCache = Off
    /\ npmMixed = Off /\ npmPrepared = Off /\ npmFaults = Off

Init ==
    \/ /\ watch = "mcp" /\ Mcp!Init
       /\ ScreenOff /\ NpmOff
    \/ /\ watch = "mcp faults" /\ McpFaults!Init
       /\ ScreenOff /\ NpmOff
    \/ /\ watch = "screen" /\ Screen!Init
       /\ McpOff /\ NpmOff
    \/ /\ watch = "screen faults" /\ ScreenFaults!Init
       /\ McpOff /\ NpmOff
    \/ /\ watch = "npm" /\ Npm!Init
       /\ McpOff /\ ScreenOff
Next ==
    \/ /\ watch = "mcp" /\ Mcp!Next
       /\ UNCHANGED <<watch, screenVars, npmVars>>
    \/ /\ watch = "mcp faults" /\ McpFaults!Next
       /\ UNCHANGED <<watch, screenVars, npmVars>>
    \/ /\ watch = "screen" /\ Screen!Next
       /\ UNCHANGED <<watch, mcpVars, npmVars>>
    \/ /\ watch = "screen faults" /\ ScreenFaults!Next
       /\ UNCHANGED <<watch, mcpVars, npmVars>>
    \/ /\ watch = "npm" /\ Npm!Next
       /\ UNCHANGED <<watch, mcpVars, screenVars>>
Spec == Init /\ [][Next]_<<watch, mcpVars, screenVars, npmVars>>

\* Processes, calls and names that a module treats alike.
Symmetry ==
    Permutations({x1, x2}) \cup Permutations({w1, w2})

-----------------------------------------------------------------------------
\* Only what the governance policy admits is enabled, and only what was
\* verified is admitted (mcp-extension-manager.ts, mcp-artifact-
\* verification.ts).
OnlyGovernedRuns ==
    /\ watch = "mcp" => Mcp!OnlyGovernedRuns
    /\ watch = "mcp faults" => McpFaults!OnlyGovernedRuns

\* An operation that fails leaves neither a half-swapped extension nor
\* secrets, and no listener without its login (mcp-extension-manager.ts, mcp-
\* extension-oauth.ts).
NothingHalfDone ==
    /\ watch = "mcp" => Mcp!NothingHalfDone
    /\ watch = "mcp faults" => McpFaults!NothingHalfDone

\* What is typed reaches what it was typed for, and the screens show what the
\* hub has, though answers come in any order (McpExtensionsScreen.tsx,
\* PluginHubScreen.tsx).
ScreensAreTruthful ==
    /\ watch = "screen" => Screen!ScreensAreTruthful
    /\ watch = "screen faults" => ScreenFaults!ScreensAreTruthful

\* The skills a prepared turn was promised are in the cache for its workspace,
\* with the content of the source they are named after (npm-skills-manager.ts,
\* codex-skill-cache.ts).
SkillsAreAsChosen == watch = "npm" => Npm!SkillsAreAsChosen

=============================================================================
