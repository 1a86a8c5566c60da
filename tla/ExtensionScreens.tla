--------------------------- MODULE ExtensionScreens ---------------------------
(***************************************************************************)
(* The Desktop's extension screens: the MCP marketplace                    *)
(* (McpMarketplaceScreen.tsx), the installed extensions                    *)
(* (McpExtensionsScreen.tsx) and the plugin hub (PluginHubScreen.tsx).     *)
(*                                                                         *)
(* Each screen keeps copies of what the main process stores, one slot that *)
(* names the busy button, and starts operations that do not wait for each  *)
(* other.  A call is served by the main process in one step and its answer *)
(* handled in a later one; answers come in any order.  What the managers   *)
(* behind the calls do is in McpExtensions and PluginHub; here they keep    *)
(* what the screens show.  A behaviour watches one screen.                 *)
(***************************************************************************)
EXTENDS Naturals, FiniteSets

CONSTANTS Items,       \* extensions, servers of the registry, plugins
          Workspaces,
          None,
          MaxOps,      \* bound: operations the user starts
          MaxFaults    \* bound: calls that fail

VARIABLES
  focus,      \* the screen: "market", "extensions", "plugins"
  hub,        \* what the main process keeps
  ready,      \* the workspaces whose grant is valid
  calls,      \* under way
  busy,       \* the busy button
  tab,
  shown,      \* the list: extensions or plugins, credentials stored
  tools,      \* the tool panels that are open, with the policy they show
  plan, draft,\* the reviewed install plan; whose values the fields hold
  creds,      \* the credential fields: whose value each holds
  updates, rollbackReady,
  pending,    \* the plugin under review
  selected, skillStatus,
  ops, faults,
  disturbed   \* an operation failed, or was started while another was under way

screen == <<busy, tab, shown, tools, plan, draft, creds, updates, rollbackReady, pending,
            selected, skillStatus>>
vars == <<focus, hub, ready, calls, screen, ops, faults, disturbed>>

Absent == "absent"
NoButton == [op |-> "none", x |-> None]
NoStatus == [of |-> None, choice |-> 0]
Blank == [ext |-> [x \in Items |-> Absent], rule |-> [x \in Items |-> "none"], old |-> {},
          secret |-> [x \in Items |-> None], policy |-> [w \in Workspaces |-> NoStatus]]
View(s) == [ext |-> s.ext, secret |-> s.secret]

-----------------------------------------------------------------------------
(* Calls. *)

NewCall(op, x, data) == [op |-> op, x |-> x, data |-> data, at |-> "sent", got |-> Blank]
Start(op, x, data) ==
  /\ ops < MaxOps /\ ops' = ops + 1
  /\ NewCall(op, x, data) \notin calls
  /\ calls' = calls \cup {NewCall(op, x, data)}
  /\ busy' = [op |-> op, x |-> x]
  /\ disturbed' = (disturbed \/ calls # {})
  /\ UNCHANGED <<focus, hub, ready, faults>>

\* The call is over: its answer is dealt with and the busy slot is cleared,
\* whichever button it names by now.
Finish(c) ==
  /\ calls' = calls \ {c} /\ busy' = NoButton
  /\ UNCHANGED <<focus, hub, ready, ops, faults, disturbed>>

\* The operation goes on with another call.
Continue(c, op, x) ==
  /\ calls' = (calls \ {c}) \cup {NewCall(op, x, None)}
  /\ UNCHANGED <<focus, hub, ready, ops, faults, disturbed>>

\* What the main process keeps once it has served the call.
Served(c) ==
  LET x == c.x IN
  CASE c.op = "install" -> [hub EXCEPT !.ext[x] = IF @ = Absent THEN "on" ELSE @,
                                       !.secret[x] = IF c.data # None THEN c.data ELSE @,
                                       !.rule[x] = "automatic"]
    [] c.op = "enable" -> [hub EXCEPT !.ext[x] = "on"]
    [] c.op \in {"disable", "revoke"} -> [hub EXCEPT !.ext[x] = "off"]
    [] c.op = "remove" -> [hub EXCEPT !.ext[x] = Absent, !.rule[x] = "none",
                                      !.secret[x] = None, !.old = @ \ {x}]
    [] c.op \in {"automatic", "ask"} -> [hub EXCEPT !.rule[x] = c.op]
    [] c.op = "credential" -> [hub EXCEPT !.secret[x] = c.data]
    [] c.op = "clear" -> [hub EXCEPT !.secret[x] = None]
    [] c.op = "update" -> [hub EXCEPT !.old = @ \ {x}]
    [] c.op = "rollback" -> [hub EXCEPT !.old = @ \cup {x}]
    [] c.op = "save" -> [hub EXCEPT !.policy[x] = c.data]
    [] OTHER -> hub

\* Operations on an extension that is not there are refused, and installing an
\* extension that is; a plugin that is there is left as it is.
Refused(c) ==
  IF c.op = "install" THEN focus # "plugins" /\ hub.ext[c.x] # Absent
  ELSE /\ c.op \in {"enable", "disable", "restart", "remove", "tools", "automatic", "ask",
                    "approve", "credential", "clear", "connect", "revoke", "update", "rollback"}
       /\ hub.ext[c.x] = Absent
Serve(c) ==
  /\ c.at = "sent" /\ ~Refused(c)
  /\ hub' = Served(c)
  /\ calls' = (calls \ {c}) \cup {[c EXCEPT !.at = "answered", !.got = Served(c)]}
  /\ UNCHANGED <<focus, ready, screen, ops, faults, disturbed>>

\* A call fails: the error is shown, nothing else changes - except that a policy
\* that could not be loaded is no longer shown.
Fail(c) ==
  /\ c.at = "sent"
  /\ \/ Refused(c) /\ UNCHANGED faults
     \/ faults < MaxFaults /\ faults' = faults + 1
  /\ calls' = calls \ {c} /\ busy' = NoButton
  /\ disturbed' = TRUE
  /\ skillStatus' = IF c.op = "load" THEN NoStatus ELSE skillStatus
  /\ UNCHANGED <<focus, hub, ready, tab, shown, tools, plan, draft, creds, updates,
                 rollbackReady, pending, selected, ops>>

Answered(c, op) == c.at = "answered" /\ c.op = op

-----------------------------------------------------------------------------
(* McpMarketplaceScreen *)

market == <<plan, draft, updates, rollbackReady, tab>>
OnMarket == focus = "market" /\ UNCHANGED <<shown, tools, creds, pending, selected, skillStatus>>

SearchMarketplace ==
  /\ OnMarket /\ tab = "explore" /\ busy.op # "search"
  /\ Start("search", None, None)
  /\ UNCHANGED market
ShowResults(c) ==
  /\ OnMarket /\ Answered(c, "search") /\ Finish(c)
  /\ plan' = None /\ draft' = None
  /\ UNCHANGED <<tab, updates, rollbackReady>>

ReviewInstall(x) ==
  /\ OnMarket /\ tab = "explore" /\ busy # [op |-> "plan", x |-> x]
  /\ Start("plan", x, None)
  /\ UNCHANGED market

\* The fields start from the plan's defaults.
Planned(x) == plan' = x /\ draft' = None
ShowPlan(c) ==
  /\ OnMarket /\ Answered(c, "plan") /\ Finish(c)
  /\ Planned(c.x)
  /\ UNCHANGED <<tab, updates, rollbackReady>>
ReviewUpdate(x) ==
  /\ OnMarket /\ tab = "updates" /\ x \in updates
  /\ Planned(x) /\ tab' = "explore"
  /\ UNCHANGED <<focus, hub, ready, calls, busy, updates, rollbackReady, ops, faults, disturbed>>
ClosePlan ==
  /\ OnMarket /\ tab = "explore" /\ plan # None
  /\ plan' = None /\ draft' = None
  /\ UNCHANGED <<focus, hub, ready, calls, busy, tab, updates, rollbackReady, ops, faults,
                 disturbed>>
TypeEnvironment ==
  /\ OnMarket /\ tab = "explore" /\ plan # None /\ draft' = plan
  /\ UNCHANGED <<focus, hub, ready, calls, busy, tab, plan, updates, rollbackReady, ops,
                 faults, disturbed>>
InstallPlanned ==
  /\ OnMarket /\ tab = "explore" /\ plan # None /\ busy.op # "install"
  /\ Start("install", plan, draft)
  /\ UNCHANGED market
PlannedInstalled(c) ==
  /\ OnMarket /\ Answered(c, "install") /\ Finish(c)
  /\ plan' = None /\ draft' = None /\ tab' = "installed"
  /\ UNCHANGED <<updates, rollbackReady>>

ChooseMarketTab(t) ==
  /\ OnMarket /\ tab # t
  /\ tab' = t
  /\ IF t = "updates" THEN Start("updates", None, None)
     ELSE UNCHANGED <<focus, hub, ready, calls, busy, ops, faults, disturbed>>
  /\ UNCHANGED <<plan, draft, updates, rollbackReady>>
RefreshUpdates ==
  /\ OnMarket /\ tab = "updates"
  /\ Start("updates", None, None)
  /\ UNCHANGED market
ShowUpdates(c) ==
  /\ OnMarket /\ Answered(c, "updates") /\ Finish(c)
  /\ updates' = {x \in c.got.old : c.got.ext[x] # Absent}
  /\ UNCHANGED <<plan, draft, tab, rollbackReady>>
ApplyUpdate(x) ==
  /\ OnMarket /\ tab = "updates" /\ x \in updates /\ busy # [op |-> "update", x |-> x]
  /\ Start("update", x, None)
  /\ UNCHANGED market
Rollback ==
  /\ OnMarket /\ tab = "updates" /\ rollbackReady # None
  /\ busy # [op |-> "rollback", x |-> rollbackReady]
  /\ Start("rollback", rollbackReady, None)
  /\ UNCHANGED market

\* Both end with another look for updates.
Updated(c) ==
  /\ OnMarket
  /\ \/ Answered(c, "update") /\ rollbackReady' = c.x
     \/ Answered(c, "rollback") /\ rollbackReady' = None
  /\ Continue(c, "updates", None)
  /\ busy' = [op |-> "updates", x |-> None]
  /\ UNCHANGED <<plan, draft, updates, tab>>

-----------------------------------------------------------------------------
(* McpExtensionsScreen *)

OnExtensions ==
  focus = "extensions"
    /\ UNCHANGED <<tab, plan, draft, updates, rollbackReady, pending, selected, skillStatus>>

\* The panel of an extension: its buttons are there while it is listed, and
\* not offered while one of them is busy.
Offered(x) == shown.ext[x] # Absent /\ (busy.x = x => busy.op = "approve")
InstallerOffered(x) == busy.op # "install" /\ shown.ext[x] = Absent
InstallExtension(x) ==
  /\ OnExtensions /\ InstallerOffered(x)
  /\ \E typed \in {None, x} : Start("install", x, typed)
  /\ UNCHANGED <<shown, tools, creds>>
Lifecycle(op, x) ==
  /\ OnExtensions /\ Offered(x)
  /\ op = "enable" => shown.ext[x] = "off"
  /\ op \in {"disable", "restart"} => shown.ext[x] = "on"
  /\ Start(op, x, None)
  /\ UNCHANGED <<shown, tools, creds>>
OauthAction(op, x) ==
  /\ OnExtensions /\ Offered(x) /\ (op = "revoke" => shown.ext[x] = "on")
  /\ Start(op, x, None)
  /\ UNCHANGED <<shown, tools, creds>>
ToggleTools(x) ==
  /\ OnExtensions /\ Offered(x)
  /\ IF tools[x] # "none"
     THEN /\ tools' = [tools EXCEPT ![x] = "none"]
          /\ UNCHANGED <<focus, hub, ready, calls, busy, ops, faults, disturbed>>
     ELSE Start("tools", x, None) /\ UNCHANGED tools
  /\ UNCHANGED <<shown, creds>>
UpdatePolicy(x, rule) ==
  /\ OnExtensions /\ shown.ext[x] # Absent /\ tools[x] \notin {"none", rule}
  /\ busy \notin {[op |-> o, x |-> x] : o \in {"automatic", "ask", "approve"}}
  /\ Start(rule, x, None)
  /\ UNCHANGED <<shown, tools, creds>>
ApproveNext(x) ==
  /\ OnExtensions /\ shown.ext[x] # Absent /\ tools[x] = "ask"
  /\ busy \notin {[op |-> o, x |-> x] : o \in {"automatic", "ask", "approve"}}
  /\ Start("approve", x, None)
  /\ UNCHANGED <<shown, tools, creds>>
Approved(c) ==
  /\ OnExtensions /\ Answered(c, "approve") /\ Finish(c)
  /\ UNCHANGED <<shown, tools, creds>>
TypeCredential(x) ==
  /\ OnExtensions /\ shown.ext[x] # Absent /\ creds[x] = None
  /\ creds' = [creds EXCEPT ![x] = x]
  /\ UNCHANGED <<focus, hub, ready, calls, busy, shown, tools, ops, faults, disturbed>>
SaveCredential(x) ==
  /\ OnExtensions /\ Offered(x) /\ creds[x] # None
  /\ Start("credential", x, creds[x])
  /\ UNCHANGED <<shown, tools, creds>>
ClearCredential(x) ==
  /\ OnExtensions /\ Offered(x) /\ shown.secret[x] # None
  /\ Start("clear", x, None)
  /\ UNCHANGED <<shown, tools, creds>>

\* A bug: the list is not loaded again.
RefreshAfterNot(c) == Finish(c)

\* A mutation that succeeded is followed by another list.
RefreshAfter(c) == Continue(c, "refresh", None) /\ UNCHANGED busy
ExtensionAnswered(c) ==
  /\ OnExtensions /\ c.at = "answered"
  /\ \/ /\ c.op \in {"install", "enable", "disable", "connect", "revoke", "clear"}
        /\ UNCHANGED <<tools, creds>>
     \/ /\ c.op = "restart"
        /\ tools' = [tools EXCEPT ![c.x] = c.got.rule[c.x]] /\ UNCHANGED creds
     \/ /\ c.op = "remove"
        /\ tools' = [tools EXCEPT ![c.x] = "none"] /\ UNCHANGED creds
     \/ /\ c.op \in {"automatic", "ask"}
        /\ tools' = [tools EXCEPT ![c.x] = IF @ = "none" THEN @ ELSE c.op]
        /\ UNCHANGED creds
     \/ /\ c.op = "credential"
        /\ creds' = [creds EXCEPT ![c.x] = None] /\ UNCHANGED tools
  /\ RefreshAfter(c)
  /\ UNCHANGED shown
ShowTools(c) ==
  /\ OnExtensions /\ Answered(c, "tools") /\ Finish(c)
  /\ tools' = [tools EXCEPT ![c.x] = c.got.rule[c.x]]
  /\ UNCHANGED <<shown, creds>>
ShowExtensions(c) ==
  /\ OnExtensions /\ Answered(c, "refresh") /\ Finish(c)
  /\ shown' = View(c.got)
  /\ UNCHANGED <<tools, creds>>

-----------------------------------------------------------------------------
(* PluginHubScreen *)

OnPlugins == focus = "plugins" /\ UNCHANGED <<tools, plan, draft, creds, updates, rollbackReady>>
hubScreen == <<tab, shown, pending, selected, skillStatus>>

RefreshHub ==
  /\ OnPlugins /\ busy.op # "refresh"
  /\ Start("refresh", None, None)
  /\ UNCHANGED hubScreen

\* A list answered: the selected workspace stays while it is ready, else it is
\* the first one; the effect then loads its policy on the skills tab.
Selection == IF selected \in ready THEN {selected} ELSE IF ready = {} THEN {None} ELSE ready
LoadEffect(c, w, t) ==
  IF t = "skills" /\ w # None /\ (w # selected \/ t # tab)
  THEN Continue(c, "load", w) /\ busy' = [op |-> "load", x |-> w]
  ELSE Finish(c)
ShowPlugins(c) ==
  /\ OnPlugins /\ Answered(c, "refresh")
  /\ shown' = View(c.got)
  /\ \E w \in Selection : selected' = w /\ LoadEffect(c, w, tab)
  /\ UNCHANGED <<tab, pending, skillStatus>>

ChooseHubTab(t) ==
  /\ OnPlugins /\ tab # t
  /\ tab' = t
  /\ IF t = "skills" /\ selected # None THEN Start("load", selected, None)
     ELSE UNCHANGED <<focus, hub, ready, calls, busy, ops, faults, disturbed>>
  /\ UNCHANGED <<shown, pending, selected, skillStatus>>
SelectWorkspace(w) ==
  /\ OnPlugins /\ tab = "skills" /\ w \in ready \ {selected}
  /\ busy.op \notin {"load", "save", "reconcile"}
  /\ selected' = w
  /\ Start("load", w, None)
  /\ UNCHANGED <<tab, shown, pending, skillStatus>>
ShowSkillStatus(c) ==
  /\ OnPlugins /\ (Answered(c, "load") \/ Answered(c, "save")) /\ Finish(c)
  /\ skillStatus' = c.got.policy[c.x]
  /\ UNCHANGED <<tab, shown, pending, selected>>

\* updateSkillPolicy and the overrides: a change of the policy that is shown.
PolicyTarget == skillStatus.of
UpdateSkillPolicy(choice) ==
  /\ OnPlugins /\ tab = "skills" /\ skillStatus.of # None /\ busy.op # "save"
  /\ choice # skillStatus.choice /\ PolicyTarget # None
  /\ Start("save", PolicyTarget, [skillStatus EXCEPT !.choice = choice])
  /\ UNCHANGED hubScreen
ReconcileSkills ==
  /\ OnPlugins /\ tab = "skills" /\ selected # None /\ busy.op # "reconcile"
  /\ Start("reconcile", selected, None)
  /\ UNCHANGED hubScreen
ShowReconciled(c) ==
  /\ OnPlugins /\ Answered(c, "reconcile") /\ Finish(c)
  /\ skillStatus' = c.got.policy[c.x]
  /\ shown' = View(c.got)
  /\ UNCHANGED <<tab, pending, selected>>

\* A package is reviewed: a local one, or one of the catalog, which is first
\* looked for in the registry.
Reviewable(x) == shown.ext[x] = Absent
ReviewPackage(op, x) ==
  /\ OnPlugins /\ tab = "explore" /\ busy # [op |-> op, x |-> x]
  /\ op = "review" => Reviewable(x)
  /\ Start(op, x, None)
  /\ UNCHANGED hubScreen
Reviewed(c) ==
  /\ OnPlugins
  /\ \/ /\ Answered(c, "pick") /\ UNCHANGED shown
        /\ IF shown.ext[c.x] # Absent THEN tab' = "installed" /\ UNCHANGED pending
                                      ELSE pending' = c.x /\ UNCHANGED tab
     \/ /\ Answered(c, "review")
        /\ IF c.got.ext[c.x] # Absent
           THEN tab' = "installed" /\ shown' = View(c.got) /\ UNCHANGED pending
           ELSE pending' = c.x /\ UNCHANGED <<tab, shown>>
  /\ Finish(c)
  /\ UNCHANGED <<selected, skillStatus>>
CloseReview ==
  /\ OnPlugins /\ pending # None /\ busy.op \notin {"check", "remove"}
  /\ pending' = None
  /\ UNCHANGED <<focus, hub, ready, calls, busy, tab, shown, selected, skillStatus, ops, faults,
                 disturbed>>

\* install: the registry is asked again before the package is installed.
InstallPending ==
  /\ OnPlugins /\ pending # None /\ shown.ext[pending] = Absent
  /\ busy \notin {[op |-> o, x |-> pending] : o \in {"check", "remove"}}
  /\ Start("check", pending, None)
  /\ UNCHANGED hubScreen
Checked(c) ==
  /\ OnPlugins /\ Answered(c, "check")
  /\ IF c.got.ext[c.x] # Absent
     THEN /\ Finish(c)
          /\ shown' = View(c.got) /\ pending' = None /\ tab' = "installed"
     ELSE Continue(c, "install", c.x) /\ UNCHANGED <<busy, shown, pending, tab>>
  /\ UNCHANGED <<selected, skillStatus>>
ChangePlugin(op, x) ==
  /\ OnPlugins
  /\ tab # "installed" => op = "remove" /\ (tab = "explore" \/ pending = x)
  /\ shown.ext[x] # Absent /\ busy # [op |-> op, x |-> x]
  /\ op = "enable" => shown.ext[x] = "off"
  /\ op = "disable" => shown.ext[x] = "on"
  /\ Start(op, x, None)
  /\ UNCHANGED hubScreen
PluginAnswered(c) ==
  /\ OnPlugins /\ c.at = "answered"
  /\ \/ c.op = "install" /\ pending' = None /\ tab' = "installed"
     \/ c.op \in {"enable", "disable"} /\ UNCHANGED <<pending, tab>>
     \/ /\ c.op = "remove" /\ pending' = IF pending = c.x THEN None ELSE pending
        /\ UNCHANGED tab
  /\ Continue(c, "refresh", None)
  /\ busy' = [op |-> "refresh", x |-> None]
  /\ UNCHANGED <<shown, selected, skillStatus>>

\* A workspace is removed elsewhere.
WorkspaceGone(w) ==
  /\ focus = "plugins" /\ w \in ready /\ faults < MaxFaults
  /\ ready' = ready \ {w} /\ faults' = faults + 1 /\ disturbed' = TRUE
  /\ UNCHANGED <<focus, hub, calls, screen, ops>>

-----------------------------------------------------------------------------
Init ==
  /\ focus \in {"market", "extensions", "plugins"}
  /\ \E ext \in [Items -> {Absent, "on"}] :
       hub = [Blank EXCEPT !.ext = ext,
                           !.rule = [x \in Items |-> IF ext[x] = Absent THEN "none" ELSE "automatic"],
                           !.old = {x \in Items : ext[x] # Absent},
                           !.policy = [w \in Workspaces |-> [of |-> w, choice |-> 0]]]
  /\ ready = Workspaces
  /\ calls = {NewCall(IF focus = "market" THEN "search" ELSE "refresh", None, None)}
  /\ busy = IF focus = "extensions" THEN NoButton
            ELSE [op |-> IF focus = "market" THEN "search" ELSE "refresh", x |-> None]
  /\ tab = "explore" /\ shown = View(Blank) /\ tools = [x \in Items |-> "none"]
  /\ plan = None /\ draft = None /\ creds = [x \in Items |-> None]
  /\ updates = {} /\ rollbackReady = None /\ pending = None
  /\ selected = None /\ skillStatus = NoStatus
  /\ ops = 0 /\ faults = 0 /\ disturbed = FALSE

MarketNext ==
  \/ SearchMarketplace \/ ClosePlan \/ TypeEnvironment \/ InstallPlanned \/ RefreshUpdates
  \/ Rollback
  \/ \E t \in {"explore", "installed", "updates"} : ChooseMarketTab(t)
  \/ \E x \in Items : ReviewInstall(x) \/ ReviewUpdate(x) \/ ApplyUpdate(x)
  \/ \E c \in calls : \/ ShowResults(c) \/ ShowPlan(c) \/ PlannedInstalled(c)
                      \/ ShowUpdates(c) \/ Updated(c)
ExtensionsNext ==
  \/ \E x \in Items :
       \/ InstallExtension(x) \/ ToggleTools(x) \/ ApproveNext(x) \/ TypeCredential(x)
       \/ SaveCredential(x) \/ ClearCredential(x)
       \/ \E op \in {"enable", "disable", "restart", "remove"} : Lifecycle(op, x)
       \/ \E op \in {"connect", "revoke"} : OauthAction(op, x)
       \/ \E rule \in {"automatic", "ask"} : UpdatePolicy(x, rule)
  \/ \E c \in calls : ExtensionAnswered(c) \/ Approved(c) \/ ShowTools(c) \/ ShowExtensions(c)
PluginsNext ==
  \/ RefreshHub \/ ReconcileSkills \/ CloseReview \/ InstallPending
  \/ \E t \in {"explore", "installed", "skills"} : ChooseHubTab(t)
  \/ \E w \in Workspaces : SelectWorkspace(w) \/ WorkspaceGone(w)
  \/ \E choice \in 0..1 : UpdateSkillPolicy(choice)
  \/ \E x \in Items : \/ \E op \in {"pick", "review"} : ReviewPackage(op, x)
                      \/ \E op \in {"enable", "disable", "remove"} : ChangePlugin(op, x)
  \/ \E c \in calls : \/ ShowPlugins(c) \/ ShowSkillStatus(c) \/ ShowReconciled(c)
                      \/ Reviewed(c) \/ Checked(c) \/ PluginAnswered(c)
Next ==
  \/ \E c \in calls : Serve(c) \/ Fail(c)
  \/ MarketNext \/ ExtensionsNext \/ PluginsNext

Spec == Init /\ [][Next]_vars

-----------------------------------------------------------------------------
\* What the user typed for one server, extension or workspace is never stored
\* for another, however calls and answers interleave: values typed into a plan's
\* fields go to that plan's server, a credential to its own panel's extension, and
\* a skill policy is saved for the workspace it was loaded for, even while
\* another workspace is already selected.
TypedGoesWhereMeant ==
  /\ \A x \in Items : hub.secret[x] \in {None, x}
  /\ \A w \in Workspaces : hub.policy[w].of = w

\* At rest no button stays busy, and if no operation failed or ran beside
\* another, the screen shows what the main process keeps: the list, the open tool
\* panels, the updates, the policy of the selected workspace.
ScreenShowsTheHub ==
  calls = {} =>
    /\ busy = NoButton
    /\ ~disturbed =>
         /\ focus # "market" => shown = View(hub)
         /\ focus = "market" /\ tab = "updates" => updates = hub.old
         /\ \A x \in Items : tools[x] \in {"none", hub.rule[x]}
         /\ tab = "skills" => skillStatus = IF selected = None THEN NoStatus
                                            ELSE hub.policy[selected]

\* What is typed reaches what it was typed for, though answers come in any order; and
\* a screen shows what the hub has after operations that succeeded and did not overlap.
ScreensAreTruthful == TypedGoesWhereMeant /\ ScreenShowsTheHub
================================================================================
