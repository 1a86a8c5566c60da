-------------------------------- MODULE MCHub --------------------------------
(****************************************************************************)
(* PluginVerification with instances of PluginHub and PublicMcp beside it:  *)
(* the domain challenge of a plugin, the plugin hub and the public route to *)
(* the daemon. Which one moves is chosen at the start, so that a run asks   *)
(* the questions of all at once; the variables of PluginVerification keep   *)
(* their initial values while another module moves. PublicMcp gets the      *)
(* longer histories in one instance and more failures in the other.         *)
(****************************************************************************)
EXTENDS PluginVerification, TLC

CONSTANTS
    Null

\* The instance that moves; the variables of an instance that stands still are Off.
VARIABLE watch
VARIABLES
    hubReg, hubExt, hubStore, hubPkg, hubRt, hubCache, hubKept, hubPol,
    hubUp, hubCalls, hubHist, hubOps
VARIABLES
    routeOp, routeBroker, routeDisk, routeMem, routeCf, routeProcs,
    routeBegun, routeFaults, routeCrossed, routeHalf, routeLast

hubVars ==
    <<hubReg, hubExt, hubStore, hubPkg, hubRt, hubCache, hubKept, hubPol,
      hubUp, hubCalls, hubHist, hubOps>>
routeVars ==
    <<routeOp, routeBroker, routeDisk, routeMem, routeCf, routeProcs,
      routeBegun, routeFaults, routeCrossed, routeHalf, routeLast>>
Off == "off"

\* Plugin "a" is skills only at first and gets an MCP component later; "b" has
\* that component from the start, and a Harness extension; its next version embeds
\* a secret.
Policy(kind, value) == [kind |-> kind, target |-> "skill", value |-> value]
Content(defs, harness) == [defs |-> defs, skill |-> TRUE, harness |-> harness, flaws |-> {}]
SomePackages ==
    (<<"a", 1>> :> Content({}, {})) @@ (<<"a", 2>> :> Content({"d"}, {})) @@
    (<<"b", 1>> :> Content({"d"}, {Policy("policy", "ask"), Policy("context", "none")})) @@
    (<<"b", 2>> :> Content({"x"}, {}))
SomeEntries == [p \in {"a", "b"} |-> [source |-> "local", available |-> TRUE]]
SomeTags == [p \in {"a", "b"} |-> IF p = "a" THEN {"s"} ELSE {}]
Definition(inline) == [kind |-> "https", auth |-> "none", inline |-> inline, path |-> FALSE]
SomeDefs == ("d" :> Definition(FALSE)) @@ ("x" :> Definition(TRUE))
SomePolicies == {[automatic |-> TRUE, install |-> FALSE, include |-> {"a"}, exclude |-> {"b"}]}

\* Nothing but an extension of the operator's own; two plugins that share an
\* extension; the bundled plugin with an extension, as older versions left it.
Ext(hub, direct) == [e \in {"d"} \X {"hub", "direct"} |-> IF e[2] = "hub" THEN hub ELSE direct]
SomeStates ==
    {[reg |-> [plugins |-> <<>>, own |-> <<>>], ext |-> Ext("absent", "off"),
      store |-> [p \in {"a", "b"} |-> Null]],
     [reg |-> [plugins |-> [p \in {"a", "b"} |-> [ver |-> IF p = "a" THEN 2 ELSE 1, on |-> p = "b", cat |-> FALSE]],
               own |-> "d" :> [owners |-> {"a", "b"}, direct |-> FALSE]],
      ext |-> Ext("on", "absent"), store |-> [p \in {"a", "b"} |-> IF p = "a" THEN 2 ELSE 1]],
     [reg |-> [plugins |-> "b" :> [ver |-> 1, on |-> TRUE, cat |-> TRUE],
               own |-> "d" :> [owners |-> {"b"}, direct |-> FALSE]],
      ext |-> Ext("on", "absent"), store |-> [p \in {"a", "b"} |-> IF p = "b" THEN 1 ELSE Null]]}

Hub == INSTANCE PluginHub WITH
    Plugins <- {"a", "b"}, Versions <- {1, 2}, Defs <- {"d", "x"},
    NpmSkills <- {"n"}, Workspaces <- {"w"}, Signals <- {"s"},
    Package <- SomePackages, Entry <- SomeEntries, Tags <- SomeTags,
    Native <- {}, Bundled <- "b", Def <- SomeDefs,
    Found <- [w \in {"w"} |-> {"s"}], PromptOnly <- {}, Prompts <- {{"s"}},
    Policies <- SomePolicies, Inherited <- SomeStates, MaxActive <- 2,
    MaxCalls <- 2, MaxOps <- 2, None <- Null, reg <- hubReg, ext <- hubExt,
    store <- hubStore, pkg <- hubPkg, rt <- hubRt, cache <- hubCache,
    kept <- hubKept, pol <- hubPol, up <- hubUp, calls <- hubCalls,
    hist <- hubHist, ops <- hubOps

Route == INSTANCE PublicMcp WITH
    MaxInst <- 3, MaxCred <- 2, MaxProcs <- 3, MaxOps <- 4, MaxFaults <- 1,
    op <- routeOp, broker <- routeBroker, disk <- routeDisk, mem <- routeMem,
    cf <- routeCf, procs <- routeProcs, begun <- routeBegun,
    faults <- routeFaults, crossed <- routeCrossed, half <- routeHalf,
    last <- routeLast

RouteFaults == INSTANCE PublicMcp WITH
    MaxInst <- 3, MaxCred <- 2, MaxProcs <- 3, MaxOps <- 3, MaxFaults <- 2,
    op <- routeOp, broker <- routeBroker, disk <- routeDisk, mem <- routeMem,
    cf <- routeCf, procs <- routeProcs, begun <- routeBegun,
    faults <- routeFaults, crossed <- routeCrossed, half <- routeHalf,
    last <- routeLast

-----------------------------------------------------------------------------
HubOff ==
    /\ hubReg = Off /\ hubExt = Off /\ hubStore = Off /\ hubPkg = Off
    /\ hubRt = Off /\ hubCache = Off /\ hubKept = Off /\ hubPol = Off
    /\ hubUp = Off /\ hubCalls = Off /\ hubHist = Off /\ hubOps = Off
RouteOff ==
    /\ routeOp = Off /\ routeBroker = Off /\ routeDisk = Off
    /\ routeMem = Off /\ routeCf = Off /\ routeProcs = Off
    /\ routeBegun = Off /\ routeFaults = Off /\ routeCrossed = Off
    /\ routeHalf = Off /\ routeLast = Off

\* No challenge at first, and a daemon of the application's own.
AtRest == Init /\ plan = None /\ ~external

HubInit ==
    \/ /\ watch = "hub" /\ Hub!Init
       /\ AtRest /\ RouteOff
    \/ /\ watch = "proof" /\ Init
       /\ HubOff /\ RouteOff
    \/ /\ watch = "route" /\ Route!Init
       /\ HubOff /\ AtRest
    \/ /\ watch = "route faults" /\ RouteFaults!Init
       /\ HubOff /\ AtRest
HubNext ==
    \/ /\ watch = "hub" /\ Hub!Next
       /\ UNCHANGED <<watch, vars, routeVars>>
    \/ /\ watch = "proof" /\ Next
       /\ UNCHANGED <<watch, hubVars, routeVars>>
    \/ /\ watch = "route" /\ Route!Next
       /\ UNCHANGED <<watch, hubVars, vars>>
    \/ /\ watch = "route faults" /\ RouteFaults!Next
       /\ UNCHANGED <<watch, hubVars, vars>>
HubSpec == HubInit /\ [][HubNext]_<<watch, hubVars, vars, routeVars>>

-----------------------------------------------------------------------------
\* The daemon runs the skills and extensions the registry names, and every
\* extension the hub made has an owner there (plugin-manager.ts, plugin-
\* registry.ts).
RegistryIsFollowed == watch = "hub" => Hub!RegistryIsFollowed

\* What a turn installs by itself is skills only, and what it selected it can
\* activate (plugin-manager.ts, codex-skill-cache.ts).
TurnsGetSafeSkills == watch = "hub" => Hub!TurnsGetSafeSkills

\* The public route, its credential and its tunnel agree whenever the Desktop
\* is at rest, whatever step of an enrollment, rotation or revocation was cut
\* short (public-mcp-manager.ts, cloudflared-manager.ts).
RouteIsAccounted ==
    /\ watch = "route" => Route!RouteIsAccounted
    /\ watch = "route faults" => RouteFaults!RouteIsAccounted

=============================================================================
