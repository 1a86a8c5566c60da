------------------------------ MODULE PluginHub ------------------------------
(***************************************************************************)
(* The plugin hub of the desktop: PluginManager with its registry, the     *)
(* marketplace cache, the workspace skill policies, the npm Skills         *)
(* preflight and the Codex skill cache that a turn resolves its skills in  *)
(* (main/plugin-*.ts, npm-skills-manager.ts, codex-skill-cache.ts).        *)
(*                                                                         *)
(* Nothing serialises the operations: the IPC handlers, the preflight of a *)
(* prompt and the refresh of the workspaces interleave at every await.     *)
(* An operation works on the snapshot of the registry it took at first and *)
(* writes that snapshot back, changed or not.                              *)
(*                                                                         *)
(* A call has the steps it still awaits in `todo'; `job' is the try block  *)
(* it is in, `rest' what follows that block when its error is swallowed.   *)
(* A plugin carries one skill, an MCP extension is known by its definition *)
(* and by who installed it.                                                *)
(***************************************************************************)
EXTENDS Naturals, Sequences, FiniteSets, TLC

CONSTANTS
    Plugins, Versions, Defs, NpmSkills, Workspaces, Signals,
    Package,        \* [Plugins \X Versions -> [defs, skill, harness, flaws]]
    Entry,          \* [Plugins -> [source, available]]: what the marketplace lists
    Tags,           \* [Plugins -> SUBSET Signals]: what the skill is about; {} is generic
    Native,         \* plugins whose MCP component the desktop has built in
    Bundled,        \* the id of the bundled plugin, sourcenerve
    Def,            \* [Defs -> [kind, auth, inline, path]]: an MCP server of a package
    Found,          \* [Workspaces -> SUBSET Signals]: discoverWorkspaceSkillSignals
    PromptOnly,     \* PROMPT_ONLY_SIGNALS
    Prompts,        \* the signals of the prompts: discoverPromptSkillSignals
    Policies,       \* the policies an operator may set
    Inherited,      \* what an earlier process left: [reg, ext, store]
    MaxActive,      \* MAX_ACTIVE_SKILLS_PER_TURN
    MaxCalls,       \* bound: operations in flight
    MaxOps,         \* bound: operations started and changes from outside
    None

VARIABLES
    reg,     \* DesktopPluginRegistry: the file and the snapshot
    ext,     \* the MCP manager's extensions
    store,   \* the managed skill directories: the version in it
    pkg,     \* the version each package path holds
    rt,      \* what the daemon was last told: [skills, harness]
    cache,   \* CodexSkillCache.skills
    kept,    \* its registry file
    pol,     \* WorkspaceSkillPolicyStore
    up,      \* "down", "starting" or "up": requirePluginManager
    calls,
    hist,    \* history: what the properties except
    ops

vars == <<reg, ext, store, pkg, rt, cache, kept, pol, up, calls, hist, ops>>

Sources == {"hub", "direct"}

IsSnapshot(s) ==
    /\ DOMAIN s.plugins \subseteq Plugins /\ DOMAIN s.own \subseteq Defs
    /\ \A p \in DOMAIN s.plugins : s.plugins[p] \in [ver : Versions, on : BOOLEAN, cat : BOOLEAN]
    /\ \A d \in DOMAIN s.own : s.own[d].owners \subseteq Plugins /\ s.own[d].direct \in BOOLEAN

Drop(f, S) == [x \in DOMAIN f \ S |-> f[x]]

-----------------------------------------------------------------------------
(* The packages: what inspectLocalPluginPackage lets pass.                 *)

RejectInlineSecrets(d) == ~Def[d].inline
ParseMcpServers(k) ==
    \A d \in k.defs : /\ RejectInlineSecrets(d)
                      /\ Def[d].kind \in {"https", "stdio"}
                      /\ Def[d].kind = "stdio" => ~Def[d].path
RejectExecutionFields(k) == "execution" \notin k.flaws
InspectSkills(k) == "skills" \notin k.flaws
RejectHarnessSecrets(k) == "secret" \notin k.flaws

\* A Harness extension may only tighten the policy of what its package has:
\* the registrations are [kind, target, value], and `mcp' and `skill' say
\* which targets there are.
HarnessPolicy(h, mcp, skill) ==
    h.kind = "policy" => /\ h.target = "skill" => skill
                         /\ h.target = "mcp" => mcp
                         /\ h.target \in {"skill", "mcp"} /\ h.value \in {"ask", "deny"}
HarnessJobProvider(h) == h.kind = "job" => h.value = "harness-job"
HarnessSandboxProvider(h) == h.kind = "sandbox" => h.value \in {"partial", "unavailable"}
HarnessContextProvider(h, skill) == h.kind = "context" => skill
HarnessEventObserver(h) == h.kind = "observer" => h.value = "sanitized-metadata"
ParseHarnessExtension(H, mcp, skill) ==
    \A h \in H : /\ HarnessPolicy(h, mcp, skill) /\ HarnessJobProvider(h) /\ HarnessSandboxProvider(h)
                 /\ HarnessContextProvider(h, skill) /\ HarnessEventObserver(h)

InspectLocalPluginPackage(p, v) ==
    /\ v # None
    /\ LET k == Package[p, v]
       IN  /\ RejectExecutionFields(k) /\ ParseMcpServers(k) /\ InspectSkills(k)
           /\ RejectHarnessSecrets(k) /\ ParseHarnessExtension(k.harness, k.defs # {}, k.skill)

\* parseCodexMarketplaceIndex: what can be staged.
Index == {p \in Plugins : Entry[p].source = "local" /\ Entry[p].available}

\* stageRemotePluginPackage: the package as it is now, or what was there, or
\* nothing, when the old one was removed and the new one not renamed.
StageRemotePluginPackage(p) ==
    {pkg[p]} \cup (IF p \in Index THEN Versions \cup {None} ELSE {})

-----------------------------------------------------------------------------
(* The registry.                                                           *)

ExtensionsOf(s, p) == {d \in DOMAIN s.own : p \in s.own[d].owners}
ExtensionId(s, d) == <<d, IF s.own[d].direct THEN "direct" ELSE "hub">>
IsDirectInstall(s, d) == s.own[d].direct
\* validateRegistry: an owner is an installed plugin, and a Harness extension
\* still has its targets.
ValidateOwnership(s, d) == s.own[d].owners \subseteq DOMAIN s.plugins
ValidateHarness(s, p) ==
    LET k == Package[p, s.plugins[p].ver]
    IN  ParseHarnessExtension(k.harness, ExtensionsOf(s, p) # {}, k.skill)
ValidateRegistry(s) ==
    /\ IsSnapshot(s)
    /\ \A p \in DOMAIN s.plugins : ValidateHarness(s, p)
    /\ \A d \in DOMAIN s.own : ValidateOwnership(s, d)
HasEnabledOwner(s, d) == \E p \in s.own[d].owners : p \in DOMAIN s.plugins /\ s.plugins[p].on

\* The ownership without plugin p: a record without owners goes.
Disowned(s, p) ==
    LET left == [d \in DOMAIN s.own |-> [s.own[d] EXCEPT !.owners = @ \ {p}]]
    IN  Drop(left, {d \in DOMAIN left : left[d].owners = {}})

\* The extensions that go with plugin p.
Removable(s, p) ==
    {ExtensionId(s, d) : d \in {x \in DOMAIN s.own : s.own[x].owners = {p} /\ ~s.own[x].direct}}

\* What installLocal, enable, disable and remove write.
Written(c) ==
    LET b == c.before
    IN  CASE c.job = "install" -> [plugins |-> (c.p :> [ver |-> c.ver, on |-> TRUE, cat |-> FALSE]) @@ b.plugins, own |-> c.own]
          [] c.job = "enable"  -> [b EXCEPT !.plugins[c.p].on = TRUE]
          [] c.job = "disable" -> [b EXCEPT !.plugins[c.p].on = FALSE]
          [] c.job = "remove"  -> [plugins |-> Drop(b.plugins, {c.p}), own |-> Disowned(b, c.p)]

-----------------------------------------------------------------------------
(* Workspace skill policies.                                               *)

\* promptScopedSkillSignals.
PromptScoped(w, said) == {s \in Found[w] : s \in PromptOnly => s \in said} \cup said

\* workspaceSkillIsActive.
\* Mutation: what matches is used, whatever the operator excluded.
ActiveUnlessManual(q, p, signals) ==
    p \in q.include \/ (q.automatic /\ (Tags[p] = {} \/ Tags[p] \cap signals # {}))
WorkspaceSkillIsActive(q, p, signals) ==
    /\ p \notin q.exclude
    /\ p \in q.include \/ (q.automatic /\ (Tags[p] = {} \/ Tags[p] \cap signals # {}))

\* The order in which selectPromptSkillKeys takes skills.
Score(q, p, signals, said) ==
    (IF p \in q.include THEN 10000 ELSE 0) + 1000 * Cardinality(Tags[p] \cap said)
      + (IF Tags[p] = {} THEN 100 ELSE 0) + Cardinality(Tags[p] \cap signals)

\* selectPromptSkillKeys: the best of the active skills.
Selections(q, signals, said) ==
    LET all == {p \in DOMAIN reg.plugins : /\ reg.plugins[p].on /\ Package[p, reg.plugins[p].ver].skill
                                           /\ WorkspaceSkillIsActive(q, p, signals)}
    IN  {K \in SUBSET all :
           /\ Cardinality(K) <= MaxActive
           /\ K = all \/ Cardinality(K) = MaxActive
           /\ \A k \in K, o \in all \ K : Score(q, k, signals, said) >= Score(q, o, signals, said)}

\* isSafeSkillsOnlyAutoInstall.  Mutation: only the skill is looked at.
SafeIfMatching(p, v, signals) == Package[p, v].skill /\ Tags[p] \cap signals # {}
IsSafeSkillsOnlyAutoInstall(p, v, signals) ==
    LET k == Package[p, v]
    IN  k.defs = {} /\ k.harness = {} /\ k.skill /\ Tags[p] \cap signals # {}

-----------------------------------------------------------------------------
(* Calls.                                                                  *)

Idle == [op |-> "none", job |-> "none", ws |-> None, p |-> None, ver |-> None,
         before |-> None, own |-> None, cur |-> None, need |-> {}, made |-> {}, woken |-> {},
         done |-> FALSE, quiet |-> FALSE, auto |-> FALSE, q |-> None, sig |-> {}, said |-> {},
         snap |-> None, mat |-> None, npm |-> {}, new |-> {}, keys |-> {},
         todo |-> <<>>, rest |-> <<>>]

MaterializeRuntime == <<"read", "post", "swap">>

\* A call after a try block: its error, if any, is swallowed there.
Resume(c) ==
    IF c.todo # <<>> THEN c
    ELSE [c EXCEPT !.todo = c.rest, !.rest = <<>>, !.job = "none", !.quiet = FALSE, !.done = FALSE,
                   !.before = None, !.own = None, !.cur = None, !.need = {}, !.made = {}, !.woken = {}]

\* Call c goes on as d.  materializeRuntime takes its snapshot before it awaits.
PutWith(c, d, r) ==
    LET e == Resume(d)
        f == IF e.todo # <<>> /\ Head(e.todo) = "read" THEN [e EXCEPT !.snap = r, !.mat = None]
             ELSE e
    IN  calls' = (calls \ {c}) \cup (IF f.todo = <<>> THEN {} ELSE {f})
Put(c, d) == PutWith(c, d, reg)
Done(c, d) == Put(c, [d EXCEPT !.todo = Tail(@)])
DoneWith(c, r) == PutWith(c, [c EXCEPT !.todo = Tail(@)], r)

\* The catch block of a job; outside of one the call just fails.
Undo(c) ==
    CASE c.job = "install" -> (IF c.done THEN <<"unskill">> ELSE <<>>)
                                \o (IF c.made # {} THEN <<"unmake">> ELSE <<>>) \o <<"restore">> \o MaterializeRuntime
      [] c.job = "enable" -> <<"restore", "sleepwoken">> \o MaterializeRuntime
      [] c.job \in {"disable", "remove"} -> <<"restore">> \o MaterializeRuntime
      [] OTHER -> <<>>
Thrown(c) ==
    IF c.quiet \/ c.job = "none" THEN [c EXCEPT !.todo = <<>>]
    ELSE [c EXCEPT !.todo = Undo(c), !.quiet = TRUE, !.mat = None, !.npm = {}]

\* What an error leaves behind for good: it ended a roll-back, it undid a
\* removal whose skills are gone, or a stored policy is not in effect.
Marks(c) ==
    {m \in {"lost", "unremoved", "unapplied"} :
       CASE m = "lost" -> c.quiet
         [] m = "unremoved" -> c.job = "remove" /\ ~c.quiet
         [] m = "unapplied" -> c.op = "policy" /\ c.job = "none"}
Throw(c) ==
    /\ Put(c, Thrown(c)) /\ hist' = hist \cup Marks(c)
    /\ up' = IF c.op = "start" THEN "down" ELSE up

Item(c, name) == c.todo # <<>> /\ Head(c.todo) = name

Start(c) ==
    /\ up = "up" /\ ops < MaxOps /\ Cardinality(calls) < MaxCalls
    /\ ops' = ops + 1 /\ calls' = calls \cup {c}
    /\ hist' = IF calls # {} THEN hist \cup {"raced"} ELSE hist
    /\ UNCHANGED <<reg, ext, store, pkg, rt, cache, kept, pol, up>>

-----------------------------------------------------------------------------
(* What the operator and the prompts start.                                *)

InstallLocal(p) == Start([Idle EXCEPT !.op = "install", !.p = p, !.todo = <<"inspect">>])

Enable(p) ==
    /\ p \in DOMAIN reg.plugins /\ ~reg.plugins[p].on
    /\ Start([Idle EXCEPT !.op = "enable", !.job = "enable", !.p = p, !.before = reg, !.need = ExtensionsOf(reg, p),
                          !.todo = <<"wake", "replace">> \o MaterializeRuntime])
Disable(p) ==
    /\ p \in DOMAIN reg.plugins /\ reg.plugins[p].on
    /\ Start([Idle EXCEPT !.op = "disable", !.job = "disable", !.p = p, !.before = reg,
                          !.todo = <<"replace", "sleep">> \o MaterializeRuntime])
Remove(p) ==
    /\ p \in DOMAIN reg.plugins
    /\ Start([Idle EXCEPT !.op = "remove", !.job = "remove", !.p = p, !.before = reg,
                          !.todo = <<"replace", "unskill", "unlink", "sleep">> \o MaterializeRuntime])

\* reviewMarketplace stages what the marketplace has now.  An automatic
\* install that has reviewed the package and not read it yet gets the new one.
Restaged(p) == IF \E c \in calls : c.auto /\ c.p = p /\ Item(c, "inspect") THEN {"restaged"} ELSE {}
ReviewMarketplace(p) ==
    /\ ops < MaxOps /\ up = "up"
    /\ \E v \in StageRemotePluginPackage(p) \ {pkg[p]} : pkg' = [pkg EXCEPT ![p] = v]
    /\ ops' = ops + 1
    /\ hist' = hist \cup Restaged(p)
    /\ UNCHANGED <<reg, ext, store, rt, cache, kept, pol, up, calls>>

\* What discovers skills for a workspace on its own.
Automatic(q, signals) == IF q.automatic /\ q.install /\ signals # {} THEN <<"auto">> ELSE <<>>

\* setSkillPolicy.
SetSkillPolicy(w, q) ==
    /\ pol[w] # q
    /\ Start([Idle EXCEPT !.op = "policy", !.ws = w, !.q = q, !.sig = Found[w],
                          !.todo = <<"policy">> \o Automatic(q, Found[w]) \o MaterializeRuntime])

\* refreshWorkspaceScopes, reconcileWorkspaceSkills.
RefreshWorkspaceScopes ==
    Start([Idle EXCEPT !.op = "refresh", !.todo = MaterializeRuntime, !.snap = reg])
ReconcileWorkspaceSkills(w) ==
    LET todo == Automatic(pol[w], Found[w]) \o MaterializeRuntime
    IN  Start([Idle EXCEPT !.op = "reconcile", !.ws = w, !.q = pol[w], !.sig = Found[w], !.todo = todo,
                           !.snap = IF Head(todo) = "read" THEN reg ELSE None])

\* prepareHarnessCodexTurn: the npm preflight, then the one of the plugins,
\* whose keys the turn activates later.  A prompt that needs no skills starts neither.
PrepareTurn(w, said) ==
    Start([Idle EXCEPT !.op = "turn", !.ws = w, !.said = said, !.sig = PromptScoped(w, said),
                       !.todo = <<"npm", "prepare">> \o MaterializeRuntime \o <<"select", "activate">>])

\* The MCP screen: the operator's own changes, and hub extensions he removes.
Operate(e) ==
    /\ ops < MaxOps /\ ops' = ops + 1
    /\ \E s \in {"absent", "off", "on"} :
         /\ s # ext[e] /\ (e[2] = "hub" => s = "absent")
         /\ ext' = [ext EXCEPT ![e] = s]
    /\ hist' = hist \cup {"operated"} \cup (IF calls # {} THEN {"raced"} ELSE {})
    /\ UNCHANGED <<reg, store, pkg, rt, cache, kept, pol, up, calls>>

\* The process ends, and the next one starts.
Crash ==
    /\ ops < MaxOps /\ ops' = ops + 1 /\ up # "down" /\ up' = "down" /\ calls' = {} /\ cache' = kept
    /\ hist' = IF calls # {} THEN hist \cup {"lost"} ELSE hist
    /\ UNCHANGED <<reg, ext, store, pkg, rt, kept, pol>>

\* requirePluginManager: one initialization at a time, again if it failed.
Initialize ==
    /\ up = "down" /\ up' = "starting"
    /\ calls' = {[Idle EXCEPT !.op = "start", !.todo = <<"bundled">> \o MaterializeRuntime]}
    /\ UNCHANGED <<reg, ext, store, pkg, rt, cache, kept, pol, hist, ops>>

-----------------------------------------------------------------------------
(* The steps of the calls.                                                 *)

\* reconcileBundledSourceNervePlugin: an old registry gave the bundled
\* plugin of the catalog (cat) an extension of its own.
ReconcileBundled(c) ==
    /\ Item(c, "bundled")
    /\ IF Bundled \in DOMAIN reg.plugins /\ reg.plugins[Bundled].cat /\ ExtensionsOf(reg, Bundled) # {}
         THEN IF ~ValidateRegistry([reg EXCEPT !.own = Disowned(reg, Bundled)])
              THEN UNCHANGED <<reg, ext>> /\ Throw(c) ELSE
              /\ up' = up
              /\ reg' = [reg EXCEPT !.own = Disowned(reg, Bundled)]
              /\ DoneWith(c, [reg EXCEPT !.own = Disowned(reg, Bundled)])
              /\ \E gone \in SUBSET Removable(reg, Bundled) :
                   /\ ext' = [e \in DOMAIN ext |-> IF e \in gone THEN "absent" ELSE ext[e]]
                   /\ hist' = IF gone = Removable(reg, Bundled) THEN hist ELSE hist \cup {"lost"}
         ELSE UNCHANGED <<reg, ext, hist, up>> /\ Done(c, c)
    /\ UNCHANGED <<store, pkg, rt, cache, kept, pol, ops>>

\* installLocal up to its try block.
InstallScript == <<"list", "ensure", "commit", "replace">> \o MaterializeRuntime
Components(p, v) == IF p \in Native THEN {} ELSE Package[p, v].defs
Inspect(c) ==
    /\ Item(c, "inspect")
    /\ LET v == pkg[c.p]
       IN  IF c.p \in DOMAIN reg.plugins \/ ~InspectLocalPluginPackage(c.p, v) THEN Done(c, c)
           ELSE Put(c, [c EXCEPT !.job = "install", !.ver = v, !.before = reg, !.own = reg.own,
                                 !.need = Components(c.p, v), !.todo = InstallScript, !.rest = Tail(c.todo) \o c.rest])
    /\ UNCHANGED <<reg, ext, store, pkg, rt, cache, kept, pol, up, hist, ops>>
ListExtensions(c) ==
    /\ Item(c, "list")
    /\ Done(c, [c EXCEPT !.cur = ext])
    /\ UNCHANGED <<reg, ext, store, pkg, rt, cache, kept, pol, up, hist, ops>>

\* ensureMcpComponent, for the extensions as they were listed.
Reuse(c, d, e, own) ==
    \/ /\ c.cur[e] = "off" => ext[e] # "absent"
       /\ ext' = IF c.cur[e] = "off" THEN [ext EXCEPT ![e] = "on"] ELSE ext
       /\ Put(c, [c EXCEPT !.own = own, !.need = @ \ {d}])
       /\ UNCHANGED <<hist, up>>
    \/ c.cur[e] = "off" /\ UNCHANGED ext /\ Throw(c)
Create(c, d, own) ==
    LET e == <<d, "hub">>
    IN  \/ /\ ext[e] = "absent" /\ ext' = [ext EXCEPT ![e] = "on"]
           /\ Put(c, [c EXCEPT !.own = own, !.need = @ \ {d}, !.made = @ \cup {e}, !.cur[e] = "on"])
           /\ UNCHANGED <<hist, up>>
        \/ UNCHANGED ext /\ Throw(c)
        \/ /\ ext[e] = "absent" /\ ext' = [ext EXCEPT ![e] = "off"]   \* nor could it be removed
           /\ Put(c, Thrown(c)) /\ hist' = hist \cup {"lost"} /\ UNCHANGED up
EnsureMcpComponent(c, d) ==
    LET here == {s \in Sources : c.cur[d, s] # "absent"}
        mine(s) == (d :> [owners |-> {c.p}, direct |-> s = "direct"]) @@ c.own
    IN  CASE d \in DOMAIN c.own ->
               LET e == ExtensionId(c, d)
               IN  IF c.cur[e] = "absent" THEN UNCHANGED ext /\ Throw(c)
                   ELSE Reuse(c, d, e, [c.own EXCEPT ![d].owners = @ \cup {c.p}])
          [] d \notin DOMAIN c.own /\ here # {} -> \E s \in here : Reuse(c, d, <<d, s>>, mine(s))
          [] OTHER -> IF Def[d].auth \in {"bearer-env", "manual"} THEN UNCHANGED ext /\ Throw(c)
                      ELSE Create(c, d, mine("hub"))
Ensure(c) ==
    /\ Item(c, "ensure")
    /\ IF c.need = {} THEN Done(c, c) /\ UNCHANGED <<ext, hist, up>>
       ELSE \E d \in c.need : EnsureMcpComponent(c, d)
    /\ UNCHANGED <<reg, store, pkg, rt, cache, kept, pol, ops>>

CommitSkills(c) ==
    /\ Item(c, "commit")
    /\ \/ store' = [store EXCEPT ![c.p] = c.ver] /\ Done(c, [c EXCEPT !.done = TRUE]) /\ UNCHANGED <<hist, up>>
       \/ UNCHANGED store /\ Throw(c)
    /\ UNCHANGED <<reg, ext, pkg, rt, cache, kept, pol, ops>>

\* registry.replace: the file, then the snapshot.  disable and remove call
\* it before their try block.
Replace(c) ==
    /\ Item(c, "replace")
    /\ \/ ValidateRegistry(Written(c)) /\ reg' = Written(c) /\ DoneWith(c, Written(c)) /\ UNCHANGED <<hist, up>>
       \/ UNCHANGED reg /\ IF c.job \in {"disable", "remove"} THEN Put(c, [c EXCEPT !.todo = <<>>]) /\ UNCHANGED <<hist, up>>
                           ELSE Throw(c)
    /\ UNCHANGED <<ext, store, pkg, rt, cache, kept, pol, ops>>

\* The catch blocks; what fails in one is swallowed.
Restore(c) ==
    /\ Item(c, "restore")
    /\ \/ reg' = c.before /\ DoneWith(c, c.before) /\ hist' = hist
       \/ UNCHANGED reg /\ Done(c, c) /\ hist' = hist \cup {"lost"}
    /\ UNCHANGED <<ext, store, pkg, rt, cache, kept, pol, up, ops>>

\* Extensions that are to go or to stop; each may fail to.
Stop(c, S, to) ==
    \E gone \in SUBSET {e \in S : ext[e] # "absent"} :
      /\ ext' = [e \in DOMAIN ext |-> IF e \in gone THEN to ELSE ext[e]]
      /\ hist' = IF \E e \in S \ gone : ext[e] \notin {"absent", to} THEN hist \cup {"lost"} ELSE hist
      /\ Done(c, c)
      /\ UNCHANGED <<reg, store, pkg, rt, cache, kept, pol, up, ops>>
Unmake(c) == Item(c, "unmake") /\ Stop(c, c.made, "absent")
SleepWoken(c) == Item(c, "sleepwoken") /\ Stop(c, {e \in c.woken : e[2] # "direct"}, "off")

\* enable: an extension of the plugin that does not run is started.
Wake(c) ==
    /\ Item(c, "wake")
    /\ IF c.need = {} THEN Done(c, c) /\ UNCHANGED <<ext, hist, up>>
       ELSE \E d \in c.need :
              LET e == ExtensionId(c.before, d)
              IN  \/ /\ ext[e] # "absent" /\ ext' = [ext EXCEPT ![e] = "on"]
                     /\ Put(c, [c EXCEPT !.need = @ \ {d}, !.woken = IF ext[e] = "off" THEN @ \cup {e} ELSE @])
                     /\ UNCHANGED <<hist, up>>
                  \/ ext[e] # "on" /\ UNCHANGED ext /\ Throw(c)
    /\ UNCHANGED <<reg, store, pkg, rt, cache, kept, pol, ops>>

\* disable, remove: what no enabled plugin owns any more stops.
Unowned(c) ==
    LET next == Written(c)
        mine == IF c.job = "disable" THEN ExtensionsOf(next, c.p) ELSE DOMAIN next.own
    IN  {ExtensionId(next, d) : d \in {x \in mine : ~IsDirectInstall(next, x) /\ ~HasEnabledOwner(next, x)}}
Sleep(c) == Item(c, "sleep") /\ Stop(c, Unowned(c), "off")
Unlink(c) == Item(c, "unlink") /\ Stop(c, Removable(c.before, c.p), "absent")

\* removeSkillDirectory: the plugin is removed, or its installation undone.
RemoveSkillDirectory(c) ==
    /\ Item(c, "unskill")
    /\ \/ store' = [store EXCEPT ![c.p] = None] /\ Done(c, c) /\ UNCHANGED <<hist, up>>
       \/ /\ UNCHANGED store
          /\ IF c.quiet THEN Done(c, c) /\ UNCHANGED <<hist, up>> ELSE Throw(c)
    /\ UNCHANGED <<reg, ext, pkg, rt, cache, kept, pol, ops>>

-----------------------------------------------------------------------------
(* materializeRuntime.                                                     *)

\* The signals a workspace is matched with: those of the prompt override.
SignalsFor(c, w) == IF c.op = "turn" /\ c.ws = w THEN c.sig ELSE Found[w]
EnabledSkills(s) == {p \in DOMAIN s.plugins : s.plugins[p].on /\ Package[p, s.plugins[p].ver].skill}
Materialized(c) ==
    [skills |-> {[key |-> p, ver |-> c.snap.plugins[p].ver, npm |-> FALSE,
                  ws |-> {w \in Workspaces : WorkspaceSkillIsActive(pol[w], p, SignalsFor(c, w))}] :
                   p \in EnabledSkills(c.snap)},
     harness |-> {p \in DOMAIN c.snap.plugins : c.snap.plugins[p].on /\ Package[p, c.snap.plugins[p].ver].harness # {}}]

\* The managed files of every enabled plugin; one that is missing or another
\* one ends it.
Read(c) ==
    /\ Item(c, "read")
    /\ IF \A p \in EnabledSkills(c.snap) : store[p] = c.snap.plugins[p].ver
         THEN Done(c, [c EXCEPT !.mat = Materialized(c), !.snap = None]) /\ UNCHANGED <<hist, up>>
         ELSE Throw(c)
    /\ UNCHANGED <<reg, ext, store, pkg, rt, cache, kept, pol, ops>>

\* materialize: the daemon, then syncPluginSkills, which sets aside the npm
\* skills it finds before it writes any content.
Post(c) ==
    /\ Item(c, "post")
    /\ \/ /\ rt' = c.mat /\ UNCHANGED <<hist, up>>
          /\ Done(c, [c EXCEPT !.npm = {k \in cache : k.npm}])
       \/ UNCHANGED rt /\ Throw(c)
    /\ UNCHANGED <<reg, ext, store, pkg, cache, kept, pol, ops>>

\* The rest of syncPluginSkills; the file may not be written.
SyncPluginSkills(c) == c.npm \cup c.mat.skills
Swap(c) ==
    /\ Item(c, "swap")
    /\ LET next == SyncPluginSkills(c)
           d == [c EXCEPT !.mat = None, !.npm = {}]
       IN  \/ cache' = next /\ kept' = next /\ Done(c, d) /\ hist' = hist
              /\ up' = IF c.op = "start" THEN "up" ELSE up
           \/ cache' = next /\ UNCHANGED kept /\ Throw(c)
           \/ UNCHANGED <<cache, kept>> /\ Throw(c)
    /\ UNCHANGED <<reg, ext, store, pkg, rt, pol, ops>>

-----------------------------------------------------------------------------
(* Policies, automatic installs, and a turn.                               *)

\* WorkspaceSkillPolicyStore.set: taken back if it cannot be written.
StorePolicy(c) ==
    /\ Item(c, "policy")
    /\ \/ pol' = [pol EXCEPT ![c.ws] = c.q] /\ Done(c, c) /\ UNCHANGED <<hist, up>>
       \/ UNCHANGED pol /\ Throw(c)
    /\ UNCHANGED <<reg, ext, store, pkg, rt, cache, kept, ops>>

\* prepareWorkspaceSkills reads the policy after the npm preflight.
Prepare(c) ==
    /\ Item(c, "prepare")
    /\ Put(c, [c EXCEPT !.q = pol[c.ws], !.todo = Automatic(pol[c.ws], c.sig) \o Tail(@)])
    /\ UNCHANGED <<reg, ext, store, pkg, rt, cache, kept, pol, up, hist, ops>>

\* autoInstallWorkspaceSkills: a package of the marketplace that is not
\* installed is staged, reviewed and, if it is nothing but skills, installed;
\* or there is none, or the marketplace is out of reach.  Bound: one
\* candidate per pass; the code goes on until two are installed.
AutoInstallWorkspaceSkills(c) ==
    /\ Item(c, "auto")
    /\ \/ \E p \in Index \ DOMAIN reg.plugins : \E v \in StageRemotePluginPackage(p) :
            /\ pkg' = [pkg EXCEPT ![p] = v]
            /\ IF InspectLocalPluginPackage(p, v) /\ IsSafeSkillsOnlyAutoInstall(p, v, c.sig)
                 THEN Put(c, [c EXCEPT !.p = p, !.auto = TRUE, !.todo = <<"inspect">>, !.rest = Tail(c.todo)])
                 ELSE Done(c, c)
            /\ hist' = hist \cup Restaged(p) /\ UNCHANGED up
       \/ (c.op = "turn" \/ Index \subseteq DOMAIN reg.plugins) /\ Done(c, c) /\ UNCHANGED <<pkg, hist, up>>
       \/ c.op # "turn" /\ Throw(c) /\ UNCHANGED pkg
    /\ UNCHANGED <<reg, ext, store, rt, cache, kept, pol, ops>>

\* The npm preflight: a search that fails ends the turn; a skill that was
\* found is installed in the home of the workspace, and upsertNpmSkills takes
\* the workspaces of an earlier import before it writes the content.
FindNpmSkills(c) ==
    /\ Item(c, "npm")
    /\ \/ Throw(c)
       \/ Done(c, c) /\ UNCHANGED <<hist, up>>
       \/ /\ \E n \in NpmSkills :
               LET old == UNION {k.ws : k \in {x \in cache : x.key = n}}
               IN  Put(c, [c EXCEPT !.new = {[key |-> n, ver |-> None, npm |-> TRUE, ws |-> old \cup {c.ws}]},
                                    !.todo = <<"upsert">> \o Tail(@)])
          /\ UNCHANGED <<hist, up>>
    /\ UNCHANGED <<reg, ext, store, pkg, rt, cache, kept, pol, ops>>
UpsertNpmSkills(c) ==
    /\ Item(c, "upsert")
    /\ LET next == {k \in cache : \A n \in c.new : n.key # k.key} \cup c.new
       IN  \/ cache' = next /\ kept' = next /\ Done(c, c) /\ UNCHANGED <<hist, up>>
           \/ cache' = next /\ UNCHANGED kept /\ Throw(c)
    /\ UNCHANGED <<reg, ext, store, pkg, rt, pol, ops>>

Select(c) ==
    /\ Item(c, "select")
    /\ \E K \in Selections(c.q, c.sig, c.said) : Done(c, [c EXCEPT !.keys = K \cup {n.key : n \in c.new}])
    /\ UNCHANGED <<reg, ext, store, pkg, rt, cache, kept, pol, up, hist, ops>>

\* CodexSkillCache.resolve for every key: it is there, and for this workspace.
Resolves(c) == \A k \in c.keys : \E s \in cache : s.key = k /\ c.ws \in s.ws
Activate(c) ==
    /\ Item(c, "activate")
    /\ \/ Resolves(c) /\ kept' = cache /\ Done(c, c) /\ UNCHANGED <<hist, up>>
       \/ UNCHANGED kept /\ Throw(c)
    /\ UNCHANGED <<reg, ext, store, pkg, rt, cache, pol, ops>>

-----------------------------------------------------------------------------
Init ==
    /\ \E i \in Inherited : reg = i.reg /\ ext = i.ext /\ store = i.store
    /\ pkg \in {[p \in Plugins |-> v] : v \in {x \in Versions : \A y \in Versions : x <= y}}
    /\ rt = [skills |-> {}, harness |-> {}]
    /\ cache = {} /\ kept = {} /\ up = "down" /\ calls = {} /\ hist = {} /\ ops = 0
    /\ pol = [w \in Workspaces |-> [automatic |-> TRUE, install |-> TRUE, include |-> {}, exclude |-> {}]]

Step(c) ==
    \/ ReconcileBundled(c) \/ Inspect(c) \/ ListExtensions(c) \/ Ensure(c) \/ CommitSkills(c) \/ Replace(c)
    \/ Restore(c) \/ Unmake(c) \/ SleepWoken(c) \/ Wake(c) \/ Sleep(c) \/ Unlink(c) \/ RemoveSkillDirectory(c)
    \/ Read(c) \/ Post(c) \/ Swap(c)
    \/ StorePolicy(c) \/ Prepare(c) \/ AutoInstallWorkspaceSkills(c)
    \/ FindNpmSkills(c) \/ UpsertNpmSkills(c) \/ Select(c) \/ Activate(c)

Next ==
    \/ \E p \in Plugins : InstallLocal(p) \/ Enable(p) \/ Disable(p) \/ Remove(p) \/ ReviewMarketplace(p)
    \/ \E w \in Workspaces, q \in Policies : SetSkillPolicy(w, q)
    \/ \E w \in Workspaces : ReconcileWorkspaceSkills(w)
    \/ \E w \in Workspaces, said \in Prompts : PrepareTurn(w, said)
    \/ RefreshWorkspaceScopes \/ Crash \/ Initialize
    \/ \E e \in DOMAIN ext : Operate(e)
    \/ \E c \in calls : Step(c)

Spec == Init /\ [][Next]_vars

-----------------------------------------------------------------------------
(* Properties.                                                             *)

\* The hub at rest: nothing in flight, no two calls ever overlapped, and no
\* roll-back failed.
AtRest == calls = {} /\ up = "up" /\ hist \cap {"raced", "lost", "unremoved", "unapplied"} = {}

\* At rest the daemon and the skill cache have exactly the skills of the
\* plugins that are installed and enabled, in the version that was installed,
\* and none of them for a workspace that excludes it, after any sequence of
\* installs, removals, policy changes and failures that were rolled back
\* (materializeRuntime and the catch blocks of PluginManager).
RuntimeFollowsRegistry ==
    AtRest =>
      LET cached == {s \in cache : ~s.npm}
      IN  /\ \A S \in {rt.skills, cached} :
               {<<s.key, s.ver>> : s \in S} = {<<p, reg.plugins[p].ver>> : p \in EnabledSkills(reg)}
          /\ \A s \in rt.skills \cup cached : \A w \in s.ws : s.key \notin pol[w].exclude

\* At rest every installed plugin owns the extensions of its package, an
\* extension the hub installed belongs to an installed plugin and is still
\* there while one owns it, unless the operator changed it himself
\* (ensureMcpComponent, remove and their roll-backs).
HubExtensionsOwned ==
    AtRest /\ "operated" \notin hist =>
      /\ \A p \in DOMAIN reg.plugins : ~reg.plugins[p].cat => ExtensionsOf(reg, p) = Components(p, reg.plugins[p].ver)
      /\ \A e \in DOMAIN ext : e[2] = "hub" => (ext[e] # "absent" <=> e[1] \in DOMAIN reg.own /\ ~reg.own[e[1]].direct)

\* An installation nobody asked for adds neither an MCP extension nor a
\* Harness extension, unless the package was staged again after its review
\* (isSafeSkillsOnlyAutoInstall).
AutoInstallIsSkillsOnly ==
    \A c \in calls : c.auto /\ c.job = "install" /\ "restaged" \notin hist =>
                       c.made = {} /\ Package[c.p, c.ver].harness = {}

\* The skills a turn selected can be activated in its workspace when nothing
\* else of the hub ran in between (selectPromptSkillKeys, resolve).
TurnCanActivate ==
    \A c \in calls : Item(c, "activate") /\ "raced" \notin hist => Resolves(c)

\* After operations that did not overlap, and whose roll-backs did not fail, the daemon
\* runs the skills and extensions the registry names, and every extension the hub made
\* has an owner there.
RegistryIsFollowed == RuntimeFollowsRegistry /\ HubExtensionsOwned

\* What a turn installs by itself is skills only, if the package is still the one that
\* was reviewed, and what it selected it can activate.
TurnsGetSafeSkills == AutoInstallIsSkillsOnly /\ TurnCanActivate
=============================================================================
