---------------------------- MODULE McpExtensions ----------------------------
(***************************************************************************)
(* MCP extensions of the desktop application: McpExtensionManager,         *)
(* McpExtensionOAuthManager, the marketplace planners, the enterprise      *)
(* governance and the artifact evidence (desktop/src/main/mcp-*.ts).       *)
(*                                                                         *)
(* Every handler is a script: the sequence of the calls it awaits.  One    *)
(* step of the model is one awaited call, so handlers for different        *)
(* extensions, the token refresher and the start-up pass interleave        *)
(* exactly where the code yields.  A call to the daemon or to the secure   *)
(* store may fail, with or without having taken effect (a request that     *)
(* times out, an enable whose tool discovery fails).                       *)
(***************************************************************************)
EXTENDS Naturals, Sequences, FiniteSets

CONSTANTS
    Ext,         \* extension ids
    Ver,         \* registry versions, numbers
    Tools,       \* tools that every version exposes
    Policies,    \* the enterprise policies a process can be started with
    Entries,     \* what the registry can publish, see PlanBlockers
    MaxCalls,    \* bound: handlers, edits of a tool policy and restarts
    MaxFaults,   \* bound: failing calls
    Boot,        \* the actor of McpExtensionManager.initialize
    None

VARIABLES
    w,        \* the world the calls work on, see World
    policy,   \* loadMcpEnterpriseGovernance(): fixed while the process lives
    latest,   \* the version that the registry calls latest
    call,     \* the running handler of every extension, and of Boot
    auto,     \* auto[e]: autoRefresh of e, "idle" or "asked"
    loose,    \* extensions not governed since the start, or left half enabled
    leaky,    \* extensions for which a clean-up step failed and was swallowed
    calls, faults

vars == <<w, policy, latest, call, auto, loose, leaky, calls, faults>>

\* The power of a tool policy: off or blocked, ask, automatic.
Power == 0..2
Registration == [ver : Ver, auth : {"none", "bearer", "oauth"}, on : BOOLEAN,
                 pol : [Tools -> Power]]
Snapshot == [ver : Ver, auth : {"none", "bearer", "oauth"}, on : BOOLEAN,
             pol : [Tools -> Power]]
\* The secure store's keys of one extension; proof and oldProof name the
\* version that the stored verification evidence is about.
Vault == [cred : {"none", "live", "expired"}, refresh : BOOLEAN, config : BOOLEAN,
          env : BOOLEAN, backup : Snapshot \cup {None},
          proof : Ver \cup {None}, oldProof : Ver \cup {None}]
EmptyVault == [cred |-> "none", refresh |-> FALSE, config |-> FALSE, env |-> FALSE,
               backup |-> None, proof |-> None, oldProof |-> None]
NoMaterial == [cred |-> FALSE, env |-> FALSE]
World == [reg : [Ext -> Registration \cup {None}], vault : [Ext -> Vault],
          mat : [Ext -> [cred : BOOLEAN, env : BOOLEAN]],   \* daemon memory
          timers : SUBSET Ext,                  \* refreshTimers
          open : SUBSET Ext,                    \* loopback servers that listen
          pending : Ext \cup {None}]            \* pendingLoopback

Idle == [op |-> "idle", todo |-> <<>>, undo |-> <<>>, ver |-> None, auth |-> "none",
         env |-> FALSE, snap |-> None, proof |-> None, old |-> None, proofs |-> <<>>, seen |-> <<>>,
         undoing |-> FALSE]
Actors == Ext \cup {Boot}

Lower(a, b) == IF a < b THEN a ELSE b

-----------------------------------------------------------------------------
(* Enterprise governance.                                                  *)

\* evaluateMcpEnterpriseExtension: revoked, pinned, outside the range, blocked.
Evaluate(p, v) ==
    \/ ~p.managed
    \/ ~p.revoked /\ p.pin \in {None, v} /\ v \in p.versions /\ v \notin p.blocked

\* effectiveMcpEnterpriseToolPolicy: a revoked tool is off, a template only
\* makes the requested policy stricter.
\* Mutation: the request wins over a template that only asks for approval.
EffectiveRaw(p, t, requested) ==
    IF ~p.managed \/ p.cap[t] > 0 THEN requested ELSE 0
Effective(p, t, requested) ==
    IF ~p.managed THEN requested ELSE Lower(requested, p.cap[t])

Governed(p, pol) == [t \in Tools |-> Effective(p, t, pol[t])]

-----------------------------------------------------------------------------
(* Marketplace planning.  An entry of the registry is described by what    *)
(* the planner looks at: the kind of package, declared arguments, the      *)
(* signature declaration and what fetching the artifact yields, and for a  *)
(* remote endpoint what its OAuth metadata offers.                         *)

\* verifyMcpMarketplaceArtifact: the status of the evidence.
Verify(en) ==
    IF en.kind # "npm"
      THEN IF en.signatureRequired THEN "failed" ELSE "unsupported"
    ELSE IF en.digest # "match" THEN "failed"
    ELSE IF en.signature \in {"none", "untrusted"}
      THEN IF en.signatureRequired THEN "failed" ELSE "verified"
    ELSE IF en.signature = "valid" THEN "verified" ELSE "failed"

\* discoverMcpAuthorization: whether the endpoint asks for authorization is
\* not looked at; without complete metadata the answer is "manual".
DiscoverAuthorization(en) ==
    IF en.metadata = "complete" THEN "oauth" ELSE "manual"

\* packageBlockers, remoteBlockers, artifactVerificationBlockers.
PlanBlockers(en) ==
    CASE en.kind \in {"npm", "pypi"} ->
           (IF en.arguments THEN {"arguments"} ELSE {})
             \cup (IF ~en.arguments /\ Verify(en) = "failed" THEN {"artifact"} ELSE {})
      [] en.kind = "remote" ->
           (IF en.arguments THEN {"headers"} ELSE {})
             \cup (IF DiscoverAuthorization(en) = "manual" THEN {"auth"} ELSE {})
      [] OTHER -> {"manual"}

\* planGovernedMcpMarketplaceInstall: the plan can be carried out.
Installable(en, v) == PlanBlockers(en) = {} /\ Evaluate(policy, v)
PlanAuth(en) == IF en.kind = "remote" THEN "oauth" ELSE "none"

-----------------------------------------------------------------------------
(* Scripts.  A soft step's failure is swallowed (.catch(() => undefined)); *)
(* Try(u) opens a try block whose catch or finally runs u.                 *)

S(name) == [do |-> name, soft |-> FALSE, undo |-> <<>>]
Soft(name) == [do |-> name, soft |-> TRUE, undo |-> <<>>]
Try(u) == [do |-> "try", soft |-> FALSE, undo |-> u]
Steps(names) == [i \in 1..Len(names) |-> S(names[i])]
SoftSteps(names) == [i \in 1..Len(names) |-> Soft(names[i])]

\* requireView and list: read the health of all, correct what policy forbids.
View == Steps(<<"health", "govern">>)

\* install: register, then the secrets; the catch removes all of it again.
InstallUndo(auth) ==
    SoftSteps(<<"remove", "clearEnv",
                IF auth = "oauth" THEN "oauthRemove" ELSE "deleteCred">>)
Install(auth, outer) ==
    Steps(<<"assert", "register">>) \o <<Try(InstallUndo(auth) \o outer)>>
      \o Steps(<<"saveEnv", "saveSecret", "env">>) \o <<Try(outer)>> \o View

Enable(outer) ==
    View \o Steps(<<"assertCurrent", "env", "material", "enable">>)
      \o <<Try(SoftSteps(<<"disable">>) \o outer), S("tools"), Try(outer)>> \o View

Remove(outer) ==
    View \o SoftSteps(<<"dropSecrets", "clearEnv", "dropBackup">>)
      \o <<S("remove")>> \o outer

\* connect: one loopback callback at a time, closed again in the finally.
Connect(outer) ==
    View \o Steps(<<"assertCurrent", "loopbackFree", "listen">>)
      \o <<Try(Steps(<<"closeLoopback">>) \o outer)>> \o Steps(<<"browser", "token">>)
      \o <<Try(outer)>> \o Steps(<<"closeLoopback">>)

\* activateInstalledDefaults: enable, then permit every tool automatically.
Activate(outer) ==
    View \o Enable(outer) \o View \o <<S("permitAll")>> \o View

\* The steps that register c.ver in place of what is there.
SwapTail == Steps(<<"register", "swapConfig", "env", "material", "enable",
                    "restorePolicies", "enabledAsBefore">>)
RestoreSnapshot == <<S("toSnapshot")>> \o SoftSteps(<<"disable", "remove">>) \o SwapTail
SwapRegistration == <<S("assert"), Soft("disableIfOn"), S("remove")>> \o SwapTail

\* rollbackMarketplace: the registration and the stored snapshot change places.
Rollback ==
    Steps(<<"readBackup">>) \o View \o Steps(<<"tools", "snapshotOld">>)
      \o RestoreSnapshot \o Steps(<<"backupOld">>)
\* The catch blocks around the evidence: roll back, write the evidence back.
EvidenceUndo == <<Try(SoftSteps(<<"undoProofs">>))>> \o Rollback \o SoftSteps(<<"undoProofs">>)

\* updateMarketplaceWithArtifactEvidence around updateMarketplace.
Update ==
    View \o Steps(<<"planEvidence", "readProofs">>) \o View \o Steps(<<"plan">>)
      \o View \o Steps(<<"tools", "snapshot", "assert", "preflight", "backup">>)
      \o <<Try(RestoreSnapshot \o Steps(<<"answer">>))>> \o SwapRegistration
      \o <<Try(EvidenceUndo)>> \o Steps(<<"writeOldProof", "writeProof">>)
      \o <<Try(<<>>)>> \o Steps(<<"answer">>)
RollbackWithEvidence ==
    Steps(<<"readProofs">>) \o Rollback
      \o <<Try(EvidenceUndo)>> \o Steps(<<"swapProof", "swapOldProof">>)
      \o <<Try(<<>>)>> \o Steps(<<"answer">>)

\* The handlers of mcp-extension-ipc.ts.
Script(op, auth) ==
    CASE op = "install" ->
           Install(auth, <<>>) \o <<Try(Remove(<<>>))>>
             \o (IF auth = "oauth" THEN Connect(Remove(<<>>)) ELSE <<>>)
             \o Activate(Remove(<<>>))
      [] op = "marketplace" -> View \o Steps(<<"planEvidence", "plan">>)
      [] op = "update" -> Update
      [] op = "rollback" -> RollbackWithEvidence
      [] op = "enable" -> Enable(<<>>)
      [] op = "disable" -> Steps(<<"disable">>) \o View
      [] op = "restart" ->
           View \o Steps(<<"assertCurrent", "env", "material", "restart", "tools">>)
      [] op = "remove" -> Remove(SoftSteps(<<"clearProofs">>))
      [] op = "setCredential" ->
           View \o <<S("storeCred"), Try(SoftSteps(<<"deleteCred">>)), S("matCred")>>
      [] op = "clearCredential" -> View \o Steps(<<"unmatCred", "deleteCred">>)
      [] op = "connect" -> Connect(<<>>)
      [] op = "refresh" -> View \o Steps(<<"refreshToken">>)
      [] op = "revoke" ->
           View \o Steps(<<"disableIfOn", "cancelRefresh", "revokeToken">>)
             \o SoftSteps(<<"dropTokens">>)
      [] op = "boot" -> View \o Steps(<<"restoreAll">>)
Ops == {"install", "marketplace", "update", "rollback", "enable", "disable",
        "restart", "remove", "setCredential", "clearCredential", "connect",
        "refresh", "revoke"}

\* The rest of the marketplace install once the plan is known.  Its catch
\* removes the extension only when this call has created it.
MarketplaceInstall(auth, isNew) ==
    LET cleanup == IF isNew THEN <<Try(SoftSteps(<<"clearProofs">>))>>
                                   \o Remove(SoftSteps(<<"clearProofs">>)) ELSE <<>>
    IN <<Try(cleanup)>> \o Install(auth, cleanup)
         \o (IF auth = "oauth" THEN Connect(cleanup) ELSE <<>>)
         \o Activate(cleanup) \o Steps(<<"writeProof">>)

-----------------------------------------------------------------------------
(* What a step needs, and what it does to the world and to its call.       *)

SnapshotOf(e) == w.reg[e]
Registered(e) == w.reg[e] # None

Pre(s, e, c) ==
    CASE s = "assert" -> Evaluate(policy, c.ver)
      [] s = "assertCurrent" -> Registered(e) /\ Evaluate(policy, w.reg[e].ver)
      [] s = "register" -> ~Registered(e)
      [] s = "material" ->   \* restoreRuntimeMaterial, McpExtensionOAuthManager.restore
           /\ Registered(e)
           /\ w.reg[e].auth # "none" => w.vault[e].cred # "none"
           /\ w.reg[e].auth = "oauth" /\ w.vault[e].cred = "expired" => w.vault[e].refresh
      [] s \in {"enable", "disable", "remove", "tools", "permitAll", "matCred",
                "unmatCred", "restorePolicies", "enabledAsBefore"} -> Registered(e)
      [] s = "restart" -> Registered(e) /\ w.reg[e].on
      [] s \in {"snapshot", "snapshotOld"} ->
           Registered(e) /\ (w.reg[e].auth = "oauth" => w.vault[e].config)
      [] s = "readBackup" ->
           w.vault[e].backup # None /\ Evaluate(policy, w.vault[e].backup.ver)
      [] s = "toSnapshot" -> Evaluate(policy, c.snap.ver)
      [] s = "storeCred" -> Registered(e) /\ w.reg[e].auth = "bearer"
      [] s = "loopbackFree" ->
           Registered(e) /\ w.reg[e].auth = "oauth" /\ w.pending = None
      [] s = "listen" -> w.vault[e].config
      [] s = "token" -> Registered(e)
      [] s = "refreshToken" -> Registered(e) /\ w.vault[e].config /\ w.vault[e].refresh
      [] s = "revokeToken" -> w.vault[e].config
      [] s = "govern" -> policy.managed =>
           \A x \in Ext : c.seen[x] # None => (c.seen[x].on => Registered(x))
      [] OTHER -> TRUE

\* persistTokens and materializeCredential.
Connected(v, e) ==
    [v EXCEPT !.vault[e].cred = "live", !.vault[e].refresh = TRUE,
              !.timers = @ \cup {e}, !.mat[e].cred = Registered(e)]
\* revoke and remove of McpExtensionOAuthManager, after cancelRefresh.
DropTokens(v, e) ==
    [v EXCEPT !.vault[e].cred = "none", !.vault[e].refresh = FALSE,
              !.mat[e].cred = FALSE]

\* enforceEnterpriseGovernance on the extensions that were seen enabled.
Enforce(seen) ==
    IF ~policy.managed THEN w
    ELSE [w EXCEPT !.reg = [x \in Ext |->
            IF seen[x] = None \/ w.reg[x] = None THEN w.reg[x]
            ELSE IF ~seen[x].on THEN w.reg[x]
            ELSE IF Evaluate(policy, seen[x].ver)
              THEN [w.reg[x] EXCEPT !.pol = Governed(policy, @)]
              ELSE [w.reg[x] EXCEPT !.on = FALSE]],
          !.mat = [x \in Ext |->
            IF seen[x] = None THEN w.mat[x]
            ELSE IF seen[x].on /\ ~Evaluate(policy, seen[x].ver) THEN NoMaterial
            ELSE w.mat[x]]]

\* restoreRuntimeMaterial: an expired OAuth token is refreshed first.
RestoreMaterial(v, e) ==
    IF v.reg[e].auth = "none" THEN v
    ELSE IF v.vault[e].cred = "expired" THEN Connected(v, e)
    ELSE [v EXCEPT !.mat[e].cred = TRUE,
                   !.timers = IF v.reg[e].auth = "oauth" /\ v.vault[e].refresh
                                THEN @ \cup {e} ELSE @]

\* restorePolicies: the old policies, made as strict as the policy demands.
RestorePolicies(e, snap) == [w EXCEPT !.reg[e].pol = Governed(policy, snap.pol)]
\* The last step of a swap: a disabled extension is disabled again.
EnabledAsBefore(e, snap) ==
    IF snap.on THEN w ELSE [w EXCEPT !.reg[e].on = FALSE, !.mat[e] = NoMaterial]

\* Mutation: the stored recipe is kept.
ClearEnvironmentDaemonOnly(e) == [w EXCEPT !.mat[e].env = FALSE]
\* clearEnvironment: the daemon's copy and the stored recipe.
ClearEnvironment(e) == [w EXCEPT !.vault[e].env = FALSE, !.mat[e].env = FALSE]
\* The finally of connect.
CloseLoopback(e) ==
    [w EXCEPT !.open = @ \ {e}, !.pending = IF @ = e THEN None ELSE @]

Do(s, e, c) ==
    CASE s = "register" ->
           [w EXCEPT !.reg[e] = [ver |-> c.ver, auth |-> c.auth, on |-> FALSE,
                                 pol |-> [t \in Tools |-> 0]]]
      [] s = "saveEnv" ->
           IF c.env THEN [w EXCEPT !.vault[e].env = TRUE, !.mat[e].env = TRUE] ELSE w
      [] s = "saveSecret" ->
           CASE c.auth = "oauth" -> [w EXCEPT !.vault[e].config = TRUE]
             [] c.auth = "bearer" -> [w EXCEPT !.vault[e].cred = "live", !.mat[e].cred = TRUE]
             [] OTHER -> w
      [] s = "swapConfig" ->
           IF c.auth = "oauth" THEN [w EXCEPT !.vault[e].config = TRUE] ELSE w
      [] s = "env" -> [w EXCEPT !.mat[e].env = @ \/ (Registered(e) /\ w.vault[e].env)]
      [] s = "material" -> RestoreMaterial(w, e)
      [] s = "enable" -> [w EXCEPT !.reg[e].on = TRUE]
      [] s \in {"disable", "disableIfOn"} ->
           IF Registered(e) THEN [w EXCEPT !.reg[e].on = FALSE, !.mat[e] = NoMaterial] ELSE w
      [] s = "remove" -> [w EXCEPT !.reg[e] = None, !.mat[e] = NoMaterial]
      [] s = "tools" -> [w EXCEPT !.reg[e].pol = Governed(policy, @)]
      [] s = "permitAll" ->
           [w EXCEPT !.reg[e].pol = [t \in Tools |-> Effective(policy, t, 2)]]
      [] s = "restorePolicies" -> RestorePolicies(e, c.snap)
      [] s = "enabledAsBefore" -> EnabledAsBefore(e, c.snap)
      [] s = "govern" -> Enforce(c.seen)
      [] s = "clearEnv" -> ClearEnvironment(e)
      [] s \in {"oauthRemove", "dropSecrets"} ->
           [DropTokens(w, e) EXCEPT !.vault[e].config = FALSE, !.timers = @ \ {e}]
      [] s = "dropTokens" -> DropTokens(w, e)
      [] s = "cancelRefresh" -> [w EXCEPT !.timers = @ \ {e}]
      [] s = "deleteCred" -> [w EXCEPT !.vault[e].cred = "none"]
      [] s = "storeCred" -> [w EXCEPT !.vault[e].cred = "live"]
      [] s = "matCred" -> [w EXCEPT !.mat[e].cred = TRUE]
      [] s = "unmatCred" -> [w EXCEPT !.mat[e].cred = FALSE]
      [] s = "backup" -> [w EXCEPT !.vault[e].backup = c.snap]
      [] s = "backupOld" -> [w EXCEPT !.vault[e].backup = c.old]
      [] s = "dropBackup" -> [w EXCEPT !.vault[e].backup = None]
      [] s = "listen" -> [w EXCEPT !.open = @ \cup {e}, !.pending = e]
      [] s = "closeLoopback" -> CloseLoopback(e)
      [] s \in {"token", "refreshToken"} -> Connected(w, e)
      [] s \in {"writeProof"} -> [w EXCEPT !.vault[e].proof = c.proof]
      [] s = "writeOldProof" -> [w EXCEPT !.vault[e].oldProof = c.proofs[1]]
      [] s = "swapProof" -> [w EXCEPT !.vault[e].proof = c.proofs[2]]
      [] s = "swapOldProof" -> [w EXCEPT !.vault[e].oldProof = c.proofs[1]]
      [] s = "undoProofs" -> [w EXCEPT !.vault[e].proof = c.proofs[1],
           !.vault[e].oldProof = IF c.op = "update" THEN c.proof ELSE c.proofs[2]]
      [] s = "clearProofs" -> [w EXCEPT !.vault[e].proof = None, !.vault[e].oldProof = None]
      [] s = "restoreAll" ->   \* initialize: what fails for one is only logged
           [w EXCEPT !.mat = [x \in Ext |->
              IF ~Registered(x) THEN w.mat[x]
              ELSE IF ~w.reg[x].on THEN w.mat[x]
              ELSE [env |-> w.vault[x].env,
                    cred |-> w.reg[x].auth # "none" /\ w.vault[x].cred = "live"]],
              !.timers = @ \cup {x \in Ext : Registered(x) /\ w.vault[x].refresh
                                    /\ w.vault[x].cred = "live"}]
      [] OTHER -> w

Remember(s, e, c) ==
    CASE s = "health" -> [c EXCEPT !.seen = w.reg]
      [] s = "govern" -> [c EXCEPT !.seen = <<>>]
      [] s = "snapshot" -> [c EXCEPT !.snap = SnapshotOf(e)]
      [] s = "snapshotOld" -> [c EXCEPT !.old = SnapshotOf(e)]
      [] s = "readBackup" -> [c EXCEPT !.snap = w.vault[e].backup]
      [] s = "toSnapshot" -> [c EXCEPT !.ver = c.snap.ver, !.auth = c.snap.auth]
      [] s = "readProofs" -> [c EXCEPT !.proofs = <<w.vault[e].proof, w.vault[e].oldProof>>]
      [] s = "planEvidence" -> [c EXCEPT !.proof = latest]
      [] OTHER -> c

-----------------------------------------------------------------------------
\* What an earlier process left: nothing, or an extension that was installed
\* from the marketplace in some version and permitted, enabled or not.
Installed(v, auth, on) ==
    [reg |-> [ver |-> v, auth |-> auth, on |-> on, pol |-> [t \in Tools |-> 2]],
     vault |-> [EmptyVault EXCEPT !.proof = IF auth = "bearer" THEN None ELSE v,
                  !.config = (auth = "oauth"), !.refresh = (auth = "oauth"),
                  !.cred = IF auth = "none" THEN "none"
                           ELSE IF auth = "oauth" /\ ~on THEN "expired" ELSE "live"]]
Before == {[reg |-> None, vault |-> EmptyVault]}
    \cup {Installed(v, auth, on) : v \in Ver, auth \in {"none", "bearer", "oauth"},
                                  on \in BOOLEAN}
Init ==
    /\ \E b \in [Ext -> Before] :
         w = [reg |-> [e \in Ext |-> b[e].reg], vault |-> [e \in Ext |-> b[e].vault],
              mat |-> [e \in Ext |-> NoMaterial], timers |-> {}, open |-> {},
              pending |-> None]
    /\ policy \in Policies
    /\ latest \in Ver
    /\ call = [a \in Actors |-> IF a = Boot THEN [Idle EXCEPT !.op = "boot",
                                                    !.todo = Script("boot", "none")]
                                ELSE Idle]
    /\ auto = [e \in Ext |-> "idle"]
    /\ loose = Ext
    /\ leaky = {}
    /\ calls = 0 /\ faults = 0

Busy(a) == call[a].op # "idle"

\* An IPC handler starts; the interface runs one per extension at a time.
Start(e, op, auth, env) ==
    /\ ~Busy(e) /\ calls < MaxCalls
    /\ auth # "none" \/ env => op = "install"
    /\ env => auth = "none"   \* only a stdio server takes an environment
    /\ call' = [call EXCEPT ![e] = [Idle EXCEPT !.op = op, !.auth = auth, !.env = env,
                  !.ver = IF op = "install" THEN latest ELSE None,
                  !.todo = Script(op, auth)]]
    /\ calls' = calls + 1
    /\ UNCHANGED <<w, policy, latest, auto, loose, leaky, faults>>

Next1(a) == Head(call[a].todo)
\* A try block is entered on the way to the next step; the last step ends the call.
Arrive(c) ==
    IF c.todo = <<>> THEN Idle
    ELSE IF Head(c.todo).do # "try" THEN c
    ELSE IF Len(c.todo) = 1 THEN Idle
    ELSE [c EXCEPT !.todo = Tail(@), !.undo = Head(c.todo).undo]
\* The step has succeeded: on to the next one.
Onward(c) == Arrive([c EXCEPT !.todo = Tail(@)])
\* The step threw: the catch or finally runs, outside of any other try.
Thrown(c) == Arrive([c EXCEPT !.todo = c.undo, !.undo = <<>>, !.undoing = TRUE,
                             !.seen = <<>>])

\* A refresh that is under way will store its tokens whatever happens now.
Leaks(a, s) ==
    IF a \in Ext
      THEN s.do \in {"dropSecrets", "dropTokens", "oauthRemove"} /\ auto[a] # "idle"
      ELSE FALSE

\* The awaited call of actor a's next step answers.
Step(a) ==
    LET c == call[a]
        s == Next1(a)
    IN /\ Busy(a) /\ s.do # "plan"
       /\ IF Pre(s.do, a, c)
            THEN /\ w' = Do(s.do, a, c)
                 /\ call' = [call EXCEPT ![a] = Onward(Remember(s.do, a, c))]
                 /\ leaky' = IF Leaks(a, s) THEN leaky \cup {a} ELSE leaky
                 /\ loose' = IF s.do = "govern"
                      THEN {x \in loose : /\ c.seen[x] # None => ~c.seen[x].on
                                          /\ Registered(x) => w.reg[x].on
                                          /\ Registered(x)}
                      ELSE loose
            ELSE /\ call' = [call EXCEPT ![a] = IF s.soft THEN Onward(c) ELSE Thrown(c)]
                 /\ UNCHANGED <<w, leaky, loose>>
       /\ UNCHANGED <<policy, latest, auto, calls, faults>>

\* The call fails, and may have taken effect all the same.
StepFails(a) ==
    LET c == call[a]
        s == Next1(a)
    IN /\ Busy(a) /\ faults < MaxFaults
       /\ s.do \notin {"answer", "assert", "assertCurrent", "toSnapshot",
                       "loopbackFree", "closeLoopback", "cancelRefresh"}
       /\ \E applied \in BOOLEAN :
            /\ applied => s.do \notin {"plan", "listen"} /\ Pre(s.do, a, c)
            /\ w' = IF applied THEN Do(s.do, a, c) ELSE w
       /\ call' = [call EXCEPT ![a] = IF s.soft THEN Onward(c) ELSE Thrown(c)]
       /\ faults' = faults + 1
       /\ leaky' = IF s.soft \/ c.undoing \/ c.op \in {"remove", "update", "rollback"}
                     THEN leaky \cup ({a} \cap Ext) ELSE leaky
       /\ loose' = IF s.do \in {"enable", "tools"} THEN loose \cup {a} ELSE loose
       /\ UNCHANGED <<policy, latest, auto, calls>>

\* The manager plans on its own, after the handler did for the evidence.
Plan(e) ==
    LET c == call[e]
    IN /\ Busy(e) /\ Next1(e).do = "plan"
       /\ \E plan \in {[ok |-> Installable(en, latest), auth |-> PlanAuth(en)] :
                         en \in Entries} :
            call' = [call EXCEPT ![e] =
              IF ~plan.ok THEN Thrown(c)
              ELSE IF c.op = "update" /\ ~Registered(e) THEN Thrown(c)
              ELSE IF c.op = "update" /\ w.reg[e].ver = latest THEN Idle
              ELSE Arrive([c EXCEPT !.ver = latest, !.auth = plan.auth,
                      !.todo = IF c.op = "update" THEN Tail(@)
                               ELSE MarketplaceInstall(plan.auth, ~Registered(e))])]
       /\ UNCHANGED <<w, policy, latest, auto, loose, leaky, calls, faults>>

\* updateToolPolicy: what the user asks for, within the policy.
UpdateToolPolicy(e, t, requested) ==
    /\ ~Busy(e) /\ Registered(e) /\ calls < MaxCalls
    /\ w.reg[e].pol[t] # requested
    /\ w' = [w EXCEPT !.reg[e].pol[t] = Effective(policy, t, requested)]
    /\ calls' = calls + 1
    /\ UNCHANGED <<policy, latest, call, auto, loose, leaky, faults>>

\* autoRefresh: the timer fires and the token endpoint is asked ...
AutoRefresh(e) ==
    /\ e \in w.timers /\ auto[e] = "idle"
    /\ w' = [w EXCEPT !.timers = @ \ {e}]
    /\ auto' = [auto EXCEPT ![e] =
         IF w.vault[e].config /\ w.vault[e].refresh THEN "asked" ELSE "idle"]
    /\ UNCHANGED <<policy, latest, call, loose, leaky, calls, faults>>

\* ... and answers: the tokens are stored and handed to the daemon; on any
\* failure the timer is set again.
AutoRefreshed(e) ==
    /\ auto[e] = "asked"
    /\ auto' = [auto EXCEPT ![e] = "idle"]
    /\ w' = Connected(w, e)
    /\ UNCHANGED <<policy, latest, call, loose, leaky, calls, faults>>
AutoRefreshFails(e) ==
    /\ auto[e] = "asked" /\ faults < MaxFaults
    /\ auto' = [auto EXCEPT ![e] = "idle"]
    /\ w' = [w EXCEPT !.timers = @ \cup {e}]
    /\ faults' = faults + 1
    /\ UNCHANGED <<policy, latest, call, loose, leaky, calls>>

\* The registry publishes another version.
Publish(v) ==
    /\ v > latest /\ \E e \in Ext : call[e].op \in {"marketplace", "update"}
    /\ latest' = v
    /\ UNCHANGED <<w, policy, call, auto, loose, leaky, calls, faults>>

\* The application is restarted, possibly under another enterprise policy.
AppRestart(p) ==
    /\ calls < MaxCalls
    /\ calls' = calls + 1
    /\ policy' = p
    /\ w' = [w EXCEPT !.timers = {}, !.open = {}, !.pending = None,
                      !.mat = [e \in Ext |-> NoMaterial]]
    /\ call' = [a \in Actors |-> IF a = Boot THEN [Idle EXCEPT !.op = "boot",
                                                     !.todo = Script("boot", "none")]
                                 ELSE Idle]
    /\ auto' = [e \in Ext |-> "idle"]
    /\ loose' = Ext
    /\ leaky' = leaky \cup {e \in Ext : Busy(e)}
    /\ UNCHANGED <<latest, faults>>

Next ==
    \/ \E e \in Ext, op \in Ops, auth \in {"none", "bearer", "oauth"}, env \in BOOLEAN :
         Start(e, op, auth, env)
    \/ \E a \in Actors : Step(a) \/ StepFails(a)
    \/ \E e \in Ext : Plan(e) \/ AutoRefresh(e) \/ AutoRefreshed(e)
                        \/ AutoRefreshFails(e)
    \/ \E e \in Ext, t \in Tools, r \in Power : UpdateToolPolicy(e, t, r)
    \/ \E v \in Ver : Publish(v)
    \/ \E p \in Policies : AppRestart(p)

Spec == Init /\ [][Next]_vars

-----------------------------------------------------------------------------
(* Properties.                                                             *)

\* Registry, secure store, daemon memory and running handlers keep their shape.
TypeOK ==
    /\ w \in World
    /\ policy \in Policies
    /\ latest \in Ver
    /\ DOMAIN call = Actors
    /\ \A a \in Actors : call[a].op = "idle" <=> call[a].todo = <<>>
    /\ auto \in [Ext -> {"idle", "asked"}]
    /\ loose \subseteq Ext /\ leaky \subseteq Ext

\* Once a listing has enforced the policy of this process, every extension that
\* is enabled while no handler works on it has an allowed version, and no tool
\* of it is permitted more than the policy allows: install, update, rollback,
\* activation and user edits included (mcp-extension-manager.ts:471-543).
GovernedWhileEnabled ==
    \A e \in Ext \ loose :
      Registered(e) /\ ~Busy(e) =>
        (w.reg[e].on => /\ Evaluate(policy, w.reg[e].ver)
                        /\ policy.managed =>
                             \A t \in Tools : w.reg[e].pol[t] <= policy.cap[t])

\* An update or a rollback that answers has left the extension registered, in
\* the new or the previous version, enabled exactly when it was, and every tool
\* as permitted as before (swapRegistration, restoreSnapshot).
SwapOrRestore ==
    \A e \in Ext :
      Busy(e) /\ call[e].op \in {"update", "rollback"} =>
        (call[e].todo = Steps(<<"answer">>) =>
          /\ Registered(e)
          /\ w.reg[e].ver = call[e].ver
          /\ w.reg[e].on = call[e].snap.on
          /\ w.reg[e].pol = Governed(policy, call[e].snap.pol))

\* When no handler works on it and none of its clean-up or compensation steps failed
\* or was refused (the code swallows that error and goes on), an extension that is
\* not registered has no secret, no backup, no evidence and no refresh timer: a failed
\* install and a removal leave nothing (mcp-extension-manager.ts:153).
NothingLeftBehind ==
    \A e \in Ext \ leaky :
      ~Registered(e) /\ ~Busy(e) =>
        w.vault[e] = EmptyVault /\ w.mat[e] = NoMaterial /\ e \notin w.timers

\* A pending loopback callback belongs to an authorization that is running, so
\* connect can never be locked out for good (mcp-extension-oauth.ts:133, 183).
LoopbackOwned ==
    /\ w.pending # None => w.pending \in w.open
    /\ \A e \in w.open : Busy(e)

\* A plan without blockers has a matching digest for an npm package and a
\* verified signature whenever one is required (docs/mcp-artifact-verification.md:47).
FailsClosed ==
    \A en \in Entries : PlanBlockers(en) = {} =>
      /\ en.kind = "npm" => en.digest = "match" /\ en.signature # "invalid"
      /\ en.signatureRequired /\ en.kind \in {"npm", "pypi"} => en.signature = "valid"

\* Only what the governance policy admits is enabled, and only what was verified is
\* admitted.
OnlyGovernedRuns == TypeOK /\ GovernedWhileEnabled /\ FailsClosed

\* An operation that fails leaves no half-swapped extension, no secrets unless one of
\* its clean-up steps failed or was refused too, and no listener without its login.
NothingHalfDone == SwapOrRestore /\ NothingLeftBehind /\ LoopbackOwned
=============================================================================
