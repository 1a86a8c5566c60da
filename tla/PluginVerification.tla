------------------------- MODULE PluginVerification -------------------------
(***************************************************************************)
(* The domain challenge that lets ChatGPT trust the public MCP host, from  *)
(* the settings panel to the encrypted secret store:                       *)
(* PluginVerificationPanel, its IPC handlers, PluginVerificationManager    *)
(* and EncryptedSecretStore (desktop/src/renderer/components/              *)
(* PluginVerificationPanel.tsx, desktop/src/main/plugin-verification-*.ts, *)
(* secure-store.ts, daemon-bootstrap.ts).                                  *)
(*                                                                         *)
(* The managed daemon serves the token of the launch plan it was started   *)
(* with.  Every button of the panel is disabled only while its own         *)
(* operation is the one shown as busy, so operations overlap.  Copying the *)
(* setup fields, opening ChatGPT and exporting the icon change nothing     *)
(* here and are left out.                                                  *)
(***************************************************************************)
EXTENDS Naturals, Sequences, FiniteSets

CONSTANTS
    Calls,       \* IPC calls that may be open at the same time
    Tokens,      \* challenge tokens, and values of the other secrets
    MaxCalls,    \* bound: calls made
    MaxFaults    \* bound: failing steps

VARIABLES
    records,     \* secure-store.json: the value of every secret
    mutations,   \* EncryptedSecretStore.mutationQueue
    acked,       \* the value of every secret its last finished mutation gave it
    plan,        \* the token in DaemonManager's launch plan
    served,      \* the token the running daemon answers with
    external,    \* the daemon is not managed by the application
    verified,    \* challengeLastVerifiedAt is set
    checks,      \* lastChecks: "none", or whether all of them were ready
    calls,       \* calls[c]: an open call and where it is
    view, busy,  \* the panel's view of the challenge and its busy operation
    unsure,      \* operations overlapped, or one failed after it changed things
    made, faults

storeVars == <<records, mutations, acked>>
managerVars == <<plan, served, external, verified, checks>>
panelVars == <<view, busy>>
boundVars == <<unsure, made, faults>>
vars == <<storeVars, managerVars, calls, panelVars, boundVars>>

None == "none"
Keys == {"challenge", "other"}
Challenge == {"set", "remove"}

\* ahead: the mutations a read waits for; token: what the read has found.
NoCall == [op |-> None, at |-> None, value |-> None, token |-> None, ahead |-> 0]
NoView == [configured |-> FALSE, verified |-> FALSE, checks |-> None]

Init ==
    /\ \E t \in Tokens \cup {None} :
          /\ records = [k \in Keys |-> IF k = "challenge" THEN t ELSE None]
          /\ plan = t /\ served = t
    /\ acked = records
    /\ mutations = <<>>
    /\ external \in BOOLEAN
    /\ verified = FALSE /\ checks = None
    /\ calls = [c \in Calls |-> NoCall]
    /\ view = NoView /\ busy = None
    /\ unsure = FALSE /\ made = 0 /\ faults = 0

Fault == faults < MaxFaults /\ faults' = faults + 1
At(c, at) == calls' = [calls EXCEPT ![c].at = at]
Others(c) == {d \in Calls \ {c} : calls[d].op # None}

-----------------------------------------------------------------------------
(* EncryptedSecretStore: a mutation reads the file and then replaces it.   *)

Enqueue(c, key, value) ==
    mutations' = Append(mutations, [call |-> c, key |-> key, value |-> value,
                                    read |-> FALSE, found |-> records])

\* enqueueMutation: one after the other.
RunningAny(i) == i \in DOMAIN mutations
Running(i) == i = 1

MutationReads(i) ==
    /\ Running(i) /\ ~mutations[i].read
    /\ mutations' = [mutations EXCEPT ![i] = [@ EXCEPT !.read = TRUE, !.found = records]]
    /\ UNCHANGED <<records, acked, managerVars, calls, panelVars, boundVars>>

Without(s, i) == SubSeq(s, 1, i - 1) \o SubSeq(s, i + 1, Len(s))
\* A read that was asked for after the mutation waits for one fewer.
Settled(i) == [c \in Calls |->
    [calls[c] EXCEPT !.ahead = IF @ >= i THEN @ - 1 ELSE @]]

\* setChallenge and removeChallenge forget the verification of the old token.
Forgets(key) == key = "challenge"

MutationWrites(i) ==
    LET m == mutations[i]
    IN /\ Running(i) /\ m.read
       /\ records' = [m.found EXCEPT ![m.key] = m.value]
       /\ acked' = [acked EXCEPT ![m.key] = m.value]
       /\ mutations' = Without(mutations, i)
       /\ verified' = (verified /\ ~Forgets(m.key))
       /\ calls' = IF m.key = "challenge"
                   THEN [Settled(i) EXCEPT ![m.call] =
                            [@ EXCEPT !.at = "reload", !.ahead = Len(mutations) - 1]]
                   ELSE Settled(i)
       /\ UNCHANGED <<plan, served, external, checks, panelVars, boundVars>>

\* The other secrets: provider tokens, the tunnel token, the bearer.
SetOther(value) ==
    /\ made < MaxCalls
    /\ made' = made + 1
    /\ Enqueue(CHOOSE c \in Calls : TRUE, "other", value)
    /\ UNCHANGED <<records, acked, managerVars, calls, panelVars, unsure, faults>>

-----------------------------------------------------------------------------
(* The panel and the IPC handlers.                                         *)

\* The button of an operation is disabled while it is shown as busy, or when
\* there is nothing to verify or to remove.
Enabled(op) ==
    /\ busy # op
    /\ op \in {"verify-challenge", "remove"} => view.configured

\* An operation is begun: assertManagedDaemon first, for those that change.
Invoke(c, op, value) ==
    /\ made < MaxCalls /\ calls[c] = NoCall
    /\ Enabled(op)
    /\ made' = made + 1
    /\ busy' = op
    /\ unsure' = (unsure \/ Others(c) # {})
    /\ calls' = [calls EXCEPT ![c] =
          [op |-> op, at |-> IF op \in Challenge THEN IF external THEN "throw" ELSE "store"
                             ELSE IF op = "verify" THEN "probe" ELSE "read",
           value |-> value, token |-> None, ahead |-> Len(mutations)]]
    /\ IF op \in Challenge /\ ~external
       THEN Enqueue(c, "challenge", value)
       ELSE UNCHANGED mutations
    /\ UNCHANGED <<records, acked, managerVars, view, faults>>

SetChallenge(c) == \E t \in Tokens : Invoke(c, "set", t)
RemoveChallenge(c) == Invoke(c, "remove", None)
VerifyChallenge(c) == Invoke(c, "verify-challenge", None)
Verify(c) == Invoke(c, "verify", None)
Refresh(c) == Invoke(c, "state", None)

\* applyChallengeResult, and the whole view for state and verify.
Shown(c, shown) ==
    /\ calls' = [calls EXCEPT ![c] = NoCall]
    /\ view' = shown
    /\ busy' = None
Challenged(configured, isVerified) ==
    [view EXCEPT !.configured = configured, !.verified = isVerified]

\* The error is shown and the view stays as it was.
Throws(c) ==
    /\ calls[c].at = "throw"
    /\ calls' = [calls EXCEPT ![c] = NoCall]
    /\ busy' = None
    /\ UNCHANGED <<storeVars, managerVars, view, boundVars>>

-----------------------------------------------------------------------------
(* PluginVerificationManager.                                              *)

\* reloadManagedDaemon: the plan is made from the store, the daemon restarts.
ReloadPlans(c) ==
    /\ calls[c].at = "reload" /\ calls[c].ahead = 0
    /\ plan' = records["challenge"]
    /\ served' = None
    /\ At(c, "restart")
    /\ UNCHANGED <<storeVars, external, verified, checks, panelVars, boundVars>>

\* The daemon is up, with the plan it has now; a removal is finished.
DaemonRestarted(c) ==
    /\ calls[c].at = "restart"
    /\ served' = plan
    /\ IF calls[c].op = "set"
       THEN /\ calls' = [calls EXCEPT ![c] = [@ EXCEPT !.at = "read", !.ahead = Len(mutations)]]
            /\ UNCHANGED panelVars
       ELSE Shown(c, Challenged(FALSE, FALSE))
    /\ UNCHANGED <<storeVars, plan, external, verified, checks, boundVars>>

\* The challenge is stored, but the daemon could not be reloaded.
ReloadFails(c) ==
    /\ calls[c].at \in {"reload", "restart"}
    /\ Fault
    /\ unsure' = TRUE
    /\ At(c, "throw")
    /\ UNCHANGED <<storeVars, managerVars, panelVars, made>>

\* state, and the end of verify: the view is made once the store has answered.
StateRead(c) ==
    /\ calls[c].op \in {"state", "verify"} /\ calls[c].at = "read"
    /\ calls[c].ahead = 0
    /\ Shown(c, [configured |-> records["challenge"] # None,
                 verified |-> records["challenge"] # None /\ verified,
                 checks |-> checks])
    /\ UNCHANGED <<storeVars, managerVars, boundVars>>

\* verifyChallenge has its token, or there is none.
TokenRead(c) ==
    /\ calls[c].op \in {"set", "verify-challenge"} /\ calls[c].at = "read"
    /\ calls[c].ahead = 0
    /\ IF records["challenge"] = None
       THEN Shown(c, Challenged(FALSE, FALSE))
       ELSE /\ calls' = [calls EXCEPT ![c] = [@ EXCEPT !.at = "fetch",
                                                      !.token = records["challenge"]]]
            /\ UNCHANGED panelVars
    /\ UNCHANGED <<storeVars, managerVars, boundVars>>

\* There is no hostname to ask: nothing is verified, nothing forgotten.
NoHostname(c) ==
    /\ calls[c].at = "fetch"
    /\ Fault
    /\ unsure' = TRUE
    /\ Shown(c, Challenged(TRUE, FALSE))
    /\ UNCHANGED <<storeVars, managerVars, made>>

\* The answer of the public host, compared with the token that was read.
Fetched(c) ==
    /\ calls[c].at = "fetch"
    /\ verified' = (served = calls[c].token)
    /\ Shown(c, Challenged(TRUE, verified'))
    /\ unsure' = (unsure /\ (Others(c) # {} \/ calls[c].token # records["challenge"]))
    /\ UNCHANGED <<storeVars, plan, served, external, checks, made, faults>>

FetchFails(c) ==
    /\ calls[c].at = "fetch"
    /\ Fault
    /\ verified' = FALSE
    /\ Shown(c, Challenged(TRUE, FALSE))
    /\ UNCHANGED <<storeVars, plan, served, external, checks, unsure, made>>

\* verify: local daemon, public MCP and the endpoints have been asked.
Checked(c) ==
    /\ calls[c].op = "verify" /\ calls[c].at = "probe"
    /\ checks' \in {"ready", "attention"}
    /\ calls' = [calls EXCEPT ![c] = [@ EXCEPT !.at = "read", !.ahead = Len(mutations)]]
    /\ UNCHANGED <<storeVars, plan, served, external, verified, panelVars, boundVars>>

-----------------------------------------------------------------------------
Next ==
    \/ \E i \in DOMAIN mutations : MutationReads(i) \/ MutationWrites(i)
    \/ \E t \in Tokens : SetOther(t)
    \/ \E c \in Calls :
          \/ SetChallenge(c) \/ RemoveChallenge(c) \/ VerifyChallenge(c)
          \/ Verify(c) \/ Refresh(c) \/ Throws(c)
          \/ ReloadPlans(c) \/ DaemonRestarted(c) \/ ReloadFails(c)
          \/ StateRead(c) \/ TokenRead(c) \/ NoHostname(c) \/ Fetched(c)
          \/ FetchFails(c) \/ Checked(c)
Spec == Init /\ [][Next]_vars

-----------------------------------------------------------------------------
Open == {c \in Calls : calls[c].op # None}

\* No secret is lost to another one that is stored at the same time: every one
\* has in the file the value its last finished mutation gave it.
NoSecretLost == records = acked

\* A token that is called verified is the one that is stored and the one the
\* daemon serves, once what was asked has been answered; only operations that
\* overlapped, or one that failed half-way, leave doubt, and the next check of
\* the stored token that has the manager for itself removes it.
VerifiedIsStored ==
    Open = {} /\ ~unsure =>
       /\ verified => records["challenge"] # None /\ served = records["challenge"]
       /\ view.verified => verified
       /\ view.configured => records["challenge"] # None

\* The operator can rely on the panel for what is stored and what is verified
\* (plugin-verification-manager.ts, secure-store.ts).
ChallengeIsKept == NoSecretLost /\ VerifiedIsStored
=============================================================================
