-------------------------------- MODULE PublicMcp --------------------------------
(***************************************************************************)
(* The public MCP route of an installation: the manager in the Desktop      *)
(* (public-mcp-manager.ts) with the tunnel process it supervises            *)
(* (cloudflared-manager.ts), the secrets and the files it keeps, and the    *)
(* bootstrap broker of the control plane (desktop_broker.rs) that it asks   *)
(* through bootstrap-broker-client.ts.                                      *)
(*                                                                         *)
(* An operation is the sequence of the steps it still has to take; the      *)
(* steps end at its awaits, so operations of the user and of the Desktop    *)
(* itself (a workspace change, the plugin verification) interleave there.   *)
(* The Desktop may crash between any two steps and start again.             *)
(***************************************************************************)
EXTENDS Naturals, Sequences, FiniteSets

CONSTANTS MaxInst,    \* bound: installation identities
          MaxCred,    \* bound: credentials of a tunnel
          MaxProcs,   \* bound: tunnel processes alive at once
          MaxOps,     \* bound: operations and launches begun
          MaxFaults   \* lost or failing requests, crashes, exiting processes

Slots == {"user", "desktop"}
NoMeta == [inst |-> 0, status |-> "none"]
NoToken == [inst |-> 0, cred |-> 0]
NoOp == [kind |-> "none", todo |-> <<>>, token |-> NoToken, child |-> 0, from |-> 0]

VARIABLES
  op,        \* per slot: the operation under way
  broker,    \* per installation: its row, DNS record, tunnel and credential
  disk,      \* installation.json, public-mcp.json and the secure store
  mem,       \* the manager: installation, metadata, view and whether it is up
  cf,        \* CloudflaredManager: its child, state and token
  procs,     \* tunnel processes alive: token, and whether this Desktop started it
             \* and has not told it to end (mine)
  begun, faults,
  crossed,   \* two operations have been under way at once
  half,      \* a rotation or a revocation was carried out and not heard of
  last       \* the kind of the last operation that ended, if it met no fault

vars == <<op, broker, disk, mem, cf, procs, begun, faults, crossed, half, last>>
desktop == <<disk, mem, cf, procs>>

Busy(s) == op[s].todo # <<>>
Rest == mem.up /\ \A s \in Slots : ~Busy(s)
At(s, step) == Busy(s) /\ Head(op[s].todo) = step
Fault == faults < MaxFaults /\ faults' = faults + 1

\* setView and setViewFromMetadata: the state and the host shown with it.
View(state) == [state |-> state, host |-> mem.meta.inst]

-----------------------------------------------------------------------------
(* Operations as steps. *)

Enroll == <<"enroll", "store", "save", "start", "verify", "verified">>
Rotate == <<"rotate", "store", "save", "stop", "start", "verify", "verified">>
Revoke == <<"stop", "revoke", "save", "forget", "revoked">>
ReEnroll == <<"stop", "forget", "identity", "unlink">> \o Enroll

\* The operation goes on with its next step, with other steps, or is over.
Continue(s, todo) ==
  /\ op' = [op EXCEPT ![s].todo = todo]
  /\ last' = IF todo = <<>> /\ op[s].from = faults THEN op[s].kind ELSE "none"
Go(s) == Continue(s, Tail(op[s].todo))

\* An error: retry and initialize show it, the others are rejected and leave
\* the view as it is.
Throw(s) ==
  /\ op' = [op EXCEPT ![s] = NoOp]
  /\ last' = "none"
  /\ mem' = [mem EXCEPT !.view = CASE op[s].kind = "retry" -> View("degraded")
                                   [] op[s].kind = "initialize" -> View("offline")
                                   [] OTHER -> mem.view]

-----------------------------------------------------------------------------
(* What begins an operation. *)

Start(s, kind, todo, view) ==
  /\ mem.up /\ ~Busy(s) /\ begun < MaxOps
  /\ begun' = begun + 1
  /\ op' = [op EXCEPT ![s] = [NoOp EXCEPT !.kind = kind, !.todo = todo, !.from = faults]]
  /\ mem' = [mem EXCEPT !.view = view]
  /\ crossed' = (crossed \/ \E o \in Slots \ {s} : Busy(o))
  /\ last' = "none"
  /\ UNCHANGED <<broker, disk, cf, procs, faults, half>>

CanReEnroll == disk.inst < MaxInst
StartEnroll(s) == Start(s, "enroll", Enroll, [state |-> "enrolling", host |-> 0])
StartRetry(s) ==
  IF mem.meta.status = "active"
  THEN Start(s, "retry", <<"status">>, View("checking"))
  ELSE CanReEnroll /\ Start(s, "reEnroll", ReEnroll, mem.view)

\* repairPublicMcp, for the user's Repair and after a change of workspaces;
\* the plugin verification retries in the same way.
NeverEnrolled == \/ mem.view.state = "not-enrolled"
                 \/ mem.view.state = "enrolling" /\ mem.view.host = 0
Repair(s) == IF NeverEnrolled THEN StartEnroll(s) ELSE StartRetry(s)

UserStarts ==
  \/ Repair("user")
  \/ mem.meta.status = "active" /\ broker[mem.inst].cred < MaxCred
       /\ Start("user", "rotate", Rotate, View("enrolling"))
  \/ Start("user", "revoke", Revoke, View("checking"))
  \/ CanReEnroll /\ Start("user", "reEnroll", ReEnroll, mem.view)
DesktopStarts == Repair("desktop")

\* A bug: a token that no metadata speaks of is kept.
LeftTokenKept == <<>>

\* initialize, at a launch: what an earlier process left is read.  A route that
\* was never enrolled, or belongs to an older identity, is enrolled right away.
LeftToken == IF disk.token # NoToken THEN <<"forget">> ELSE <<>>
Initialize ==
  CASE disk.meta = NoMeta -> [kind |-> "enroll", todo |-> LeftToken \o Enroll, state |-> "enrolling"]
    [] disk.meta.status # "none" /\ disk.meta.inst # disk.inst ->
         [kind |-> "enroll", todo |-> <<"forget", "unlink">> \o Enroll, state |-> "enrolling"]
    [] disk.meta.inst = disk.inst /\ disk.meta.status = "revoked" ->
         [kind |-> "initialize", todo |-> <<"forget", "revoked">>, state |-> "checking"]
    [] OTHER ->
         [kind |-> "initialize", todo |-> IF disk.token = NoToken THEN <<>> ELSE <<"status">>,
          state |-> IF disk.token = NoToken THEN "degraded" ELSE "checking"]
Launch ==
  /\ ~mem.up /\ begun < MaxOps
  /\ begun' = begun + 1
  /\ op' = [op EXCEPT !["user"] = [NoOp EXCEPT !.kind = Initialize.kind, !.todo = Initialize.todo,
                                                 !.from = faults]]
  /\ mem' = [up |-> TRUE, inst |-> disk.inst, meta |-> disk.meta,
             view |-> [state |-> Initialize.state,
                       host |-> IF Initialize.kind = "enroll" THEN 0 ELSE disk.meta.inst]]
  /\ UNCHANGED <<broker, disk, cf, procs, faults, crossed, half, last>>

\* The Desktop quits (shutdown stops the tunnel first), or crashes: the
\* operations are gone and a process it did not stop stays.
Down ==
  /\ op' = [s \in Slots |-> NoOp]
  /\ mem' = [mem EXCEPT !.up = FALSE, !.view = [state |-> "offline", host |-> 0]]
  /\ cf' = [child |-> 0, state |-> "stopped", token |-> NoToken]
  /\ last' = "none"
Quit ==
  /\ Rest
  /\ procs' = {p \in procs : p.id # cf.child}
  /\ Down
  /\ UNCHANGED <<broker, disk, begun, faults, crossed, half>>
Crash ==
  /\ mem.up /\ Fault
  /\ procs' = {[p EXCEPT !.mine = FALSE] : p \in procs}
  /\ half' = (half \/ \E s \in Slots : At(s, "store") /\ op[s].kind = "rotate")
  /\ Down
  /\ UNCHANGED <<broker, disk, begun, crossed>>

-----------------------------------------------------------------------------
(* The broker.  Its mutations are serialised by a lock.  A request is done  *)
(* and answered; or it fails, and was done, or half done, or not.           *)

Request(s) == UNCHANGED <<disk, cf, procs, begun, crossed>>
NotAnswered(s) == Fault /\ Throw(s)

\* enroll creates the route of an identity it does not know, returns the
\* credential of an active one, and refuses a revoked one: retry shows that.
Enrolled(i) == [broker EXCEPT ![i] = IF broker[i].row = "none"
                  THEN [row |-> "active", dns |-> TRUE, tunnel |-> TRUE, cred |-> 1] ELSE @]
AskEnroll(s) ==
  LET i == mem.inst IN
  /\ At(s, "enroll")
  /\ \/ /\ broker[i].row # "revoked"
        /\ broker' = Enrolled(i)
        /\ op' = [op EXCEPT ![s].todo = Tail(@), ![s].token = [inst |-> i, cred |-> Enrolled(i)[i].cred]]
        /\ UNCHANGED <<mem, faults, last>>
     \/ /\ broker[i].row # "revoked"
        /\ broker' \in {broker, Enrolled(i)}
        /\ NotAnswered(s)
     \/ /\ broker[i].row = "revoked"
        /\ op' = [op EXCEPT ![s] = NoOp]
        /\ mem' = [mem EXCEPT !.view = IF op[s].kind = "retry" THEN View("revoked") ELSE @]
        /\ last' = "none"
        /\ UNCHANGED <<broker, faults>>
  /\ Request(s)
  /\ UNCHANGED half

\* rotate gives the tunnel a new secret at once.
Rotated(i) == [broker EXCEPT ![i].cred = @ + 1]
AskRotate(s) ==
  LET i == mem.inst IN
  /\ At(s, "rotate")
  /\ \/ /\ broker[i].row = "active"
        /\ broker' = Rotated(i)
        /\ op' = [op EXCEPT ![s].todo = Tail(@), ![s].token = [inst |-> i, cred |-> broker[i].cred + 1]]
        /\ UNCHANGED <<mem, faults, half, last>>
     \/ /\ broker[i].row = "active"
        /\ broker' \in {broker, Rotated(i)}
        /\ half' = (half \/ broker' # broker)
        /\ NotAnswered(s)
     \/ /\ broker[i].row # "active"
        /\ Throw(s)
        /\ UNCHANGED <<broker, faults, half>>
  /\ Request(s)

\* revoke deletes the DNS record, the tunnel and marks the row; what is already
\* gone is no error, so it can be asked for again.  The Desktop takes "not
\* enrolled" for an answer, and marks its metadata.
Revoked(i) == [broker EXCEPT ![i] = [@ EXCEPT !.dns = FALSE, !.tunnel = FALSE, !.row = "revoked"]]
AskRevoke(s) ==
  LET i == mem.inst
      marked == [mem EXCEPT !.meta.status = "revoked"] IN
  /\ At(s, "revoke")
  /\ \/ /\ mem.meta # NoMeta
        /\ broker' = IF broker[i].row = "none" THEN broker ELSE Revoked(i)
        /\ mem' = marked
        /\ Go(s)
        /\ UNCHANGED <<faults, half>>
     \/ /\ mem.meta = NoMeta
        /\ Continue(s, <<"forget", "revoked">>)
        /\ UNCHANGED <<broker, mem, faults, half>>
     \/ /\ mem.meta # NoMeta /\ broker[i].row = "active"
        /\ broker' \in {broker, [broker EXCEPT ![i].dns = FALSE],
                        [broker EXCEPT ![i].dns = FALSE, ![i].tunnel = FALSE], Revoked(i)}
        /\ half' = (half \/ broker' # broker)
        /\ NotAnswered(s)
  /\ Request(s)

\* status, for retry and initialize.
Active ==
  CASE disk.token = NoToken -> Enroll
    [] disk.token # NoToken /\ cf.state = "running" -> <<"verify", "verified">>
    [] OTHER -> <<"start", "verify", "verified">>
AskStatus(s) ==
  LET row == broker[mem.inst].row IN
  /\ At(s, "status")
  /\ \/ /\ row = "active"
        /\ op' = [op EXCEPT ![s].todo = Active, ![s].token = disk.token]
        /\ UNCHANGED <<mem, faults, last>>
     \/ /\ row = "revoked"
        /\ mem' = [mem EXCEPT !.meta.status = "revoked"]
        /\ Continue(s, <<"save", "forget">> \o (IF op[s].kind = "retry" THEN <<"stop">> ELSE <<>>) \o <<"revoked">>)
        /\ UNCHANGED faults
     \/ NotAnswered(s)
  /\ Request(s)
  /\ UNCHANGED <<broker, half>>

-----------------------------------------------------------------------------
(* Files and secrets. *)

\* applyEnrollment: the credential is stored, then the metadata is made and
\* written.
Store(s) ==
  /\ At(s, "store")
  /\ disk' = [disk EXCEPT !.token = op[s].token]
  /\ mem' = [mem EXCEPT !.meta = [inst |-> op[s].token.inst, status |-> "active"]]
  /\ Go(s)
  /\ UNCHANGED <<broker, cf, procs, begun, faults, crossed, half>>
Save(s) ==
  /\ At(s, "save")
  /\ disk' = [disk EXCEPT !.meta = mem.meta]
  /\ Go(s)
  /\ UNCHANGED <<broker, mem, cf, procs, begun, faults, crossed, half>>
Forget(s) ==
  /\ At(s, "forget")
  /\ disk' = [disk EXCEPT !.token = NoToken]
  /\ Go(s)
  /\ UNCHANGED <<broker, mem, cf, procs, begun, faults, crossed, half>>

\* rotateInstallationId, and the metadata of the old one is removed.
Identity(s) ==
  /\ At(s, "identity") /\ CanReEnroll
  /\ disk' = [disk EXCEPT !.inst = @ + 1]
  /\ mem' = [mem EXCEPT !.inst = disk.inst + 1]
  /\ Go(s)
  /\ UNCHANGED <<broker, cf, procs, begun, faults, crossed, half>>
Unlink(s) ==
  /\ At(s, "unlink")
  /\ disk' = [disk EXCEPT !.meta = NoMeta]
  /\ mem' = [mem EXCEPT !.meta = NoMeta, !.view = [state |-> "enrolling", host |-> 0]]
  /\ Go(s)
  /\ UNCHANGED <<broker, cf, procs, begun, faults, crossed, half>>

\* The end of a revocation.
ShowRevoked(s) ==
  /\ At(s, "revoked")
  /\ mem' = [mem EXCEPT !.view = View("revoked")]
  /\ Go(s)
  /\ UNCHANGED <<broker, disk, cf, procs, begun, faults, crossed, half>>

-----------------------------------------------------------------------------
(* The tunnel process. *)

\* start: a process that runs with this token is left alone, one with another
\* is stopped first; the check and the spawn are an await apart.
Runs == cf.child # 0 /\ cf.state = "running"
TunnelSteps(token) ==
  CASE Runs /\ cf.token = token -> <<>>
    [] Runs /\ cf.token # token -> <<"stop", "spawn">>
    [] OTHER -> <<"spawn">>
StartTunnel(s) ==
  /\ At(s, "start")
  /\ Continue(s, TunnelSteps(op[s].token) \o Tail(op[s].todo))
  /\ UNCHANGED <<broker, desktop, begun, faults, crossed, half>>
FreshId == CHOOSE i \in 1..(MaxProcs + 1) : \A p \in procs : p.id # i
Spawn(s) ==
  /\ At(s, "spawn") /\ Cardinality(procs) < MaxProcs
  /\ \/ /\ procs' = procs \cup {[id |-> FreshId, token |-> op[s].token, mine |-> TRUE]}
        /\ cf' = [child |-> FreshId, state |-> "running", token |-> op[s].token]
        /\ Go(s)
        /\ UNCHANGED <<mem, faults>>
     \/ /\ Fault
        /\ cf' = [child |-> 0, state |-> "crashed", token |-> NoToken]
        /\ Throw(s)
        /\ UNCHANGED procs
  /\ UNCHANGED <<broker, disk, begun, crossed, half>>

\* stop: nothing to stop, somebody else is stopping it, or the process is told
\* to exit and waited for.
StopTunnel(s) ==
  /\ At(s, "stop")
  /\ \/ /\ cf.child = 0
        /\ cf' = [cf EXCEPT !.state = "stopped", !.token = NoToken]
        /\ Go(s)
     \/ /\ cf.child # 0 /\ cf.state = "stopping"
        /\ Go(s)
        /\ UNCHANGED cf
     \/ /\ cf.child # 0 /\ cf.state # "stopping"
        /\ cf' = [cf EXCEPT !.state = "stopping"]
        /\ op' = [op EXCEPT ![s].todo = <<"exit">> \o Tail(@),
                            ![s].child = cf.child]
        /\ UNCHANGED last
  /\ UNCHANGED <<broker, disk, mem, procs, begun, faults, crossed, half>>

\* It has exited.  Or it did not within the timeout and is left alone, told to
\* end: SIGKILL is sent only if child.killed is unset, and SIGTERM has set it.
\* Another process may be the child by now.
Ended(child) == {p \in procs : p.id # child}
TimedOut(child) == {[p EXCEPT !.mine = @ /\ p.id # child] : p \in procs}
Exited(s) ==
  /\ At(s, "exit")
  /\ \/ /\ procs' = Ended(op[s].child)
        /\ UNCHANGED faults
     \/ /\ \E p \in procs : p.id = op[s].child
        /\ procs' = TimedOut(op[s].child)
        /\ Fault
  /\ cf' = [child |-> IF cf.child = op[s].child THEN 0 ELSE cf.child,
            state |-> "stopped", token |-> NoToken]
  /\ Go(s)
  /\ UNCHANGED <<broker, disk, mem, begun, crossed, half>>

\* A process ends by itself: the state of the child says so, the view does not.
Exit ==
  /\ Fault
  /\ \E p \in procs :
       /\ cf.state # "stopping" \/ p.id # cf.child
       /\ procs' = procs \ {p}
       /\ cf' = IF p.id = cf.child THEN [child |-> 0, state |-> "crashed", token |-> NoToken] ELSE cf
  /\ UNCHANGED <<op, broker, disk, mem, begun, crossed, half, last>>

\* verifyUntilReady: the route of the metadata is tried until it answers with
\* the tools that are needed, or it is given up.
Served(i) == \E p \in procs : /\ p.token = [inst |-> i, cred |-> broker[i].cred]
                              /\ broker[i].dns /\ broker[i].tunnel
Verify(s) ==
  /\ At(s, "verify")
  /\ \/ /\ mem.meta # NoMeta
        /\ mem' = [mem EXCEPT !.view = View("checking")]
        /\ op' = [op EXCEPT ![s].todo = Tail(@), ![s].child = mem.meta.inst]
        /\ UNCHANGED last
     \/ /\ mem.meta = NoMeta
        /\ Throw(s)
  /\ UNCHANGED <<broker, disk, cf, procs, begun, faults, crossed, half>>
Verified(s) ==
  /\ At(s, "verified")
  /\ \/ /\ Served(op[s].child)
        /\ mem' = [mem EXCEPT !.view = View("ready")]
        /\ Go(s)
        /\ UNCHANGED faults
     \/ /\ IF Served(op[s].child) THEN Fault ELSE UNCHANGED faults
        /\ mem' = [mem EXCEPT !.view = View("degraded")]
        /\ op' = [op EXCEPT ![s] = NoOp]
        /\ last' = IF Served(op[s].child) \/ op[s].from # faults THEN "none" ELSE op[s].kind
  /\ UNCHANGED <<broker, disk, cf, procs, begun, crossed, half>>

-----------------------------------------------------------------------------
Init ==
  /\ op = [s \in Slots |-> NoOp]
  /\ broker = [i \in 1..MaxInst |-> [row |-> "none", dns |-> FALSE, tunnel |-> FALSE, cred |-> 0]]
  /\ disk = [inst |-> 1, meta |-> NoMeta, token |-> NoToken]
  /\ mem = [up |-> FALSE, inst |-> 1, meta |-> NoMeta, view |-> [state |-> "offline", host |-> 0]]
  /\ cf = [child |-> 0, state |-> "stopped", token |-> NoToken]
  /\ procs = {}
  /\ begun = 0 /\ faults = 0
  /\ crossed = FALSE /\ half = FALSE
  /\ last = "none"

Next ==
  \/ UserStarts \/ DesktopStarts \/ Launch \/ Quit \/ Crash \/ Exit
  \/ \E s \in Slots :
       \/ AskEnroll(s) \/ AskRotate(s) \/ AskRevoke(s) \/ AskStatus(s)
       \/ Store(s) \/ Save(s) \/ Forget(s) \/ Identity(s) \/ Unlink(s) \/ ShowRevoked(s)
       \/ StartTunnel(s) \/ Spawn(s) \/ StopTunnel(s) \/ Exited(s) \/ Verify(s) \/ Verified(s)

Spec == Init /\ [][Next]_vars

-----------------------------------------------------------------------------
Alone == Rest /\ ~crossed

\* At rest a stored tunnel credential is that of this installation's own
\* active enrollment: whatever step of an enrollment, a rotation, a revocation
\* or a change of identity a crash cut short, the next launch clears it up.
CredentialIsOwn ==
  Alone /\ disk.token # NoToken =>
    /\ disk.token.inst = disk.inst /\ mem.inst = disk.inst
    /\ disk.meta = [inst |-> disk.inst, status |-> "active"]

\* When the route is shown as revoked, the credential is gone, every tunnel of
\* this Desktop has been told to end, and the broker does not keep the route (which it does when the
\* answer to the first enrollment was lost: the Desktop knows of no route then).
RevokedIsDown ==
  Alone /\ mem.view.state = "revoked" =>
    /\ disk.token = NoToken /\ cf.child = 0
    /\ \A p \in procs : ~p.mine
    /\ mem.meta # NoMeta => broker[mem.inst].row # "active"

\* Of the tunnel processes this Desktop started, all but the one it knows have
\* been told to end.
TunnelIsKnown == Alone => \A p \in procs : p.mine => p.id = cf.child

\* A repair, an enrollment or a re-enrollment that met no fault ends with a
\* route that is served and shown as ready for its own host, or finds it
\* revoked - unless the broker has done half of what was asked.
RepairHeals ==
  Alone /\ ~half /\ last \in {"retry", "enroll", "reEnroll"} =>
    \/ mem.view = [state |-> "ready", host |-> mem.inst]
    \/ mem.view.state = "revoked"

\* The public route, its credential and its tunnel agree whenever the Desktop is at
\* rest, whatever step of an enrollment, rotation or revocation was cut short.
RouteIsAccounted == CredentialIsOwn /\ RevokedIsDown /\ TunnelIsKnown /\ RepairHeals
================================================================================
