--------------------------- MODULE MutationLease ---------------------------
(***************************************************************************)
(* The SQLite fenced lease of src/src/coordination.rs, and the one caller  *)
(* that takes it, AppState::apply_patch_locked (src/src/service.rs).       *)
(*                                                                         *)
(* Several service processes share one state database.  A row of           *)
(* mutation_leases exists per resource key; rows of different keys never   *)
(* meet, so the module keeps the row of one workspace.  Each process has   *)
(* one in-process mutation_lock around apply_patch_locked, so it has at    *)
(* most one lease-taking request at a time: a process is an element of     *)
(* Instances.                                                              *)
(*                                                                         *)
(* Time.  Every comparison in the SQL is between expires_at and            *)
(* unixepoch(), so the row keeps the seconds that are left (0: expired)    *)
(* and no clock value is needed.                                           *)
(***************************************************************************)
EXTENDS Naturals, FiniteSets

CONSTANTS
    Instances,    \* service processes sharing the database
    LeaseIds,     \* lease UUIDs; its size bounds the acquisitions of a run
    NoOne,        \* SQL NULL of owner_instance_id
    NoLease,      \* SQL NULL of lease_id
    TTL,          \* LEASE_TTL_SECONDS
    Renewal,      \* LEASE_RENEW_SECONDS
    Timely        \* TRUE: renewals succeed and are never later than Renewal

ASSUME LeaseAssumption ==
    /\ NoOne \notin Instances
    /\ NoLease \notin LeaseIds
    /\ TTL \in Nat \ {0}
    /\ Renewal \in 1..(TTL - 1)
    /\ Timely \in BOOLEAN

VARIABLES
    row,        \* the mutation_leases row of the workspace
    used,       \* lease ids handed out so far (UUIDs never repeat)
    pc,         \* where apply_patch_locked stands in each process
    my,         \* the MutationLease value each process owns
    renewing,   \* whether the renew task of that lease is running
    cleanups    \* release statements spawned by Drop and not yet executed

vars == <<row, used, pc, my, renewing, cleanups>>

(***************************************************************************)
(* "acquired": the upsert hit, the token is not read yet; "held": lease in *)
(* hand, patch being validated; "checked": first assert_current passed,    *)
(* git apply is next; "applied": git apply done; "confirmed": second       *)
(* assert_current passed, the changeset is being recorded.                 *)
(***************************************************************************)
Phases   == {"idle", "acquired", "held", "checked", "applied", "confirmed"}
Holding  == {"held", "checked", "applied", "confirmed"}
Critical == {"checked", "applied", "confirmed"}

LeaseRow == [owner : Instances \cup {NoOne}, lease : LeaseIds \cup {NoLease},
             token : Nat, left : 0..TTL]
Grant    == [owner : Instances, lease : LeaseIds \cup {NoLease}, token : Nat]

NoGrant(i) == [owner |-> i, lease |-> NoLease, token |-> 0]

TypeOK ==
    /\ row \in LeaseRow
    /\ used \in SUBSET LeaseIds
    /\ pc \in [Instances -> Phases]
    /\ my \in [Instances -> Grant]
    /\ renewing \in [Instances -> BOOLEAN]
    /\ cleanups \in SUBSET Grant

Init ==
    /\ row = [owner |-> NoOne, lease |-> NoLease, token |-> 0, left |-> 0]
    /\ used = {}
    /\ pc = [i \in Instances |-> "idle"]
    /\ my = [i \in Instances |-> NoGrant(i)]
    /\ renewing = [i \in Instances |-> FALSE]
    /\ cleanups = {}

(***************************************************************************)
(* The WHERE clauses.                                                      *)
(***************************************************************************)
\* Mutation: the upsert forgets that an expired lease may be taken over.
FreeOnlyWhenReleased == row.lease = NoLease

\* No live lease: the condition under which the upsert changes the row.
Free == row.lease = NoLease \/ row.left = 0

\* owner_instance_id, lease_id and fencing_token all match.
Matches(g) == row.owner = g.owner /\ row.lease = g.lease /\ row.token = g.token

\* What assert_current and the renewal require.
Current(g) == Matches(g) /\ row.left > 0

\* Mutation: a takeover keeps the fencing token of the row.
AcquireKeepsToken(i) ==
    /\ pc[i] = "idle"
    /\ Free
    /\ \E l \in LeaseIds \ used :
          /\ row' = [owner |-> i, lease |-> l, left |-> TTL,
                     token |-> IF row.token = 0 THEN 1 ELSE row.token]
          /\ used' = used \cup {l}
          /\ my' = [my EXCEPT ![i] = [owner |-> i, lease |-> l, token |-> 0]]
    /\ pc' = [pc EXCEPT ![i] = "acquired"]
    /\ UNCHANGED <<renewing, cleanups>>

\* Mutation: a takeover does not wait for the lease to expire.
AcquireAnyway(i) ==
    /\ pc[i] = "idle"
    /\ \E l \in LeaseIds \ used :
          /\ row' = [owner |-> i, lease |-> l, token |-> row.token + 1, left |-> TTL]
          /\ used' = used \cup {l}
          /\ my' = [my EXCEPT ![i] = [owner |-> i, lease |-> l, token |-> 0]]
    /\ pc' = [pc EXCEPT ![i] = "acquired"]
    /\ UNCHANGED <<renewing, cleanups>>

(***************************************************************************)
(* acquire: one upsert, then a separate SELECT of the token.  A busy row   *)
(* is an error that changes nothing.                                       *)
(***************************************************************************)
Acquire(i) ==
    /\ pc[i] = "idle"
    /\ Free
    /\ \E l \in LeaseIds \ used :
          /\ row' = [owner |-> i, lease |-> l, token |-> row.token + 1, left |-> TTL]
          /\ used' = used \cup {l}
          /\ my' = [my EXCEPT ![i] = [owner |-> i, lease |-> l, token |-> 0]]
    /\ pc' = [pc EXCEPT ![i] = "acquired"]
    /\ UNCHANGED <<renewing, cleanups>>

\* The SELECT finds the row of this owner and lease id: the token is read and
\* the renew task is spawned.
ReadToken(i) ==
    /\ pc[i] = "acquired"
    /\ row.owner = i /\ row.lease = my[i].lease
    /\ my' = [my EXCEPT ![i].token = row.token]
    /\ renewing' = [renewing EXCEPT ![i] = TRUE]
    /\ pc' = [pc EXCEPT ![i] = "held"]
    /\ UNCHANGED <<row, used, cleanups>>

\* The SELECT fails (the row was taken over, or the statement failed): no
\* MutationLease value exists, so nothing is dropped and the row is left alone.
ReadTokenFails(i) ==
    /\ pc[i] = "acquired"
    /\ pc' = [pc EXCEPT ![i] = "idle"]
    /\ my' = [my EXCEPT ![i] = NoGrant(i)]
    /\ UNCHANGED <<row, used, renewing, cleanups>>

\* Mutation: the renewal does not require expires_at > unixepoch().
RenewEvenIfExpired(i) ==
    /\ renewing[i]
    /\ Matches(my[i])
    /\ row' = [row EXCEPT !.left = TTL]
    /\ UNCHANGED <<used, pc, my, renewing, cleanups>>

(***************************************************************************)
(* The renew task.  A renewal that hits no row, or fails, ends the task    *)
(* while the request goes on.                                              *)
(***************************************************************************)
Renew(i) ==
    /\ renewing[i]
    /\ Current(my[i])
    /\ row' = [row EXCEPT !.left = TTL]
    /\ UNCHANGED <<used, pc, my, renewing, cleanups>>

RenewStops(i) ==
    /\ renewing[i]
    /\ Timely => ~Current(my[i])
    /\ renewing' = [renewing EXCEPT ![i] = FALSE]
    /\ UNCHANGED <<row, used, pc, my, cleanups>>

(***************************************************************************)
(* Drop of the MutationLease value, at every return of apply_patch_locked: *)
(* the renew task is aborted and the release statement is spawned.         *)
(***************************************************************************)
Drop(i) ==
    /\ pc' = [pc EXCEPT ![i] = "idle"]
    /\ my' = [my EXCEPT ![i] = NoGrant(i)]
    /\ renewing' = [renewing EXCEPT ![i] = FALSE]
    /\ cleanups' = cleanups \cup {my[i]}
    /\ UNCHANGED <<row, used>>

\* The spawned statement runs, at any later time.
Release(g) ==
    /\ g \in cleanups
    /\ cleanups' = cleanups \ {g}
    /\ row' = IF Matches(g)
              THEN [row EXCEPT !.owner = NoOne, !.lease = NoLease, !.left = 0]
              ELSE row
    /\ UNCHANGED <<used, pc, my, renewing>>

(***************************************************************************)
(* apply_patch_locked after the lease is taken: validate, assert, apply,   *)
(* assert, record.  Every `?` is an early return that drops the lease.     *)
(***************************************************************************)
Proceed(i, from, to) ==
    /\ pc[i] = from
    /\ pc' = [pc EXCEPT ![i] = to]
    /\ UNCHANGED <<row, used, my, renewing, cleanups>>

AssertBefore(i) == Current(my[i]) /\ Proceed(i, "held", "checked")

GitApply(i) == Proceed(i, "checked", "applied")

AssertAfter(i) == Current(my[i]) /\ Proceed(i, "applied", "confirmed")

\* A fence assertion finds the lease lost.
AssertLost(i) ==
    /\ pc[i] \in {"held", "applied"}
    /\ ~Current(my[i])
    /\ Drop(i)

\* The patch does not validate, git apply fails, or a statement fails.
Abandon(i) ==
    /\ pc[i] \in Holding
    /\ Drop(i)

\* The changeset is recorded and the request returns.
Record(i) ==
    /\ pc[i] = "confirmed"
    /\ Drop(i)

(***************************************************************************)
(* A process dies: its request, its renew task and the release statements  *)
(* it had spawned are gone; the row stays.  (The next process of that      *)
(* place gets a new instance id; lease ids are unique, so the model may    *)
(* reuse the name.)                                                        *)
(***************************************************************************)
Crash(i) ==
    /\ pc' = [pc EXCEPT ![i] = "idle"]
    /\ my' = [my EXCEPT ![i] = NoGrant(i)]
    /\ renewing' = [renewing EXCEPT ![i] = FALSE]
    /\ cleanups' = {g \in cleanups : g.owner # i}
    /\ UNCHANGED <<row, used>>

\* A live request that holds the lease of the row.
LiveHolder(i) == pc[i] # "idle" /\ row.lease = my[i].lease

\* One second passes.  When Timely, a live holder's renewal is not overdue.
Tick ==
    /\ row.left > 0
    /\ Timely /\ (\E i \in Instances : LiveHolder(i)) => row.left > TTL - Renewal
    /\ row' = [row EXCEPT !.left = @ - 1]
    /\ UNCHANGED <<used, pc, my, renewing, cleanups>>

Next ==
    \/ \E i \in Instances :
          \/ Acquire(i) \/ ReadToken(i) \/ ReadTokenFails(i)
          \/ Renew(i) \/ RenewStops(i)
          \/ AssertBefore(i) \/ GitApply(i) \/ AssertAfter(i)
          \/ AssertLost(i) \/ Abandon(i) \/ Record(i)
          \/ Crash(i)
    \/ \E g \in cleanups : Release(g)
    \/ Tick

\* Time passes; nothing else is promised: a request may hang, a process may
\* die, a spawned release may never run.
Spec == Init /\ [][Next]_vars /\ WF_vars(Tick)

-----------------------------------------------------------------------------
(***************************************************************************)
(* Properties.                                                             *)
(***************************************************************************)

\* Fencing tokens order the holders: no two requests ever hold the same token
\* (although the token is read by a second statement after the upsert), and a
\* request whose token is the one in the row is the one the row names.
FencingOrder ==
    \A i \in Instances : pc[i] \in Holding =>
        /\ my[i].token \in 1..row.token
        /\ my[i].token = row.token => Matches(my[i])
        /\ \A j \in Instances \ {i} :
               pc[j] \in Holding => my[i].token # my[j].token

\* While renewals keep up, the lease is a lock: a request that passed its
\* first fence assertion, and goes on to git apply and to the changeset,
\* holds the live lease at every moment until it returns.
ExclusiveWhenTimely ==
    Timely => \A i \in Instances : pc[i] \in Critical => Current(my[i])

\* A lost lease is never regained: once assert_current would fail for a
\* request it fails until that request ends, whatever renewals and releases
\* are still on their way.
LostStaysLost ==
    [][\A i \in Instances :
          pc[i] \in Holding /\ ~Current(my[i]) /\ pc'[i] \in Holding
             => ~Current(my[i])']_vars

\* A release statement, however late, never frees the lease of a request that
\* is still running.
NoForeignRelease ==
    [][row.lease # NoLease /\ row'.lease = NoLease
          => \A i \in Instances : ~LiveHolder(i)]_vars

\* The lease of a process that died, or whose release was lost, becomes
\* available without manual cleanup.
AbandonedBecomesFree ==
    (row.lease # NoLease /\ \A i \in Instances : ~LiveHolder(i)) ~> Free

\* What holds in every state of any number of processes: the token orders the
\* holders, and while renewals keep up the holder is alone.
LeaseSafety == TypeOK /\ FencingOrder /\ ExclusiveWhenTimely

\* What no step does: give a lost lease back, or take a live one away.
LeaseActions == LostStaysLost /\ NoForeignRelease
=============================================================================
