-------------------------- MODULE TaskTransactions --------------------------
(***************************************************************************)
(* Snapshot-bound patch tasks: src/src/task_transactions.rs, composed with *)
(* the lease of MutationLease through AppState::apply_patch_locked.        *)
(*                                                                         *)
(* A task remembers the repository (HEAD and working tree) it was begun    *)
(* on.  A proposal is a patch to one path, with the content it expects     *)
(* there.  Every operation holds its process's mutation_lock from start to *)
(* end, so a process has one request at a time; nothing but the database,  *)
(* the lease and the working tree is shared between processes.             *)
(*                                                                         *)
(* A step ends where another process or an editor could make a difference: *)
(* after the snapshot check, after each lease statement, after git apply,  *)
(* after the changeset INSERT.                                             *)
(***************************************************************************)
EXTENDS Naturals

CONSTANTS
    Instances, LeaseIds, NoOne, NoLease, TTL, Renewal, Timely,  \* see MutationLease
    Tasks,       \* tasks, named by their client_request_id
    Proposals,   \* proposals, named by their idempotency_key
    Paths,       \* files of the workspace
    PathOf,      \* the path a proposal's patch touches
    Heads,       \* commits HEAD may name
    FirstHead,   \* HEAD at the start
    NoTask, NoProposal,
    MaxEdits     \* bound: changes made by editors and Git clients

\* As in MutationLease.
ASSUME LeaseConstants ==
    /\ NoOne \notin Instances
    /\ NoLease \notin LeaseIds
    /\ TTL \in Nat \ {0}
    /\ Renewal \in 1..(TTL - 1)
    /\ Timely \in BOOLEAN

ASSUME TaskAssumption ==
    /\ PathOf \in [Proposals -> Paths]
    /\ FirstHead \in Heads
    /\ NoTask \notin Tasks
    /\ NoProposal \notin Proposals
    /\ MaxEdits \in Nat
    /\ Proposals \cap {"original", "edited"} = {}

VARIABLES
    row, used, pc, my, renewing, cleanups,  \* see MutationLease
    repo,        \* HEAD and working tree of the workspace
    tasks,       \* tasks
    proposals,   \* task_proposals
    changesets,  \* proposals whose patch has a changesets row
    reported,    \* proposals with a patch_applied event
    req,         \* the request each process is serving
    patched,     \* history: proposals whose patch git applied
    lost,        \* history: leases whose holder died, or never got to read its token
    edits        \* edits so far

leaseVars == <<row, used, pc, my, renewing, cleanups>>
taskVars  == <<repo, tasks, proposals, changesets, reported, req, patched, lost, edits>>
vars      == <<leaseVars, taskVars>>

\* The lease protocol that apply_patch_locked goes through.
Lease == INSTANCE MutationLease WITH
    row <- row, used <- used, pc <- pc, my <- my, renewing <- renewing, cleanups <- cleanups

\* What a file may hold: its first text, an editor's, or a patch's result.
Contents == {"original", "edited"} \cup Proposals
Repos    == [head : Heads, files : [Paths -> Contents]]

TaskRows     == [status : {"none", "active", "stale", "applied", "cancelled"}, base : Repos]
ProposalRows == [status : {"none", "proposed", "applied", "rejected"},
                 task : Tasks \cup {NoTask}, want : Contents]

(***************************************************************************)
(* A request is "none"; "cancel" or "propose" after its snapshot check;    *)
(* "apply" from its snapshot check until the changeset is recorded, with   *)
(* the rest of its progress in pc; "finish" before the last transaction.   *)
(***************************************************************************)
Requests == [op : {"none", "cancel", "propose", "apply", "finish"},
             task : Tasks \cup {NoTask}, proposal : Proposals \cup {NoProposal}]

NoRequest == [op |-> "none", task |-> NoTask, proposal |-> NoProposal]

TypeOK ==
    /\ Lease!TypeOK
    /\ repo \in Repos
    /\ tasks \in [Tasks -> TaskRows]
    /\ proposals \in [Proposals -> ProposalRows]
    /\ changesets \in SUBSET Proposals
    /\ reported \in SUBSET Proposals
    /\ req \in [Instances -> Requests]
    /\ \A i \in Instances :
          /\ req[i].op # "none" => req[i].task \in Tasks
          /\ req[i].op \in {"propose", "apply", "finish"} => req[i].proposal \in Proposals
          /\ pc[i] # "idle" => req[i].op = "apply"
    /\ patched \in SUBSET Proposals
    /\ lost \in SUBSET LeaseIds
    /\ edits \in Nat

Init ==
    /\ Lease!Init
    /\ repo = [head |-> FirstHead, files |-> [f \in Paths |-> "original"]]
    /\ tasks = [t \in Tasks |-> [status |-> "none", base |-> repo]]
    /\ proposals = [p \in Proposals |->
                      [status |-> "none", task |-> NoTask, want |-> "original"]]
    /\ changesets = {}
    /\ reported = {}
    /\ req = [i \in Instances |-> NoRequest]
    /\ patched = {}
    /\ lost = {}
    /\ edits = 0

(***************************************************************************)
(* Helpers.                                                                *)
(***************************************************************************)
\* The process's mutation_lock is free.
Unlocked(i) == req[i].op = "none" /\ pc[i] = "idle"

Serve(i, op, t, p) == req' = [req EXCEPT ![i] = [op |-> op, task |-> t, proposal |-> p]]

EndRequest(i) == req' = [req EXCEPT ![i] = NoRequest]

\* Rows of tasks and task_proposals after an UPDATE of their status.
Task(t, status) == [status |-> status, base |-> tasks[t].base]
Proposal(p, status) ==
    [status |-> status, task |-> proposals[p].task, want |-> proposals[p].want]

\* The repository with another content of a file.
WithFile(f, c) == [head |-> repo.head, files |-> [repo.files EXCEPT ![f] = c]]

\* refresh_task_state_locked finds HEAD or the working tree changed.
Drifted(t) == tasks[t].status = "active" /\ repo # tasks[t].base

\* Mutation: open proposals survive the task.
KeepPending(t) == proposals

\* reject_pending_proposals_tx.
RejectPending(t) ==
    [p \in Proposals |->
        IF proposals[p].task = t /\ proposals[p].status = "proposed"
        THEN Proposal(p, "rejected")
        ELSE proposals[p]]

\* validate_patch for an apply: the exact HEAD, and the reviewed content.
Applicable(p) ==
    /\ repo.head = tasks[proposals[p].task].base.head
    /\ repo.files[PathOf[p]] = proposals[p].want

(***************************************************************************)
(* begin.  The first snapshot is taken before the lock and compared with   *)
(* one taken under it, so the row holds the repository as it is under the  *)
(* lock.  A known client_request_id only refreshes the task.               *)
(***************************************************************************)
Begin(i, t) ==
    /\ Unlocked(i)
    /\ tasks[t].status = "none"
    /\ tasks' = [tasks EXCEPT ![t] = [status |-> "active", base |-> repo]]
    /\ UNCHANGED <<leaseVars, repo, proposals, changesets, reported, req, patched, lost, edits>>

\* get, a replayed begin, and the snapshot check with which every other
\* operation starts, when it finds drift.
Refresh(i, t) ==
    /\ Unlocked(i)
    /\ Drifted(t)
    /\ tasks' = [tasks EXCEPT ![t] = Task(t, "stale")]
    /\ proposals' = RejectPending(t)
    /\ UNCHANGED <<leaseVars, repo, changesets, reported, req, patched, lost, edits>>

\* cancel: the snapshot check, then an UPDATE whose WHERE names the id only.
CancelCheck(i, t) ==
    /\ Unlocked(i)
    /\ tasks[t].status \in {"active", "stale"}
    /\ ~Drifted(t)
    /\ Serve(i, "cancel", t, NoProposal)
    /\ UNCHANGED <<leaseVars, repo, tasks, proposals, changesets, reported, patched, lost, edits>>

Cancel(i) ==
    /\ req[i].op = "cancel"
    /\ tasks' = [tasks EXCEPT ![req[i].task] = Task(req[i].task, "cancelled")]
    /\ proposals' = RejectPending(req[i].task)
    /\ EndRequest(i)
    /\ UNCHANGED <<leaseVars, repo, changesets, reported, patched, lost, edits>>

(***************************************************************************)
(* propose_patch: the snapshot check, then preview_patch (the task's HEAD, *)
(* and the content the caller expects) and the INSERT.                     *)
(***************************************************************************)
ProposeCheck(i, t, p) ==
    /\ Unlocked(i)
    /\ tasks[t].status = "active" /\ ~Drifted(t)
    /\ proposals[p].status = "none"
    /\ Serve(i, "propose", t, p)
    /\ UNCHANGED <<leaseVars, repo, tasks, proposals, changesets, reported, patched, lost, edits>>

Propose(i) ==
    LET t == req[i].task
        p == req[i].proposal
    IN  /\ req[i].op = "propose"
        /\ repo.head = tasks[t].base.head
        /\ proposals[p].status = "none"
        /\ proposals' = [proposals EXCEPT ![p] =
                           [status |-> "proposed", task |-> t,
                            want |-> repo.files[PathOf[p]]]]
        /\ EndRequest(i)
        /\ UNCHANGED <<leaseVars, repo, tasks, changesets, reported, patched, lost, edits>>

(***************************************************************************)
(* apply_patch: the snapshot check and the proposal's status, then         *)
(* apply_patch_locked under the lease, then the transaction that closes    *)
(* the proposal and the task.                                              *)
(***************************************************************************)
ApplyCheck(i, p) ==
    /\ Unlocked(i)
    /\ proposals[p].status = "proposed"
    /\ LET t == proposals[p].task
       IN  /\ tasks[t].status = "active" /\ ~Drifted(t)
           /\ Serve(i, "apply", t, p)
    /\ UNCHANGED <<leaseVars, repo, tasks, proposals, changesets, reported, patched, lost, edits>>

TakeLease(i) ==
    /\ req[i].op = "apply"
    /\ Lease!Acquire(i)
    /\ UNCHANGED taskVars

\* Mutation: the expected file hashes are not compared.
ValidateHeadOnly(i) ==
    /\ Lease!AssertBefore(i)
    /\ repo.head = tasks[req[i].task].base.head
    /\ UNCHANGED taskVars

\* validate_patch and the first fence assertion.
Validate(i) ==
    /\ Lease!AssertBefore(i)
    /\ Applicable(req[i].proposal)
    /\ UNCHANGED taskVars

\* git apply matches only its context lines, so it may succeed although the
\* file changed after it was validated.
GitApply(i) ==
    LET p == req[i].proposal
    IN  /\ Lease!GitApply(i)
        /\ repo' = WithFile(PathOf[p], p)
        /\ patched' = patched \cup {p}
        /\ UNCHANGED <<tasks, proposals, changesets, reported, req, lost, edits>>

\* Mutation: the lease is not dropped when apply_patch_locked returns.
RecordKeepsLease(i) ==
    /\ pc[i] = "confirmed"
    /\ pc' = [pc EXCEPT ![i] = "idle"]
    /\ changesets' = changesets \cup {req[i].proposal}
    /\ Serve(i, "finish", req[i].task, req[i].proposal)
    /\ UNCHANGED <<row, used, my, renewing, cleanups, repo, tasks, proposals, reported,
                   patched, lost, edits>>

\* record_patch_applied; returning drops the lease.
Record(i) ==
    /\ Lease!Record(i)
    /\ changesets' = changesets \cup {req[i].proposal}
    /\ Serve(i, "finish", req[i].task, req[i].proposal)
    /\ UNCHANGED <<repo, tasks, proposals, reported, patched, lost, edits>>

\* The last transaction: two guarded UPDATEs, and an event whatever they hit.
Finish(i) ==
    LET t == req[i].task
        p == req[i].proposal
    IN  /\ req[i].op = "finish"
        /\ proposals' = IF proposals[p].status = "proposed"
                        THEN [proposals EXCEPT ![p] = Proposal(p, "applied")]
                        ELSE proposals
        /\ tasks' = IF tasks[t].status = "active"
                    THEN [tasks EXCEPT ![t] = Task(t, "applied")]
                    ELSE tasks
        /\ reported' = reported \cup {p}
        /\ EndRequest(i)
        /\ UNCHANGED <<leaseVars, repo, changesets, patched, lost, edits>>

(***************************************************************************)
(* Errors.  Without a lease a request may end at any time: the lease is    *)
(* busy, the patch does not validate, the row is taken, a statement fails. *)
(***************************************************************************)
Fail(i) ==
    /\ req[i].op # "none"
    /\ pc[i] = "idle"
    /\ EndRequest(i)
    /\ UNCHANGED <<leaseVars, repo, tasks, proposals, changesets, reported, patched, lost, edits>>

\* Nobody is left to give these grants back.
Lose(grants) == lost' = lost \cup ({g.lease : g \in grants} \ {NoLease})

\* Mutation: an error of apply_patch_locked is ignored.
FailWithLeaseGoesOn(i) ==
    /\ \/ Lease!ReadTokenFails(i) /\ Lose({my[i]})
       \/ (Lease!AssertLost(i) \/ Lease!Abandon(i)) /\ UNCHANGED lost
    /\ Serve(i, "finish", req[i].task, req[i].proposal)
    /\ UNCHANGED <<repo, tasks, proposals, changesets, reported, patched, edits>>

\* apply_patch_locked returns an error.  Before the token is read there is no
\* MutationLease value yet whose Drop would give the lease back.
FailWithLease(i) ==
    /\ \/ Lease!ReadTokenFails(i) /\ Lose({my[i]})
       \/ (Lease!AssertLost(i) \/ Lease!Abandon(i)) /\ UNCHANGED lost
    /\ EndRequest(i)
    /\ UNCHANGED <<repo, tasks, proposals, changesets, reported, patched, edits>>

Crash(i) ==
    /\ Lease!Crash(i)
    /\ Lose({my[i]} \cup {g \in cleanups : g.owner = i})
    /\ EndRequest(i)
    /\ UNCHANGED <<repo, tasks, proposals, changesets, reported, patched, edits>>

\* The lease's own steps: token, renewals, second assertion, late releases, time.
LeaseStep ==
    /\ \/ \E i \in Instances :
             Lease!ReadToken(i) \/ Lease!Renew(i) \/ Lease!RenewStops(i) \/ Lease!AssertAfter(i)
       \/ \E g \in cleanups : Lease!Release(g)
       \/ Lease!Tick
    /\ UNCHANGED taskVars

\* External: an editor, a Git client, or the direct patch path changes a file
\* or HEAD; a file may get its first content back.
Edit ==
    /\ edits < MaxEdits
    /\ edits' = edits + 1
    /\ \/ \E f \in Paths, c \in {"original", "edited"} : repo' = WithFile(f, c)
       \/ \E h \in Heads : repo' = [head |-> h, files |-> repo.files]
    /\ UNCHANGED <<leaseVars, tasks, proposals, changesets, reported, req, patched, lost>>

Next ==
    \/ \E i \in Instances :
          \/ \E t \in Tasks : Begin(i, t) \/ Refresh(i, t) \/ CancelCheck(i, t)
          \/ \E t \in Tasks, p \in Proposals : ProposeCheck(i, t, p)
          \/ \E p \in Proposals : ApplyCheck(i, p)
          \/ Cancel(i) \/ Propose(i)
          \/ TakeLease(i) \/ Validate(i) \/ GitApply(i) \/ Record(i) \/ Finish(i)
          \/ Fail(i) \/ FailWithLease(i) \/ Crash(i)
    \/ LeaseStep
    \/ Edit

Spec == Init /\ [][Next]_vars

-----------------------------------------------------------------------------
(***************************************************************************)
(* Properties.                                                             *)
(***************************************************************************)

\* 'applied' is never claimed for a patch that is not in: an applied proposal
\* was applied by git and has a changeset, and an applied task has an applied
\* proposal, whatever crashes, lost leases and other processes do between the
\* git apply and the last transaction.
AppliedIsReal ==
    /\ \A p \in Proposals : proposals[p].status = "applied"
                               => p \in patched /\ p \in changesets
    /\ \A t \in Tasks : tasks[t].status = "applied"
                           => \E p \in Proposals : proposals[p].task = t
                                                   /\ proposals[p].status = "applied"

\* An active task has only open proposals: nothing of it was applied or
\* rejected, however many processes served it.
ActiveMeansOpen ==
    \A p \in Proposals : proposals[p].status \in {"applied", "rejected"}
        => tasks[proposals[p].task].status # "active"

\* A task applies at most one proposal.  (One process.)
OneAppliedPerTask ==
    \A p, q \in Proposals :
        proposals[p].status = "applied" /\ proposals[q].status = "applied"
            /\ proposals[p].task = proposals[q].task => p = q

\* A stale or cancelled task keeps no proposal that could still be applied.
\* (One process.)
ClosedHasNoOpenProposal ==
    \A p \in Proposals : proposals[p].status = "proposed"
        => tasks[proposals[p].task].status \in {"active", "applied"}

\* A patch_applied event (and the callback it reserves) is about a proposal
\* that is applied.  (One process.)
ReportedIsApplied ==
    \A p \in reported : proposals[p].status = "applied"

\* git apply runs on exactly the content that was reviewed, so that no patch
\* goes in twice and none goes in over another one, between any number of
\* processes and over crashes, while leases are renewed in time and no
\* editor interferes.
ReviewedContentStep ==
    Timely /\ edits = 0 => \A i \in Instances :
        pc[i] = "checked" /\ pc'[i] = "applied" =>
           repo.files[PathOf[req[i].proposal]] = proposals[req[i].proposal].want
AppliesReviewedContent == [][ReviewedContentStep]_vars

\* Every way out of apply_patch_locked gives the lease back: a lease that the row
\* still names belongs to a request that is running, or to a release under way
\* that will hit the row, or to one that died or never read its token (that one
\* has to expire); and nobody renews the lease of a request that has returned.
LeaseGivenBack ==
    /\ \A i \in Instances : renewing[i] => pc[i] \in Lease!Holding
    /\ row.lease \in {NoLease} \cup lost
       \/ (\E i \in Instances : Lease!LiveHolder(i))
       \/ (\E g \in cleanups : Lease!Matches(g))

\* What any number of processes agree on in the database: 'applied' is real, and
\* an active task is open.
TasksAgree == AppliedIsReal /\ ActiveMeansOpen

\* One process on the state database.
Alone == \A i, j \in Instances : i = j

\* What one process guarantees over its crashes: at most one proposal of a task is
\* applied, a closed task has none open, and an event tells the truth.
AloneAgrees ==
    Alone => OneAppliedPerTask /\ ClosedHasNoOpenProposal /\ ReportedIsApplied
=============================================================================
