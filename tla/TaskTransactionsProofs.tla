----------------------- MODULE TaskTransactionsProofs -----------------------
(***************************************************************************)
(* Proofs about src/src/task_transactions.rs on top of the fenced lease,   *)
(* for any number of processes, tasks, proposals, files and commits.       *)
(*                                                                         *)
(* The patch path takes only steps of MutationLease, so what               *)
(* MutationLeaseProofs shows of the lease holds here, and no way out of    *)
(* the path forgets the lease (GivenBack).  TasksAgree is not inductive:   *)
(* the last transaction of apply_patch is guarded by the status of its     *)
(* rows only, so the proof needs what a request that got that far has      *)
(* behind it (Evidence) and that its rows belong together (Linked).        *)
(***************************************************************************)
EXTENDS TaskTransactions, TLAPS

LeaseProof == INSTANCE MutationLeaseProofs

USE LeaseConstants, TaskAssumption

-----------------------------------------------------------------------------
\* A step of the service is a step of the lease protocol or leaves it alone.
LEMMA LeaseMoves == [Next]_vars => [Lease!Next]_leaseVars
<1> SUFFICES ASSUME [Next]_vars PROVE [Lease!Next]_leaseVars
  OBVIOUS
<1>1. ASSUME NEW i \in Instances,
             \/ TakeLease(i) \/ Validate(i) \/ GitApply(i) \/ Record(i)
             \/ FailWithLease(i) \/ Crash(i)
      PROVE  Lease!Next
  BY <1>1 DEF TakeLease, Validate, GitApply, Record, FailWithLease, Crash, Lease!Next
<1>2. CASE LeaseStep
  BY <1>2 DEF LeaseStep, Lease!Next
<1>3. ASSUME NEW i \in Instances, NEW t \in Tasks,
             Begin(i, t) \/ Refresh(i, t) \/ CancelCheck(i, t)
      PROVE  UNCHANGED leaseVars
  BY <1>3 DEF Begin, Refresh, CancelCheck
<1>4. ASSUME NEW i \in Instances, NEW p \in Proposals,
             ApplyCheck(i, p) \/ \E t \in Tasks : ProposeCheck(i, t, p)
      PROVE  UNCHANGED leaseVars
  BY <1>4 DEF ApplyCheck, ProposeCheck
<1>5. ASSUME NEW i \in Instances, Cancel(i) \/ Propose(i) \/ Finish(i) \/ Fail(i)
      PROVE  UNCHANGED leaseVars
  BY <1>5 DEF Cancel, Propose, Finish, Fail
<1>6. CASE Edit \/ UNCHANGED vars
  BY <1>6 DEF Edit, vars
<1>7. QED
  BY <1>1, <1>2, <1>3, <1>4, <1>5, <1>6 DEF Next

\* The invariant of the lease, with which its own properties were proved, holds
\* of the composition.
LEMMA LeaseInvariant == Spec => []LeaseProof!IInv
<1>1. Init => LeaseProof!IInv
  <2>1. Lease!Init => LeaseProof!Init
    BY DEF Lease!Init, LeaseProof!Init, Lease!NoGrant, LeaseProof!NoGrant
  <2>2. QED
    BY <2>1, LeaseProof!InitIInv DEF Init, LeaseProof!LeaseAssumption
<1>2. LeaseProof!IInv /\ [Next]_vars => LeaseProof!IInv'
  <2>1. Lease!Next => LeaseProof!Next
    BY DEF Lease!Next, LeaseProof!Next, Lease!Acquire, LeaseProof!Acquire,
           Lease!ReadToken, LeaseProof!ReadToken,
           Lease!ReadTokenFails, LeaseProof!ReadTokenFails,
           Lease!Renew, LeaseProof!Renew, Lease!RenewStops, LeaseProof!RenewStops,
           Lease!AssertBefore, LeaseProof!AssertBefore,
           Lease!GitApply, LeaseProof!GitApply,
           Lease!AssertAfter, LeaseProof!AssertAfter,
           Lease!AssertLost, LeaseProof!AssertLost,
           Lease!Abandon, LeaseProof!Abandon, Lease!Record, LeaseProof!Record,
           Lease!Crash, LeaseProof!Crash, Lease!Release, LeaseProof!Release,
           Lease!Tick, LeaseProof!Tick, Lease!Free, LeaseProof!Free,
           Lease!Matches, LeaseProof!Matches, Lease!Current, LeaseProof!Current,
           Lease!Drop, LeaseProof!Drop, Lease!Proceed, LeaseProof!Proceed,
           Lease!NoGrant, LeaseProof!NoGrant,
           Lease!LiveHolder, LeaseProof!LiveHolder,
           Lease!Holding, LeaseProof!Holding
  <2>2. [Next]_vars => [LeaseProof!Next]_LeaseProof!vars
    BY <2>1, LeaseMoves DEF LeaseProof!vars, leaseVars
  <2>3. QED
    BY <2>2, LeaseProof!NextIInv DEF LeaseProof!LeaseAssumption
<1>3. QED
  BY <1>1, <1>2, PTL DEF Spec

-----------------------------------------------------------------------------
\* The rows that a request or a proposal names exist and belong together.
Linked ==
    /\ \A p \in Proposals : proposals[p].status # "none" =>
          /\ proposals[p].task \in Tasks
          /\ tasks[proposals[p].task].status # "none"
    /\ \A i \in Instances : req[i].op # "none" => tasks[req[i].task].status # "none"
    /\ \A i \in Instances : req[i].op \in {"apply", "finish"} =>
          /\ proposals[req[i].proposal].status # "none"
          /\ proposals[req[i].proposal].task = req[i].task

\* A request that is past git apply has it behind it; one that is about to close
\* its task has the changeset as well.
Evidence ==
    \A i \in Instances :
       /\ pc[i] \in {"applied", "confirmed"} => req[i].proposal \in patched
       /\ req[i].op = "finish" => req[i].proposal \in patched \cap changesets

TaskInv == TypeOK /\ Linked /\ Evidence /\ TasksAgree

\* With renewals in time and no editor, the content that a request validated is
\* still there when git apply starts.
Reviewed ==
    Timely /\ edits = 0 => \A i \in Instances : pc[i] = "checked" =>
        repo.files[PathOf[req[i].proposal]] = proposals[req[i].proposal].want

\* What a request of the only process checked stays true until it ends.
CheckHolds ==
    \A i \in Instances :
       /\ req[i].op = "cancel" => tasks[req[i].task].status \in {"active", "stale"}
       /\ req[i].op \in {"propose", "apply", "finish"}
             => tasks[req[i].task].status = "active"
       /\ req[i].op \in {"apply", "finish"}
             => proposals[req[i].proposal].status = "proposed"

AloneInv == CheckHolds /\ OneAppliedPerTask /\ ClosedHasNoOpenProposal /\ ReportedIsApplied

\* Types.  The lease's own come from its invariant.
LEMMA InitType == Init => TypeOK
<1> SUFFICES ASSUME Init PROVE TypeOK
  OBVIOUS
<1>1. Lease!TypeOK
  BY DEF Init, Lease!Init, Lease!TypeOK, Lease!LeaseRow, Lease!Grant, Lease!Phases,
         Lease!NoGrant
<1>2. repo \in Repos
  BY DEF Init, Repos, Contents
<1>3. tasks \in [Tasks -> TaskRows] /\ proposals \in [Proposals -> ProposalRows]
  BY <1>2 DEF Init, TaskRows, ProposalRows, Contents
<1>4. req \in [Instances -> Requests]
  BY DEF Init, Requests, NoRequest
<1>5. QED
  BY <1>1, <1>2, <1>3, <1>4 DEF Init, TypeOK, NoRequest, Lease!Init

\* The rows and the repository that the steps write have their types.
LEMMA RowTypes ==
  ASSUME TypeOK
  PROVE  /\ \A t \in Tasks, s \in {"active", "stale", "applied", "cancelled"} :
               Task(t, s) \in TaskRows
         /\ \A p \in Proposals, s \in {"proposed", "applied", "rejected"} :
               Proposal(p, s) \in ProposalRows
         /\ \A t \in Tasks : RejectPending(t) \in [Proposals -> ProposalRows]
         /\ \A f \in Paths, c \in Contents : WithFile(f, c) \in Repos
<1>1. \A t \in Tasks, s \in {"active", "stale", "applied", "cancelled"} :
         Task(t, s) \in TaskRows
  BY DEF TypeOK, Task, TaskRows
<1>2. \A p \in Proposals, s \in {"proposed", "applied", "rejected"} :
         Proposal(p, s) \in ProposalRows
  BY DEF TypeOK, Proposal, ProposalRows
<1>3. \A t \in Tasks : RejectPending(t) \in [Proposals -> ProposalRows]
  BY <1>2 DEF TypeOK, RejectPending
<1>4. \A f \in Paths, c \in Contents : WithFile(f, c) \in Repos
  BY DEF TypeOK, WithFile, Repos
<1>5. QED
  BY <1>1, <1>2, <1>3, <1>4

\* What the lease's steps do to the position of a request.
LEMMA Positions ==
  ASSUME TypeOK, NEW i \in Instances
  PROVE  /\ Lease!Acquire(i) => pc[i] = "idle" /\ pc' = [pc EXCEPT ![i] = "acquired"]
         /\ Lease!ReadToken(i) => pc[i] = "acquired" /\ pc' = [pc EXCEPT ![i] = "held"]
         /\ Lease!AssertBefore(i) => pc[i] = "held" /\ pc' = [pc EXCEPT ![i] = "checked"]
         /\ Lease!GitApply(i) => pc[i] = "checked" /\ pc' = [pc EXCEPT ![i] = "applied"]
         /\ Lease!AssertAfter(i) => pc[i] = "applied" /\ pc' = [pc EXCEPT ![i] = "confirmed"]
         /\ Lease!Record(i) => pc[i] = "confirmed" /\ pc' = [pc EXCEPT ![i] = "idle"]
         /\ Lease!ReadTokenFails(i) \/ Lease!AssertLost(i) \/ Lease!Abandon(i)
              => pc[i] # "idle" /\ pc' = [pc EXCEPT ![i] = "idle"]
         /\ Lease!Crash(i) => pc' = [pc EXCEPT ![i] = "idle"]
         /\ Lease!Renew(i) \/ Lease!RenewStops(i) => pc' = pc
<1>1. /\ Lease!Acquire(i) => pc[i] = "idle" /\ pc' = [pc EXCEPT ![i] = "acquired"]
      /\ Lease!ReadToken(i) => pc[i] = "acquired" /\ pc' = [pc EXCEPT ![i] = "held"]
      /\ Lease!AssertBefore(i) => pc[i] = "held" /\ pc' = [pc EXCEPT ![i] = "checked"]
      /\ Lease!GitApply(i) => pc[i] = "checked" /\ pc' = [pc EXCEPT ![i] = "applied"]
      /\ Lease!AssertAfter(i) => pc[i] = "applied" /\ pc' = [pc EXCEPT ![i] = "confirmed"]
  BY DEF Lease!Acquire, Lease!ReadToken, Lease!AssertBefore, Lease!GitApply,
         Lease!AssertAfter, Lease!Proceed
<1>2. /\ Lease!Record(i) => pc[i] = "confirmed" /\ pc' = [pc EXCEPT ![i] = "idle"]
      /\ Lease!ReadTokenFails(i) \/ Lease!AssertLost(i) \/ Lease!Abandon(i)
           => pc[i] # "idle" /\ pc' = [pc EXCEPT ![i] = "idle"]
      /\ Lease!Crash(i) => pc' = [pc EXCEPT ![i] = "idle"]
      /\ Lease!Renew(i) \/ Lease!RenewStops(i) => pc' = pc
  BY DEF Lease!Record, Lease!ReadTokenFails, Lease!AssertLost, Lease!Abandon,
         Lease!Crash, Lease!Drop, Lease!Holding, Lease!Renew, Lease!RenewStops
<1>3. QED
  BY <1>1, <1>2

\* The lease's own steps read a token, pass the second assertion, or move no
\* request.
LEMMA QuietSteps ==
  ASSUME TypeOK, LeaseStep
  PROVE  \/ pc' = pc
         \/ \E i \in Instances :
               \/ pc[i] = "acquired" /\ pc' = [pc EXCEPT ![i] = "held"]
               \/ pc[i] = "applied" /\ pc' = [pc EXCEPT ![i] = "confirmed"]
<1>1. ASSUME NEW i \in Instances,
             Lease!ReadToken(i) \/ Lease!Renew(i) \/ Lease!RenewStops(i) \/ Lease!AssertAfter(i)
      PROVE  \/ pc' = pc
             \/ pc[i] = "acquired" /\ pc' = [pc EXCEPT ![i] = "held"]
             \/ pc[i] = "applied" /\ pc' = [pc EXCEPT ![i] = "confirmed"]
  BY <1>1, Positions
<1>2. CASE Lease!Tick \/ \E g \in cleanups : Lease!Release(g)
  BY <1>2, Zenon DEF Lease!Release, Lease!Tick
<1>3. QED
  BY <1>1, <1>2 DEF LeaseStep

\* The lease's types come from its invariant; a proposal names a task because
\* its row is linked.
LEMMA NextType ==
  ASSUME TypeOK, Linked, LeaseProof!IInv', [Next]_vars
  PROVE  TypeOK'
<1>1. Lease!TypeOK'
  BY DEF LeaseProof!IInv, LeaseProof!TypeOK, LeaseProof!LeaseRow, LeaseProof!Grant,
         LeaseProof!Phases, Lease!TypeOK, Lease!LeaseRow, Lease!Grant, Lease!Phases
<1>2. /\ repo \in Repos /\ tasks \in [Tasks -> TaskRows]
      /\ proposals \in [Proposals -> ProposalRows]
      /\ req \in [Instances -> Requests] /\ pc \in [Instances -> Lease!Phases]
  BY DEF TypeOK, Lease!TypeOK
<1>3. ASSUME NEW i \in Instances, NEW t \in Tasks, Begin(i, t) PROVE TypeOK'
  <2>1. tasks' \in [Tasks -> TaskRows]
    BY <1>2, <1>3 DEF Begin, TaskRows
  <2>2. QED
    BY <1>1, <1>3, <2>1 DEF Begin, TypeOK, leaseVars
<1>4. ASSUME NEW i \in Instances, NEW t \in Tasks, Refresh(i, t) PROVE TypeOK'
  <2>1. tasks' \in [Tasks -> TaskRows] /\ proposals' \in [Proposals -> ProposalRows]
    BY <1>2, <1>4, RowTypes DEF Refresh
  <2>2. QED
    BY <1>1, <1>4, <2>1 DEF Refresh, TypeOK, leaseVars
<1>5. ASSUME NEW i \in Instances, NEW t \in Tasks, CancelCheck(i, t) PROVE TypeOK'
  <2>1. req' \in [Instances -> Requests]
    BY <1>2, <1>5 DEF CancelCheck, Serve, Requests
  <2>2. QED
    BY <1>1, <1>2, <1>5, <2>1 DEF CancelCheck, Serve, Unlocked, TypeOK, leaseVars
<1>6. ASSUME NEW i \in Instances, NEW t \in Tasks, NEW p \in Proposals,
             ProposeCheck(i, t, p)
      PROVE  TypeOK'
  <2>1. req' \in [Instances -> Requests]
    BY <1>2, <1>6 DEF ProposeCheck, Serve, Requests
  <2>2. QED
    BY <1>1, <1>2, <1>6, <2>1 DEF ProposeCheck, Serve, Unlocked, TypeOK, leaseVars
<1>7. ASSUME NEW i \in Instances, NEW p \in Proposals, ApplyCheck(i, p) PROVE TypeOK'
  <2>1. proposals[p].task \in Tasks
    BY <1>7 DEF ApplyCheck, Linked
  <2>2. req' \in [Instances -> Requests]
    BY <1>2, <1>7, <2>1 DEF ApplyCheck, Serve, Requests
  <2>3. QED
    BY <1>1, <1>2, <1>7, <2>1, <2>2 DEF ApplyCheck, Serve, Unlocked, TypeOK, leaseVars
<1>8. ASSUME NEW i \in Instances, Cancel(i) PROVE TypeOK'
  <2>1. req[i].task \in Tasks /\ pc[i] = "idle"
    BY <1>8 DEF Cancel, TypeOK
  <2>2. tasks' \in [Tasks -> TaskRows] /\ proposals' \in [Proposals -> ProposalRows]
    BY <1>2, <1>8, <2>1, RowTypes DEF Cancel
  <2>3. QED
    BY <1>1, <1>2, <1>8, <2>1, <2>2 DEF Cancel, EndRequest, NoRequest, Requests, TypeOK, leaseVars
<1>9. ASSUME NEW i \in Instances, Propose(i) PROVE TypeOK'
  <2>1. req[i].task \in Tasks /\ req[i].proposal \in Proposals /\ pc[i] = "idle"
    BY <1>9 DEF Propose, TypeOK
  <2>2. repo.files[PathOf[req[i].proposal]] \in Contents
    BY <1>2, <2>1 DEF Repos
  <2>3. proposals' \in [Proposals -> ProposalRows]
    BY <1>2, <1>9, <2>1, <2>2 DEF Propose, ProposalRows
  <2>4. QED
    BY <1>1, <1>2, <1>9, <2>1, <2>3
    DEF Propose, EndRequest, NoRequest, Requests, TypeOK, leaseVars
<1>10. ASSUME NEW i \in Instances, TakeLease(i) PROVE TypeOK'
  BY <1>1, <1>2, <1>10, Positions DEF TakeLease, taskVars, TypeOK
<1>11. ASSUME NEW i \in Instances, Validate(i) PROVE TypeOK'
  BY <1>1, <1>2, <1>11, Positions DEF Validate, taskVars, TypeOK
<1>12. ASSUME NEW i \in Instances, GitApply(i) PROVE TypeOK'
  <2>1. pc[i] = "checked" /\ pc' = [pc EXCEPT ![i] = "applied"]
    BY <1>12, Positions DEF GitApply
  <2>2. req[i].op = "apply" /\ req[i].proposal \in Proposals
    BY <2>1 DEF TypeOK
  <2>3. repo' \in Repos
    BY <1>12, <2>2, RowTypes DEF GitApply, Contents
  <2>4. QED
    BY <1>1, <1>2, <1>12, <2>1, <2>2, <2>3 DEF GitApply, TypeOK
<1>13. ASSUME NEW i \in Instances, Record(i) PROVE TypeOK'
  <2>1. pc[i] = "confirmed" /\ pc' = [pc EXCEPT ![i] = "idle"]
    BY <1>13, Positions DEF Record
  <2>2. /\ req[i].op = "apply" /\ req[i].proposal \in Proposals
        /\ req[i].task \in Tasks
    BY <2>1 DEF TypeOK
  <2>3. req' \in [Instances -> Requests]
    BY <1>2, <1>13, <2>2 DEF Record, Serve, Requests
  <2>4. QED
    BY <1>1, <1>2, <1>13, <2>1, <2>2, <2>3 DEF Record, Serve, TypeOK
<1>14. ASSUME NEW i \in Instances, Finish(i) PROVE TypeOK'
  <2>1. req[i].task \in Tasks /\ req[i].proposal \in Proposals /\ pc[i] = "idle"
    BY <1>14 DEF Finish, TypeOK
  <2>2. tasks' \in [Tasks -> TaskRows] /\ proposals' \in [Proposals -> ProposalRows]
    BY <1>2, <1>14, <2>1, RowTypes DEF Finish
  <2>3. QED
    BY <1>1, <1>2, <1>14, <2>1, <2>2
    DEF Finish, EndRequest, NoRequest, Requests, TypeOK, leaseVars
<1>15. ASSUME NEW i \in Instances, Fail(i) PROVE TypeOK'
  BY <1>1, <1>2, <1>15 DEF Fail, EndRequest, NoRequest, Requests, TypeOK, leaseVars
<1>16. ASSUME NEW i \in Instances, FailWithLease(i) \/ Crash(i) PROVE TypeOK'
  <2>1. pc' = [pc EXCEPT ![i] = "idle"]
    BY <1>16, Positions DEF FailWithLease, Crash
  <2>2. lost' \in SUBSET LeaseIds
    BY <1>16 DEF FailWithLease, Crash, Lose, TypeOK, Lease!TypeOK, Lease!Grant
  <2>3. QED
    BY <1>1, <1>2, <1>16, <2>1, <2>2
    DEF FailWithLease, Crash, EndRequest, NoRequest, Requests, TypeOK
<1>17. CASE LeaseStep
  <2>1. \/ pc' = pc
        \/ \E i \in Instances : /\ pc[i] # "idle"
                                /\ \A j \in Instances \ {i} : pc'[j] = pc[j]
    BY <1>2, <1>17, QuietSteps
  <2>2. QED
    BY <1>1, <1>2, <1>17, <2>1 DEF LeaseStep, taskVars, TypeOK
<1>18. CASE Edit
  <2>1. repo' \in Repos
    BY <1>2, <1>18, RowTypes DEF Edit, Repos, Contents
  <2>2. QED
    BY <1>1, <1>18, <2>1 DEF Edit, TypeOK, leaseVars
<1>19. CASE UNCHANGED vars
  BY <1>1, <1>19 DEF vars, leaseVars, taskVars, TypeOK
<1>20. QED
  BY <1>3, <1>4, <1>5, <1>6, <1>7, <1>8, <1>9, <1>10, <1>11, <1>12, <1>13, <1>14, <1>15,
     <1>16, <1>17, <1>18, <1>19 DEF Next

-----------------------------------------------------------------------------
\* A step that changes no task and no proposal, and loses no patch and no
\* changeset, keeps what the rows say.
LEMMA RowsKept ==
  ASSUME TasksAgree, UNCHANGED <<tasks, proposals>>,
         patched \subseteq patched', changesets \subseteq changesets'
  PROVE  TasksAgree'
BY DEF TasksAgree, AppliedIsReal, ActiveMeansOpen

\* Every step keeps rows and requests linked, the evidence behind a request, and
\* what the rows say.
LEMMA NextTasks ==
  ASSUME TypeOK, Linked, Evidence, TasksAgree, [Next]_vars
  PROVE  Linked' /\ Evidence' /\ TasksAgree'
<1>1. /\ tasks \in [Tasks -> TaskRows]
      /\ proposals \in [Proposals -> ProposalRows]
      /\ req \in [Instances -> Requests] /\ pc \in [Instances -> Lease!Phases]
  BY DEF TypeOK, Lease!TypeOK
<1>2. \A i \in Instances :
         /\ req[i].op # "none" => req[i].task \in Tasks
         /\ req[i].op \in {"propose", "apply", "finish"} => req[i].proposal \in Proposals
         /\ pc[i] # "idle" => req[i].op = "apply"
  BY DEF TypeOK
<1>3. ASSUME NEW i \in Instances, NEW t \in Tasks, Begin(i, t)
      PROVE  Linked' /\ Evidence' /\ TasksAgree'
  <2>1. \A u \in Tasks : tasks'[u] = IF u = t THEN [status |-> "active", base |-> repo]
                                     ELSE tasks[u]
    BY <1>1, <1>3 DEF Begin
  <2>2. \A p \in Proposals : proposals[p].status # "none" => proposals[p].task # t
    BY <1>3 DEF Begin, Linked
  <2>3. Linked'
    BY <1>2, <1>3, <2>1 DEF Begin, Linked
  <2>4. Evidence'
    BY <1>3 DEF Begin, Evidence, leaseVars
  <2>5. TasksAgree'
    BY <1>1, <1>3, <2>1, <2>2 DEF Begin, TasksAgree, AppliedIsReal, ActiveMeansOpen, Linked
  <2>6. QED
    BY <2>3, <2>4, <2>5
<1>4. ASSUME NEW t \in Tasks, NEW s \in {"stale", "cancelled"},
             tasks[t].status # "none",
             tasks' = [tasks EXCEPT ![t] = Task(t, s)],
             proposals' = RejectPending(t),
             UNCHANGED <<changesets, patched>>
      PROVE  /\ TasksAgree'
             /\ \A u \in Tasks : tasks[u].status # "none" => tasks'[u].status # "none"
             /\ \A p \in Proposals :
                   /\ proposals'[p].task = proposals[p].task
                   /\ (proposals'[p].status = "none") <=> (proposals[p].status = "none")
  <2>1. \A u \in Tasks : tasks'[u].status = IF u = t THEN s ELSE tasks[u].status
    BY <1>1, <1>4 DEF Task
  <2>2. \A p \in Proposals :
           /\ proposals'[p].task = proposals[p].task
           /\ \/ proposals'[p].status = proposals[p].status
              \/ /\ proposals[p].status = "proposed" /\ proposals[p].task = t
                 /\ proposals'[p].status = "rejected"
    BY <1>4 DEF RejectPending, Proposal
  <2>3. AppliedIsReal'
    BY <1>4, <2>1, <2>2 DEF TasksAgree, AppliedIsReal
  <2>4. ActiveMeansOpen'
    BY <1>4, <2>1, <2>2 DEF TasksAgree, ActiveMeansOpen, Linked
  <2>5. QED
    BY <2>1, <2>2, <2>3, <2>4 DEF TasksAgree
<1>5. ASSUME NEW i \in Instances, NEW t \in Tasks, Refresh(i, t)
      PROVE  Linked' /\ Evidence' /\ TasksAgree'
  <2>1. tasks[t].status # "none"
    BY <1>5 DEF Refresh, Drifted
  <2>2. /\ TasksAgree'
        /\ \A u \in Tasks : tasks[u].status # "none" => tasks'[u].status # "none"
        /\ \A p \in Proposals :
              /\ proposals'[p].task = proposals[p].task
              /\ (proposals'[p].status = "none") <=> (proposals[p].status = "none")
    BY <1>4, <1>5, <2>1 DEF Refresh
  <2>3. Linked' /\ Evidence'
    BY <1>2, <1>5, <2>2 DEF Refresh, Linked, Evidence, leaseVars
  <2>4. QED
    BY <2>2, <2>3
<1>6. ASSUME NEW i \in Instances, Cancel(i)
      PROVE  Linked' /\ Evidence' /\ TasksAgree'
  <2>1. req[i].task \in Tasks /\ tasks[req[i].task].status # "none"
    BY <1>2, <1>6 DEF Cancel, Linked
  <2>2. /\ TasksAgree'
        /\ \A u \in Tasks : tasks[u].status # "none" => tasks'[u].status # "none"
        /\ \A p \in Proposals :
              /\ proposals'[p].task = proposals[p].task
              /\ (proposals'[p].status = "none") <=> (proposals[p].status = "none")
    BY <1>4, <1>6, <2>1 DEF Cancel
  <2>3. Linked' /\ Evidence'
    BY <1>1, <1>2, <1>6, <2>2
    DEF Cancel, Linked, Evidence, leaseVars, EndRequest, NoRequest
  <2>4. QED
    BY <2>2, <2>3
<1>7. ASSUME NEW i \in Instances, NEW t \in Tasks, CancelCheck(i, t)
      PROVE  Linked' /\ Evidence' /\ TasksAgree'
  <2>1. TasksAgree'
    BY <1>7, RowsKept DEF CancelCheck
  <2>2. Linked' /\ Evidence'
    BY <1>1, <1>2, <1>7 DEF CancelCheck, Serve, Unlocked, Linked, Evidence, leaseVars
  <2>3. QED
    BY <2>1, <2>2
<1>8. ASSUME NEW i \in Instances, NEW t \in Tasks, NEW p \in Proposals, ProposeCheck(i, t, p)
      PROVE  Linked' /\ Evidence' /\ TasksAgree'
  <2>1. TasksAgree'
    BY <1>8, RowsKept DEF ProposeCheck
  <2>2. Linked' /\ Evidence'
    BY <1>1, <1>2, <1>8 DEF ProposeCheck, Serve, Unlocked, Linked, Evidence, leaseVars
  <2>3. QED
    BY <2>1, <2>2
<1>9. ASSUME NEW i \in Instances, NEW p \in Proposals, ApplyCheck(i, p)
      PROVE  Linked' /\ Evidence' /\ TasksAgree'
  <2>1. TasksAgree'
    BY <1>9, RowsKept DEF ApplyCheck
  <2>2. Linked' /\ Evidence'
    BY <1>1, <1>2, <1>9 DEF ApplyCheck, Serve, Unlocked, Linked, Evidence, leaseVars
  <2>3. QED
    BY <2>1, <2>2
<1>10. ASSUME NEW i \in Instances, Propose(i)
       PROVE  Linked' /\ Evidence' /\ TasksAgree'
  <2> DEFINE t == req[i].task
             q == req[i].proposal
  <2>1. t \in Tasks /\ q \in Proposals /\ tasks[t].status # "none"
    BY <1>2, <1>10 DEF Propose, Linked
  <2>2. /\ proposals[q].status = "none"
        /\ proposals'[q].status = "proposed" /\ proposals'[q].task = t
        /\ \A p \in Proposals \ {q} : proposals'[p] = proposals[p]
    BY <1>1, <1>10, <2>1 DEF Propose
  <2>3. Linked' /\ Evidence'
    BY <1>1, <1>2, <1>10, <2>1, <2>2
    DEF Propose, Linked, Evidence, leaseVars, EndRequest, NoRequest
  <2>4. AppliedIsReal'
    BY <1>10, <2>1, <2>2 DEF Propose, TasksAgree, AppliedIsReal
  <2>5. ActiveMeansOpen'
    BY <1>10, <2>1, <2>2 DEF Propose, TasksAgree, ActiveMeansOpen
  <2>6. QED
    BY <2>3, <2>4, <2>5 DEF TasksAgree
<1>11. ASSUME NEW i \in Instances, TakeLease(i) \/ Validate(i)
       PROVE  Linked' /\ Evidence' /\ TasksAgree'
  <2>1. /\ UNCHANGED taskVars
        /\ \E s \in {"acquired", "checked"} : pc' = [pc EXCEPT ![i] = s]
    BY <1>11, Positions DEF TakeLease, Validate
  <2>2. QED
    BY <1>1, <2>1, RowsKept DEF taskVars, Linked, Evidence
<1>12. ASSUME NEW i \in Instances, GitApply(i)
       PROVE  Linked' /\ Evidence' /\ TasksAgree'
  <2>1. pc' = [pc EXCEPT ![i] = "applied"]
    BY <1>12, Positions DEF GitApply
  <2>2. QED
    BY <1>1, <1>12, <2>1, RowsKept DEF GitApply, Linked, Evidence
<1>13. ASSUME NEW i \in Instances, Record(i)
       PROVE  Linked' /\ Evidence' /\ TasksAgree'
  <2>1. pc[i] = "confirmed" /\ pc' = [pc EXCEPT ![i] = "idle"]
    BY <1>13, Positions DEF Record
  <2>2. QED
    BY <1>1, <1>2, <1>13, <2>1, RowsKept DEF Record, Serve, Linked, Evidence
<1>14. ASSUME NEW i \in Instances, Finish(i)
       PROVE  Linked' /\ Evidence' /\ TasksAgree'
  <2> DEFINE t == req[i].task
             q == req[i].proposal
  <2>1. /\ t \in Tasks /\ q \in Proposals /\ tasks[t].status # "none"
        /\ proposals[q].task = t /\ proposals[q].status # "none"
        /\ q \in patched /\ q \in changesets
    BY <1>2, <1>14 DEF Finish, Linked, Evidence
  <2>2. \A p \in Proposals :
           /\ proposals'[p].task = proposals[p].task
           /\ proposals'[p].status =
                IF p = q /\ proposals[p].status = "proposed" THEN "applied"
                ELSE proposals[p].status
    BY <1>1, <1>14, <2>1 DEF Finish, Proposal
  <2>3. \A u \in Tasks : tasks'[u].status =
                IF u = t /\ tasks[u].status = "active" THEN "applied" ELSE tasks[u].status
    BY <1>1, <1>14, <2>1 DEF Finish, Task
  <2>4. Linked' /\ Evidence'
    <3>1. /\ \A j \in Instances : req'[j].op # "none" => req'[j] = req[j]
          /\ \A j \in Instances : j # i => req'[j] = req[j]
          /\ req'[i].op = "none" /\ req[i].op = "finish"
          /\ pc' = pc /\ patched' = patched /\ changesets' = changesets
      BY <1>1, <1>14 DEF Finish, leaseVars, EndRequest, NoRequest
    <3>2. \A p \in Proposals : proposals'[p].status # "none" => proposals[p].status # "none"
      BY <2>1, <2>2
    <3>3. \A u \in Tasks : tasks[u].status # "none" => tasks'[u].status # "none"
      BY <2>3
    <3>4. Linked'
      <4>1. \A p \in Proposals : proposals'[p].status # "none" =>
               proposals'[p].task \in Tasks /\ tasks'[proposals'[p].task].status # "none"
        BY <1>2, <2>2, <3>2, <3>3 DEF Linked
      <4>2. \A j \in Instances : req'[j].op # "none" => tasks'[req'[j].task].status # "none"
        BY <1>1, <1>2, <2>1, <2>3, <3>1 DEF Linked, TypeOK
      <4>3. \A j \in Instances : req'[j].op \in {"apply", "finish"} =>
               /\ proposals'[req'[j].proposal].status # "none"
               /\ proposals'[req'[j].proposal].task = req'[j].task
        BY <1>1, <1>2, <2>1, <2>2, <3>1 DEF Linked, TypeOK
      <4>4. QED
        BY <4>1, <4>2, <4>3 DEF Linked
    <3>5. Evidence'
      BY <1>2, <3>1 DEF Evidence
    <3>6. QED
      BY <3>4, <3>5
  <2>5. AppliedIsReal'
    <3>1. \A p \in Proposals : proposals'[p].status = "applied"
                                  => p \in patched' /\ p \in changesets'
      BY <1>14, <2>1, <2>2 DEF Finish, TasksAgree, AppliedIsReal
    <3>2. tasks[t].status = "active" => proposals'[q].status = "applied"
      BY <1>1, <2>1, <2>2 DEF TasksAgree, ActiveMeansOpen, ProposalRows
    <3>3. QED
      BY <2>1, <2>2, <2>3, <3>1, <3>2 DEF TasksAgree, AppliedIsReal
  <2>6. ActiveMeansOpen'
    BY <2>1, <2>2, <2>3 DEF TasksAgree, ActiveMeansOpen, Linked
  <2>7. QED
    BY <2>4, <2>5, <2>6 DEF TasksAgree
<1>15. ASSUME NEW i \in Instances, Fail(i) \/ FailWithLease(i) \/ Crash(i)
       PROVE  Linked' /\ Evidence' /\ TasksAgree'
  <2>1. pc' = pc \/ pc' = [pc EXCEPT ![i] = "idle"]
    BY <1>15, Positions DEF Fail, FailWithLease, Crash, leaseVars
  <2>2. /\ req' = [req EXCEPT ![i] = NoRequest]
        /\ UNCHANGED <<tasks, proposals, changesets, patched>>
    BY <1>15 DEF Fail, FailWithLease, Crash, EndRequest
  <2>3. Linked'
    BY <1>1, <2>2 DEF Linked, NoRequest
  <2>4. Evidence'
    <3>1. pc'[i] \notin {"applied", "confirmed"}
      BY <1>1, <1>2, <1>15, <2>1, Positions DEF Fail, FailWithLease, Crash
    <3>2. QED
      BY <1>1, <2>1, <2>2, <3>1 DEF Evidence, NoRequest
  <2>5. QED
    BY <2>2, <2>3, <2>4, RowsKept
<1>16. CASE LeaseStep
  BY <1>1, <1>16, QuietSteps, RowsKept DEF LeaseStep, taskVars, Linked, Evidence
<1>17. CASE Edit \/ UNCHANGED vars
  BY <1>17, RowsKept DEF Edit, vars, leaseVars, taskVars, Linked, Evidence
<1>18. QED
  BY <1>3, <1>5, <1>6, <1>7, <1>8, <1>9, <1>10, <1>11, <1>12, <1>13, <1>14, <1>15,
     <1>16, <1>17 DEF Next

\* The invariant of the rows of any number of processes.
LEMMA TasksKept == Spec => []TaskInv
<1>1. Init => TaskInv
  BY InitType DEF Init, TaskInv, Linked, Evidence, TasksAgree, AppliedIsReal,
     ActiveMeansOpen, NoRequest, Lease!Init
<1>2. TaskInv /\ LeaseProof!IInv' /\ [Next]_vars => TaskInv'
  BY NextType, NextTasks DEF TaskInv
<1>3. QED
  BY <1>1, <1>2, LeaseInvariant, PTL DEF Spec

\* Rows, requests and leases keep their types over every interleaving.
THEOREM TypeCorrect == Spec => []TypeOK
BY TasksKept, PTL DEF TaskInv

\* 'applied' is never claimed for a patch that git did not apply or that has no
\* changeset, and an active task has only open proposals, for any number of
\* processes, crashes, lost leases and edits (TaskTransactionService::apply_patch).
THEOREM Agreement == Spec => []TasksAgree
BY TasksKept, PTL DEF TaskInv

-----------------------------------------------------------------------------
\* Returning with the token that is in the row leaves a release that will hit it.
LEMMA DropGivesBack ==
  ASSUME TypeOK, LeaseProof!IInv, LeaseGivenBack, NEW i \in Instances,
         pc[i] \in Lease!Holding, Lease!Drop(i), UNCHANGED lost
  PROVE  LeaseGivenBack'
<1>1. /\ pc' = [pc EXCEPT ![i] = "idle"] /\ my' = [my EXCEPT ![i] = Lease!NoGrant(i)]
      /\ renewing' = [renewing EXCEPT ![i] = FALSE]
      /\ cleanups' = cleanups \cup {my[i]} /\ row' = row /\ lost' = lost
  BY DEF Lease!Drop
<1>2. /\ pc \in [Instances -> Lease!Phases] /\ renewing \in [Instances -> BOOLEAN]
      /\ my \in [Instances -> Lease!Grant]
  BY DEF TypeOK, Lease!TypeOK
<1>3. \A j \in Instances : renewing'[j] => pc'[j] \in Lease!Holding
  BY <1>1, <1>2 DEF LeaseGivenBack
<1>4. row.lease = my[i].lease /\ row.lease # NoLease => Lease!Matches(my[i])
  BY DEF LeaseProof!IInv, LeaseProof!Ownership, LeaseProof!TokenOrder,
         LeaseProof!Holding, Lease!Holding, Lease!Matches
<1>5. ASSUME row.lease \notin {NoLease} \cup lost, ~ \E g \in cleanups : Lease!Matches(g),
             row.lease # my[i].lease
      PROVE  (\E j \in Instances : Lease!LiveHolder(j))'
  BY <1>1, <1>2, <1>5 DEF LeaseGivenBack, Lease!LiveHolder
<1>6. (\E g \in cleanups : Lease!Matches(g)) => (\E g \in cleanups : Lease!Matches(g))'
  BY <1>1 DEF Lease!Matches
<1>7. row.lease = my[i].lease /\ row.lease # NoLease => (\E g \in cleanups : Lease!Matches(g))'
  BY <1>1, <1>4 DEF Lease!Matches
<1>8. QED
  BY <1>1, <1>3, <1>5, <1>6, <1>7 DEF LeaseGivenBack

\* Every step of the service keeps account of the lease in the row.
LEMMA NextGivenBack ==
  ASSUME TypeOK, LeaseProof!IInv, LeaseGivenBack, [Next]_vars
  PROVE  LeaseGivenBack'
<1>1. /\ pc \in [Instances -> Lease!Phases] /\ renewing \in [Instances -> BOOLEAN]
      /\ my \in [Instances -> Lease!Grant]
  BY DEF TypeOK, Lease!TypeOK
<1>2. ASSUME NEW i \in Instances, TakeLease(i) PROVE LeaseGivenBack'
  <2>1. /\ pc[i] = "idle" /\ pc' = [pc EXCEPT ![i] = "acquired"]
        /\ renewing' = renewing /\ row'.lease = my'[i].lease
    BY <1>1, <1>2 DEF TakeLease, Lease!Acquire
  <2>2. QED
    BY <1>1, <2>1 DEF LeaseGivenBack, Lease!LiveHolder, Lease!Holding
<1>3. ASSUME NEW i \in Instances,
             Lease!ReadToken(i) \/ Validate(i) \/ GitApply(i) \/ Lease!AssertAfter(i),
             UNCHANGED lost
      PROVE  LeaseGivenBack'
  <2>1. /\ \E s \in Lease!Holding : pc' = [pc EXCEPT ![i] = s]
        /\ \/ renewing' = renewing
           \/ renewing' = [renewing EXCEPT ![i] = TRUE]
        /\ \A j \in Instances : my'[j].lease = my[j].lease
        /\ UNCHANGED <<row, cleanups>>
    <3>1. CASE Lease!ReadToken(i)
      <4>1. \A j \in Instances : my'[j].lease = my[j].lease
        BY <1>1, <3>1 DEF Lease!ReadToken, Lease!Grant
      <4>2. QED
        BY <3>1, <4>1 DEF Lease!ReadToken, Lease!Holding
    <3>2. CASE Validate(i)
      BY <3>2 DEF Validate, Lease!AssertBefore, Lease!Proceed, Lease!Holding
    <3>3. CASE GitApply(i)
      BY <3>3 DEF GitApply, Lease!GitApply, Lease!Proceed, Lease!Holding
    <3>4. CASE Lease!AssertAfter(i)
      BY <3>4 DEF Lease!AssertAfter, Lease!Proceed, Lease!Holding
    <3>5. QED
      BY <1>3, <3>1, <3>2, <3>3, <3>4
  <2>2. QED
    BY <1>1, <1>3, <2>1 DEF LeaseGivenBack, Lease!LiveHolder, Lease!Matches, Lease!Holding
<1>4. ASSUME NEW i \in Instances, Record(i) PROVE LeaseGivenBack'
  BY <1>4, DropGivesBack DEF Record, Lease!Record, Lease!Holding
<1>5. ASSUME NEW i \in Instances,
             pc' = [pc EXCEPT ![i] = "idle"], my' = [my EXCEPT ![i] = Lease!NoGrant(i)],
             \/ (renewing' = renewing /\ pc[i] = "acquired")
             \/ renewing' = [renewing EXCEPT ![i] = FALSE],
             row' = row, lost \subseteq lost',
             my[i].lease \in lost' \cup {NoLease},
             \A g \in cleanups : g \in cleanups' \/ g.lease \in lost' \cup {NoLease}
      PROVE  LeaseGivenBack'
  <2>1. \A j \in Instances : renewing'[j] => pc'[j] \in Lease!Holding
    BY <1>1, <1>5 DEF LeaseGivenBack, Lease!Holding
  <2>2. \A j \in Instances : Lease!LiveHolder(j)
           => Lease!LiveHolder(j)' \/ row'.lease \in {NoLease} \cup lost'
    BY <1>1, <1>5 DEF Lease!LiveHolder
  <2>3. \A g \in cleanups : Lease!Matches(g)
           => (\E h \in cleanups : Lease!Matches(h))' \/ row'.lease \in {NoLease} \cup lost'
    BY <1>5 DEF Lease!Matches
  <2>4. QED
    BY <1>5, <2>1, <2>2, <2>3 DEF LeaseGivenBack
<1>6. ASSUME NEW i \in Instances, FailWithLease(i) PROVE LeaseGivenBack'
  <2>1. CASE Lease!ReadTokenFails(i) /\ Lose({my[i]})
    BY <1>5, <2>1 DEF Lease!ReadTokenFails, Lose
  <2>2. CASE (Lease!AssertLost(i) \/ Lease!Abandon(i)) /\ UNCHANGED lost
    BY <2>2, DropGivesBack DEF Lease!AssertLost, Lease!Abandon, Lease!Holding
  <2>3. QED
    BY <1>6, <2>1, <2>2 DEF FailWithLease
<1>7. ASSUME NEW i \in Instances, Crash(i) PROVE LeaseGivenBack'
  BY <1>5, <1>7 DEF Crash, Lease!Crash, Lose
<1>8. ASSUME NEW i \in Instances, Lease!Renew(i) \/ Lease!RenewStops(i), UNCHANGED lost
      PROVE  LeaseGivenBack'
  <2>1. /\ pc' = pc /\ my' = my /\ cleanups' = cleanups
        /\ \A j \in Instances : renewing'[j] => renewing[j]
        /\ row'.lease = row.lease /\ row'.owner = row.owner /\ row'.token = row.token
    BY <1>1, <1>8 DEF Lease!Renew, Lease!RenewStops, TypeOK, Lease!TypeOK, Lease!LeaseRow
  <2>2. QED
    BY <1>8, <2>1 DEF LeaseGivenBack, Lease!LiveHolder, Lease!Matches
<1>9. ASSUME NEW g \in cleanups, Lease!Release(g), UNCHANGED lost PROVE LeaseGivenBack'
  <2>1. /\ pc' = pc /\ my' = my /\ renewing' = renewing /\ cleanups' = cleanups \ {g}
        /\ Lease!Matches(g) => row'.lease = NoLease
        /\ ~Lease!Matches(g) => row' = row
    BY <1>9 DEF Lease!Release, TypeOK, Lease!TypeOK, Lease!LeaseRow
  <2>2. QED
    BY <1>9, <2>1 DEF LeaseGivenBack, Lease!LiveHolder, Lease!Matches
<1>10. CASE Lease!Tick /\ UNCHANGED lost
  <2>1. /\ UNCHANGED <<pc, my, renewing, cleanups>>
        /\ row'.lease = row.lease /\ row'.owner = row.owner /\ row'.token = row.token
    BY <1>10 DEF Lease!Tick, TypeOK, Lease!TypeOK, Lease!LeaseRow
  <2>2. QED
    BY <1>10, <2>1 DEF LeaseGivenBack, Lease!LiveHolder, Lease!Matches
<1>11. ASSUME UNCHANGED <<leaseVars, lost>> PROVE LeaseGivenBack'
  BY <1>11 DEF leaseVars, LeaseGivenBack, Lease!LiveHolder, Lease!Matches
<1>12. CASE LeaseStep
  BY <1>3, <1>8, <1>9, <1>10, <1>12 DEF LeaseStep, taskVars
<1>13. ASSUME NEW i \in Instances, NEW t \in Tasks, NEW p \in Proposals,
              ProposeCheck(i, t, p)
       PROVE  LeaseGivenBack'
  BY <1>11, <1>13 DEF ProposeCheck
<1>14. ASSUME NEW i \in Instances, NEW t \in Tasks,
              Begin(i, t) \/ Refresh(i, t) \/ CancelCheck(i, t)
       PROVE  LeaseGivenBack'
  BY <1>11, <1>14 DEF Begin, Refresh, CancelCheck
<1>15. ASSUME NEW i \in Instances, NEW p \in Proposals, ApplyCheck(i, p)
       PROVE  LeaseGivenBack'
  BY <1>11, <1>15 DEF ApplyCheck
<1>16. ASSUME NEW i \in Instances, Cancel(i) \/ Propose(i) \/ Finish(i) \/ Fail(i)
       PROVE  LeaseGivenBack'
  BY <1>11, <1>16 DEF Cancel, Propose, Finish, Fail
<1>17. CASE Edit \/ UNCHANGED vars
  BY <1>11, <1>17 DEF Edit, vars, taskVars
<1>18. ASSUME NEW i \in Instances, Validate(i) \/ GitApply(i) PROVE LeaseGivenBack'
  BY <1>3, <1>18 DEF Validate, GitApply, taskVars
<1>19. QED
  BY <1>2, <1>4, <1>6, <1>7, <1>12, <1>13, <1>14, <1>15, <1>16, <1>17, <1>18 DEF Next

\* A lease that the row still names belongs to a running request, to a release
\* under way that will hit the row, or to one that died or never read its token:
\* no way out of AppState::apply_patch_locked forgets it, and none is renewed
\* after its request returned.
THEOREM GivenBack == Spec => []LeaseGivenBack
<1>1. Init => LeaseGivenBack
  BY DEF Init, Lease!Init, LeaseGivenBack
<1>2. TaskInv /\ LeaseProof!IInv /\ LeaseGivenBack /\ [Next]_vars => LeaseGivenBack'
  BY NextGivenBack DEF TaskInv
<1>3. QED
  BY <1>1, <1>2, TasksKept, LeaseInvariant, PTL DEF Spec

-----------------------------------------------------------------------------
\* While renewals keep up, one request at a time is past its upsert.
LEMMA OneHolder ==
  ASSUME LeaseProof!IInv, Timely, NEW i \in Instances, NEW j \in Instances,
         pc[i] # "idle", pc[j] # "idle"
  PROVE  i = j
BY DEF LeaseProof!IInv, LeaseProof!Ownership, LeaseProof!KeptUp

\* No step changes the content that a stored proposal was reviewed against.
LEMMA WantKept ==
  ASSUME TypeOK, Linked, [Next]_vars, NEW q \in Proposals, proposals[q].status # "none"
  PROVE  proposals'[q].want = proposals[q].want
<1>1. proposals \in [Proposals -> ProposalRows]
  BY DEF TypeOK
<1>2. ASSUME NEW t, proposals' = RejectPending(t)
      PROVE  proposals'[q].want = proposals[q].want
  BY <1>2 DEF RejectPending, Proposal
<1>3. ASSUME NEW i \in Instances, NEW t \in Tasks,
             Begin(i, t) \/ Refresh(i, t) \/ CancelCheck(i, t)
      PROVE  proposals'[q].want = proposals[q].want
  BY <1>2, <1>3 DEF Begin, Refresh, CancelCheck
<1>4. ASSUME NEW i \in Instances, NEW p \in Proposals,
             ApplyCheck(i, p) \/ \E t \in Tasks : ProposeCheck(i, t, p)
      PROVE  proposals'[q].want = proposals[q].want
  BY <1>4 DEF ApplyCheck, ProposeCheck
<1>5. ASSUME NEW i \in Instances, Cancel(i)
      PROVE  proposals'[q].want = proposals[q].want
  BY <1>2, <1>5 DEF Cancel
<1>6. ASSUME NEW i \in Instances, Propose(i)
      PROVE  proposals'[q].want = proposals[q].want
  BY <1>1, <1>6 DEF Propose, TypeOK
<1>7. ASSUME NEW i \in Instances, Finish(i)
      PROVE  proposals'[q].want = proposals[q].want
  BY <1>1, <1>7 DEF Finish, Proposal
<1>8. ASSUME NEW i \in Instances,
             \/ TakeLease(i) \/ Validate(i) \/ GitApply(i) \/ Record(i)
             \/ Fail(i) \/ FailWithLease(i) \/ Crash(i)
      PROVE  proposals'[q].want = proposals[q].want
  BY <1>8 DEF TakeLease, Validate, GitApply, Record, Fail, FailWithLease, Crash, taskVars
<1>9. CASE LeaseStep \/ Edit \/ UNCHANGED vars
  BY <1>9 DEF LeaseStep, Edit, vars, taskVars
<1>10. QED
  BY <1>3, <1>4, <1>5, <1>6, <1>7, <1>8, <1>9 DEF Next

\* Only git apply changes a file while nobody edits, and its lease keeps every
\* other request out.
LEMMA NextReviewed ==
  ASSUME TypeOK, Linked, LeaseProof!IInv, Reviewed, [Next]_vars
  PROVE  Reviewed'
<1> SUFFICES ASSUME Timely, edits' = 0, NEW k \in Instances, pc'[k] = "checked"
             PROVE  repo'.files[PathOf[req'[k].proposal]] = proposals'[req'[k].proposal].want
  BY DEF Reviewed
<1>1. pc \in [Instances -> Lease!Phases] /\ req \in [Instances -> Requests] /\ edits \in Nat
  BY DEF TypeOK, Lease!TypeOK
<1>2. pc[k] # "idle" => /\ req[k].op = "apply" /\ req[k].proposal \in Proposals
                        /\ proposals[req[k].proposal].status # "none"
  BY DEF TypeOK, Linked
<1>3. ASSUME pc[k] = "checked", edits = 0, repo' = repo, req'[k] = req[k]
      PROVE  repo'.files[PathOf[req'[k].proposal]] = proposals'[req'[k].proposal].want
  BY <1>2, <1>3, WantKept DEF Reviewed
<1> DEFINE Goal == repo'.files[PathOf[req'[k].proposal]] = proposals'[req'[k].proposal].want
<1> HIDE DEF Goal
<1>4. ASSUME NEW i \in Instances, NEW t \in Tasks,
             Begin(i, t) \/ Refresh(i, t) \/ CancelCheck(i, t)
      PROVE  Goal
  BY <1>1, <1>2, <1>3, <1>4 DEF Goal, Begin, Refresh, CancelCheck, Serve, Unlocked, leaseVars
<1>5. ASSUME NEW i \in Instances, NEW p \in Proposals,
             ApplyCheck(i, p) \/ \E t \in Tasks : ProposeCheck(i, t, p)
      PROVE  Goal
  BY <1>1, <1>2, <1>3, <1>5 DEF Goal, ApplyCheck, ProposeCheck, Serve, Unlocked, leaseVars
<1>6. ASSUME NEW i \in Instances, Cancel(i) \/ Propose(i) \/ Finish(i) \/ Fail(i)
      PROVE  Goal
  <2>1. pc'[k] = pc[k] /\ repo' = repo /\ edits' = edits /\ req' = [req EXCEPT ![i] = NoRequest]
    BY <1>6 DEF Cancel, Propose, Finish, Fail, EndRequest, leaseVars
  <2>2. i # k
    BY <1>2, <1>6, <2>1 DEF Cancel, Propose, Finish, Fail
  <2>3. QED
    BY <1>1, <1>3, <2>1, <2>2 DEF Goal
<1>7. ASSUME NEW i \in Instances, TakeLease(i)
      PROVE  Goal
  <2>1. pc' = [pc EXCEPT ![i] = "acquired"]
    BY <1>7, Positions DEF TakeLease
  <2>2. QED
    BY <1>1, <1>3, <1>7, <2>1 DEF Goal, TakeLease, taskVars
<1>8. ASSUME NEW i \in Instances, Validate(i)
      PROVE  Goal
  <2>1. pc[i] = "held" /\ pc' = [pc EXCEPT ![i] = "checked"]
    BY <1>8, Positions DEF Validate
  <2>2. CASE i = k
    BY <1>8, <2>2 DEF Goal, Validate, Applicable, taskVars
  <2>3. CASE i # k
    BY <1>1, <1>3, <1>8, <2>1, <2>3 DEF Goal, Validate, taskVars
  <2>4. QED
    BY <2>2, <2>3
<1>9. ASSUME NEW i \in Instances, GitApply(i)
      PROVE  Goal
  <2>1. pc[i] = "checked" /\ pc' = [pc EXCEPT ![i] = "applied"]
    BY <1>9, Positions DEF GitApply
  <2>2. i # k /\ pc[k] = "checked"
    BY <1>1, <2>1
  <2>3. QED
    BY <2>1, <2>2, OneHolder
<1>10. ASSUME NEW i \in Instances, Record(i) \/ FailWithLease(i) \/ Crash(i)
       PROVE  Goal
  <2>1. /\ pc' = [pc EXCEPT ![i] = "idle"]
        /\ repo' = repo /\ edits' = edits
        /\ \A j \in Instances \ {i} : req'[j] = req[j]
    BY <1>1, <1>10, Positions DEF Record, FailWithLease, Crash, Serve, EndRequest
  <2>2. QED
    BY <1>1, <1>3, <2>1 DEF Goal
<1>11. CASE LeaseStep
  BY <1>1, <1>3, <1>11, QuietSteps DEF Goal, LeaseStep, taskVars
<1>12. CASE Edit
  BY <1>1, <1>12 DEF Edit
<1>13. CASE UNCHANGED vars
  BY <1>3, <1>13 DEF Goal, vars, leaseVars, taskVars
<1>14. QED
  BY <1>4, <1>5, <1>6, <1>7, <1>8, <1>9, <1>10, <1>11, <1>12, <1>13 DEF Next, Goal

\* git apply runs on exactly the content that was reviewed, between any number of
\* processes and over crashes, while leases are renewed in time and no editor
\* interferes: no patch goes in twice, and none over another one
\* (AppState::apply_patch_locked).
THEOREM ReviewedContent == Spec => AppliesReviewedContent
<1>1. Init => Reviewed
  BY DEF Init, Reviewed, Lease!Init
<1>2. TaskInv /\ LeaseProof!IInv /\ Reviewed /\ [Next]_vars => Reviewed'
  BY NextReviewed DEF TaskInv
<1>3. Reviewed => ReviewedContentStep
  BY DEF Reviewed, ReviewedContentStep
<1>4. QED
  BY <1>1, <1>2, <1>3, TasksKept, LeaseInvariant, PTL DEF Spec, AppliesReviewedContent

-----------------------------------------------------------------------------
\* A step that changes no row and reports nothing keeps what the rows say.
LEMMA BooksKept ==
  ASSUME AloneInv, UNCHANGED <<tasks, proposals, reported>>
  PROVE  OneAppliedPerTask' /\ ClosedHasNoOpenProposal' /\ ReportedIsApplied'
BY DEF AloneInv, OneAppliedPerTask, ClosedHasNoOpenProposal, ReportedIsApplied

\* The UPDATEs of a refresh or a cancellation close a task with its proposals.
LEMMA CloseKeepsBooks ==
  ASSUME TypeOK, Linked, AloneInv, NEW t \in Tasks, NEW s \in {"stale", "cancelled"},
         tasks' = [tasks EXCEPT ![t] = Task(t, s)],
         proposals' = RejectPending(t), reported' = reported
  PROVE  OneAppliedPerTask' /\ ClosedHasNoOpenProposal' /\ ReportedIsApplied'
<1>1. tasks \in [Tasks -> TaskRows]
  BY DEF TypeOK
<1>2. \A u \in Tasks : tasks'[u].status = IF u = t THEN s ELSE tasks[u].status
  BY <1>1 DEF Task
<1>3. \A p \in Proposals :
         /\ proposals'[p].task = proposals[p].task
         /\ proposals'[p].status =
               IF proposals[p].task = t /\ proposals[p].status = "proposed"
               THEN "rejected" ELSE proposals[p].status
  BY DEF RejectPending, Proposal
<1>4. OneAppliedPerTask'
  BY <1>3 DEF AloneInv, OneAppliedPerTask
<1>5. ClosedHasNoOpenProposal'
  BY <1>2, <1>3 DEF AloneInv, ClosedHasNoOpenProposal, Linked
<1>6. ReportedIsApplied'
  BY <1>3 DEF AloneInv, ReportedIsApplied, TypeOK
<1>7. QED
  BY <1>4, <1>5, <1>6

\* With one process nothing gets between a request's check and its transaction.
LEMMA NextAlone ==
  ASSUME Alone, TypeOK, Linked, TasksAgree, AloneInv, [Next]_vars
  PROVE  AloneInv'
<1>1. /\ tasks \in [Tasks -> TaskRows]
      /\ proposals \in [Proposals -> ProposalRows]
      /\ req \in [Instances -> Requests] /\ pc \in [Instances -> Lease!Phases]
  BY DEF TypeOK, Lease!TypeOK
<1>2. \A i \in Instances :
         /\ req[i].op # "none" => req[i].task \in Tasks
         /\ req[i].op \in {"propose", "apply", "finish"} => req[i].proposal \in Proposals
         /\ pc[i] # "idle" => req[i].op = "apply"
  BY DEF TypeOK
<1>3. \A i, j \in Instances : i = j
  BY DEF Alone
\* The only process has no request after the step.
<1>4. ASSUME NEW i \in Instances,
             req'[i].op = "none" \/ (req' = req /\ req[i].op = "none") \/ EndRequest(i)
      PROVE  CheckHolds'
  BY <1>1, <1>3, <1>4 DEF CheckHolds, EndRequest, NoRequest
<1>5. ASSUME NEW i \in Instances, NEW t \in Tasks, Begin(i, t) PROVE AloneInv'
  <2>1. CheckHolds'
    BY <1>4, <1>5 DEF Begin, Unlocked
  <2>2. \A u \in Tasks : tasks'[u].status = IF u = t THEN "active" ELSE tasks[u].status
    BY <1>1, <1>5 DEF Begin
  <2>3. OneAppliedPerTask' /\ ClosedHasNoOpenProposal' /\ ReportedIsApplied'
    BY <1>5, <2>2 DEF Begin, Linked, AloneInv, OneAppliedPerTask, ClosedHasNoOpenProposal,
                      ReportedIsApplied
  <2>4. QED
    BY <2>1, <2>3 DEF AloneInv
<1>6. ASSUME NEW i \in Instances, NEW t \in Tasks, Refresh(i, t) PROVE AloneInv'
  <2>1. CheckHolds'
    BY <1>4, <1>6 DEF Refresh, Unlocked
  <2>2. QED
    BY <1>6, <2>1, CloseKeepsBooks DEF Refresh, AloneInv
<1>7. ASSUME NEW i \in Instances, Cancel(i) PROVE AloneInv'
  <2>1. CheckHolds'
    BY <1>4, <1>7 DEF Cancel
  <2>2. req[i].task \in Tasks
    BY <1>2, <1>7 DEF Cancel
  <2>3. QED
    BY <1>7, <2>1, <2>2, CloseKeepsBooks DEF Cancel, AloneInv
<1>8. ASSUME NEW i \in Instances, NEW t \in Tasks, NEW p \in Proposals,
             ProposeCheck(i, t, p)
      PROVE  AloneInv'
  <2>1. CheckHolds'
    BY <1>1, <1>3, <1>8 DEF ProposeCheck, Serve, CheckHolds
  <2>2. QED
    BY <1>8, <2>1, BooksKept DEF ProposeCheck, AloneInv
<1>9. ASSUME NEW i \in Instances, NEW t \in Tasks, CancelCheck(i, t) PROVE AloneInv'
  <2>1. CheckHolds'
    BY <1>1, <1>3, <1>9 DEF CancelCheck, Serve, CheckHolds
  <2>2. QED
    BY <1>9, <2>1, BooksKept DEF CancelCheck, AloneInv
<1>10. ASSUME NEW i \in Instances, NEW p \in Proposals, ApplyCheck(i, p) PROVE AloneInv'
  <2>1. CheckHolds'
    BY <1>1, <1>3, <1>10 DEF ApplyCheck, Serve, CheckHolds
  <2>2. QED
    BY <1>10, <2>1, BooksKept DEF ApplyCheck, AloneInv
<1>11. ASSUME NEW i \in Instances, Propose(i) PROVE AloneInv'
  <2> DEFINE t == req[i].task
             q == req[i].proposal
  <2>1. CheckHolds'
    BY <1>4, <1>11 DEF Propose
  <2>2. t \in Tasks /\ q \in Proposals /\ tasks[t].status = "active"
    BY <1>2, <1>11 DEF Propose, AloneInv, CheckHolds
  <2>3. /\ proposals[q].status = "none"
        /\ proposals'[q].status = "proposed" /\ proposals'[q].task = t
        /\ \A p \in Proposals \ {q} : proposals'[p] = proposals[p]
    BY <1>1, <1>11, <2>2 DEF Propose
  <2>4. OneAppliedPerTask'
    BY <2>3 DEF AloneInv, OneAppliedPerTask
  <2>5. ClosedHasNoOpenProposal'
    BY <1>11, <2>2, <2>3 DEF Propose, AloneInv, ClosedHasNoOpenProposal
  <2>6. ReportedIsApplied'
    BY <1>11, <2>2, <2>3 DEF Propose, AloneInv, ReportedIsApplied, TypeOK
  <2>7. QED
    BY <2>1, <2>4, <2>5, <2>6 DEF AloneInv
<1>12. ASSUME NEW i \in Instances, Finish(i) PROVE AloneInv'
  <2> DEFINE t == req[i].task
             q == req[i].proposal
  <2>1. CheckHolds'
    BY <1>4, <1>12 DEF Finish
  <2>2. /\ t \in Tasks /\ q \in Proposals
        /\ tasks[t].status = "active" /\ proposals[q].status = "proposed"
        /\ proposals[q].task = t
    BY <1>2, <1>12 DEF Finish, AloneInv, CheckHolds, Linked
  <2>3. /\ proposals'[q].status = "applied" /\ proposals'[q].task = t
        /\ \A p \in Proposals \ {q} : proposals'[p] = proposals[p]
    BY <1>1, <1>12, <2>2 DEF Finish, Proposal
  <2>4. \A u \in Tasks : tasks'[u].status = IF u = t THEN "applied" ELSE tasks[u].status
    BY <1>1, <1>12, <2>2 DEF Finish, Task
  <2>5. OneAppliedPerTask'
    BY <2>2, <2>3 DEF AloneInv, OneAppliedPerTask, TasksAgree, ActiveMeansOpen
  <2>6. ClosedHasNoOpenProposal'
    BY <2>2, <2>3, <2>4 DEF AloneInv, ClosedHasNoOpenProposal, Linked
  <2>7. ReportedIsApplied'
    BY <1>12, <2>2, <2>3 DEF Finish, AloneInv, ReportedIsApplied, TypeOK
  <2>8. QED
    BY <2>1, <2>5, <2>6, <2>7 DEF AloneInv
<1>13. ASSUME NEW i \in Instances, Fail(i) \/ FailWithLease(i) \/ Crash(i) PROVE AloneInv'
  <2>1. CheckHolds'
    BY <1>4, <1>13 DEF Fail, FailWithLease, Crash
  <2>2. QED
    BY <1>13, <2>1, BooksKept DEF Fail, FailWithLease, Crash, AloneInv
<1>14. ASSUME NEW i \in Instances, Record(i) PROVE AloneInv'
  <2>1. req[i].op = "apply"
    BY <1>2, <1>14, Positions DEF Record
  <2>2. CheckHolds'
    BY <1>1, <1>3, <1>14, <2>1 DEF Record, Serve, AloneInv, CheckHolds
  <2>3. QED
    BY <1>14, <2>2, BooksKept DEF Record, AloneInv
<1>15. ASSUME UNCHANGED <<tasks, proposals, reported, req>> PROVE AloneInv'
  BY <1>15, BooksKept DEF AloneInv, CheckHolds
<1>16. ASSUME NEW i \in Instances, TakeLease(i) \/ Validate(i) \/ GitApply(i) PROVE AloneInv'
  BY <1>15, <1>16 DEF TakeLease, Validate, GitApply, taskVars
<1>17. CASE LeaseStep \/ Edit \/ UNCHANGED vars
  BY <1>15, <1>17 DEF LeaseStep, Edit, vars, taskVars
<1>18. QED
  BY <1>5, <1>6, <1>7, <1>8, <1>9, <1>10, <1>11, <1>12, <1>13, <1>14, <1>16, <1>17 DEF Next

\* One process, over its crashes: at most one proposal of a task is applied, a
\* stale or cancelled task has none that could still be, and a patch_applied
\* event is about an applied proposal (TaskTransactionService).
THEOREM OneProcess == Spec => []AloneAgrees
<1>1. CASE Alone
  <2>1. Init => AloneInv
    BY DEF Init, AloneInv, CheckHolds, OneAppliedPerTask, ClosedHasNoOpenProposal,
           ReportedIsApplied, NoRequest
  <2>2. TaskInv /\ AloneInv /\ [Next]_vars => AloneInv'
    BY <1>1, NextAlone DEF TaskInv
  <2>3. AloneInv => AloneAgrees
    BY DEF AloneInv, AloneAgrees
  <2>4. QED
    BY <2>1, <2>2, <2>3, TasksKept, PTL DEF Spec
<1>2. CASE ~Alone
  <2>1. AloneAgrees
    BY <1>2 DEF AloneAgrees
  <2>2. QED
    BY <2>1, PTL
<1>3. QED
  BY <1>1, <1>2
=============================================================================
