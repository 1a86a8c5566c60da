---------------------------- MODULE TaskLifecycle ----------------------------
(***************************************************************************)
(* The delivery of one task: src/src/task_lifecycle.rs over the guarded    *)
(* Git operations of src/src/workflow.rs, the providers of                 *)
(* src/src/git_provider.rs and the idempotency records of src/src/ops.rs.  *)
(*                                                                         *)
(* A lifecycle request reads the task, the task_lifecycle row and the      *)
(* repository without a lock, makes one call that holds the process's      *)
(* mutation_lock, writes the row with an UPDATE whose WHERE names the task *)
(* only, and inserts a task_events row.  Nothing joins these steps, so any *)
(* number of requests interleave between them and an interruption may fall *)
(* between any two.                                                        *)
(*                                                                         *)
(* A commit is named by what it adds to its parent: commit "patch" has the *)
(* task's base as first parent and contains the diff "patch".              *)
(***************************************************************************)
EXTENDS Naturals

CONSTANTS
    Clients,       \* requests that may be open at the same time
    Main,          \* the configured default branch
    Branches,      \* names clients give to feature branches
    IssueNumbers,  \* numbers the provider may give; bounds the issues of a run
    Nobody,        \* no request holds the mutation_lock
    MaxEdits,      \* bound: changes by editors, other developers, reviewers
    MaxCuts        \* bound: interrupted requests

\* Names that stand for no value, a stage or a commit.
Reserved == {"none", "base", "patch", "other", "later", "alien", "merged",
             "unmerged"}

ASSUME LifecycleAssumption ==
    /\ Main \notin Branches
    /\ (Branches \cup {Main}) \cap Reserved = {}
    /\ IssueNumbers \cap Reserved = {}
    /\ Nobody \notin Clients
    /\ MaxEdits \in Nat
    /\ MaxCuts \in Nat

VARIABLES
    status,   \* tasks.status; "closed" is stale or cancelled
    life,     \* the task_lifecycle row
    events,   \* lifecycle events of task_events
    branch,   \* the branch that is checked out
    diff,     \* what the working tree adds to HEAD
    tips,     \* local branch heads
    remote,   \* heads of the branches of the remote
    trunk,    \* head of the remote's default branch
    issues,   \* provider: issues created for the task
    pulls,    \* provider: change request of each branch
    taken,    \* provider: the head each change request was merged at
    idem,     \* idempotency_records of the task's keys
    lock,     \* holder of mutation_lock
    req,      \* open requests
    edits, cuts

repoVars     == <<branch, diff, tips, remote>>
providerVars == <<trunk, issues, pulls, taken>>
vars == <<status, life, events, repoVars, providerVars, idem, lock, req, edits, cuts>>

Diffs   == {"patch", "other"}
Commits == {"base", "later", "alien", "merged"} \cup Diffs
None(S) == S \cup {"none"}

Phases == {"snapshot", "branched", "patched", "reviewed", "committed", "pushed",
           "pr_open", "merged", "completed"}

Rows == [phase : Phases, branch : None(Branches), reviewed : None(Diffs),
         commit : None(Commits), push : None(Commits), issue : None(IssueNumbers),
         pull : None(Branches), merge : None(Commits), synced : None(Commits)]

Ops    == {"branch", "review", "commit", "push", "issue", "pull", "merge", "sync"}
Values == None(Commits \cup Branches \cup IssueNumbers \cup {"unmerged"})

(***************************************************************************)
(* Stages of a request: "loaded": everything is read, the locked call is   *)
(* next; "checked": the commit call compared the diff, git commit is next; *)
(* "created": the provider acted, the idempotency record is not      *)
(* written; "done": the call returned; "saved": the row is written, the    *)
(* event is not.  value is the argument of the call, then its result; seen *)
(* is the number the loaded row had.                                       *)
(***************************************************************************)
Requests == [op : None(Ops), at : {"idle", "loaded", "checked", "created", "done", "saved"},
             seen : Values, value : Values]

NoRequest == [op |-> "none", at |-> "idle", seen |-> "none", value |-> "none"]

TypeOK ==
    /\ status \in {"active", "applied", "closed"}
    /\ life \in Rows
    /\ events \in SUBSET Ops
    /\ branch \in Branches \cup {Main}
    /\ diff \in None(Diffs)
    /\ tips \in [Branches \cup {Main} -> None(Commits)]
    /\ remote \in [Branches -> None(Commits)]
    /\ trunk \in Commits
    /\ issues \in SUBSET IssueNumbers
    /\ pulls \in [Branches -> {"none", "open", "merged"}]
    /\ taken \in [Branches -> None(Commits)]
    /\ idem \in [issue : None(IssueNumbers), pull : None(Branches),
                merge : {"none", "merged", "unmerged"}]
    /\ lock \in Clients \cup {Nobody}
    /\ req \in [Clients -> Requests]
    /\ edits \in Nat
    /\ cuts \in Nat

\* A task begun on a clean default branch.
Init ==
    /\ status = "active"
    /\ life = [phase |-> "snapshot", branch |-> "none", reviewed |-> "none",
               commit |-> "none", push |-> "none", issue |-> "none", pull |-> "none",
               merge |-> "none", synced |-> "none"]
    /\ events = {}
    /\ branch = Main
    /\ diff = "none"
    /\ tips = [b \in Branches \cup {Main} |-> IF b = Main THEN "base" ELSE "none"]
    /\ remote = [b \in Branches |-> "none"]
    /\ trunk = "base"
    /\ issues = {}
    /\ pulls = [b \in Branches |-> "none"]
    /\ taken = [b \in Branches |-> "none"]
    /\ idem = [issue |-> "none", pull |-> "none", merge |-> "none"]
    /\ lock = Nobody
    /\ req = [c \in Clients |-> NoRequest]
    /\ edits = 0
    /\ cuts = 0

(***************************************************************************)
(* Helpers.                                                                *)
(***************************************************************************)
Head == tips[branch]

\* The commit that Git makes of the working tree.
Committed == IF Head = "base" THEN diff ELSE "later"

rank(phase) ==
    CASE phase = "snapshot"  -> 0
      [] phase = "branched"  -> 1
      [] phase = "patched"   -> 2
      [] phase = "reviewed"  -> 3
      [] phase = "committed" -> 4
      [] phase = "pushed"    -> 5
      [] phase = "pr_open"   -> 6
      [] phase = "merged"    -> 7
      [] phase = "completed" -> 8

at_least(phase, expected) == rank(phase) >= rank(expected)

\* A request of client c has read what it needs and is at stage `at`.
Loaded(c, op, at, seen, value) ==
    /\ req[c].at = "idle"
    /\ req' = [req EXCEPT ![c] = [op |-> op, at |-> at, seen |-> seen, value |-> value]]

Continue(c, at, value) ==
    req' = [req EXCEPT ![c] = [op |-> req[c].op, at |-> at, seen |-> req[c].seen,
                               value |-> value]]

\* A request ends.
Return(c) == req' = [req EXCEPT ![c] = NoRequest]

\* The mutation_lock is free for the call of request c.
Calling(c, op) == req[c].op = op /\ req[c].at = "loaded" /\ lock = Nobody

\* The UPDATE of the row; the event is next.
Save(c, op, row) ==
    /\ req[c].op = op /\ req[c].at = "done"
    /\ life' = row
    /\ Continue(c, "saved", req[c].value)
    /\ UNCHANGED <<status, events, repoVars, providerVars, idem, lock, edits, cuts>>

(***************************************************************************)
(* The task's own transactions (module TaskTransactions), in short.        *)
(***************************************************************************)
\* The snapshot check finds the repository the task was begun on.
Current == status = "active" /\ Head = "base" /\ diff = "none"

\* apply_patch by client c; its UPDATE of tasks fires trg_tasks_applied_lifecycle.
ApplyPatch(c) ==
    /\ req[c].at = "idle"
    /\ lock = Nobody
    /\ Current
    /\ diff' = "patch"
    /\ status' = "applied"
    /\ life' = [life EXCEPT !.phase = IF @ \in {"snapshot", "branched"} THEN "patched" ELSE @]
    /\ UNCHANGED <<events, branch, tips, remote, providerVars, idem, lock, req, edits, cuts>>

\* The task is cancelled, or a snapshot check finds drift.
CloseTask ==
    /\ lock = Nobody
    /\ status = "active"
    /\ status' = "closed"
    /\ UNCHANGED <<life, events, repoVars, providerVars, idem, lock, req, edits, cuts>>

\* Nothing but the request itself changes.
OnlyRequest ==
    UNCHANGED <<status, life, events, repoVars, providerVars, idem, lock, edits, cuts>>

(***************************************************************************)
(* branch_checkout.  A branch that is already checked out at the base is   *)
(* adopted.                                                                *)
(***************************************************************************)
LoadBranch(c, b) ==
    /\ Current
    /\ ~at_least(life.phase, "branched")
    /\ \/ branch = b    /\ Loaded(c, "branch", "done", "none", b)
       \/ branch = Main /\ Loaded(c, "branch", "loaded", "none", b)
    /\ OnlyRequest

CanCheckout(b) == Head = "base" /\ diff = "none" /\ tips[b] = "none"

CheckoutBranch(c) ==
    /\ Calling(c, "branch")
    /\ CanCheckout(req[c].value)
    /\ tips' = [tips EXCEPT ![req[c].value] = Head]
    /\ branch' = req[c].value
    /\ Continue(c, "done", req[c].value)
    /\ UNCHANGED <<status, life, events, diff, remote, providerVars, idem, lock, edits, cuts>>

PersistBranch(c) ==
    Save(c, "branch", [life EXCEPT !.phase = "branched", !.branch = req[c].value])

\* review: no locked call; a diff that is reviewed already is not written again.
LoadReview(c) ==
    /\ status = "applied"
    /\ at_least(life.phase, "patched") /\ ~at_least(life.phase, "committed")
    /\ life.branch = branch
    /\ Head = "base" /\ diff # "none"
    /\ life.reviewed = "none"
    /\ Loaded(c, "review", "done", "none", diff)
    /\ OnlyRequest

PersistReview(c) ==
    Save(c, "review", [life EXCEPT !.phase = "reviewed", !.reviewed = req[c].value])

(***************************************************************************)
(* commit.  A clean HEAD whose first parent is the base is taken for the   *)
(* commit of an interrupted request.                                       *)
(***************************************************************************)
\* Mutation: no recovery of a commit whose request was cut off.
LoadCommitWithoutRecovery(c) ==
    /\ status = "applied"
    /\ at_least(life.phase, "reviewed")
    /\ life.branch = branch
    /\ life.commit = "none"
    /\ Head = "base" /\ life.reviewed # "none" /\ diff = life.reviewed
    /\ Loaded(c, "commit", "loaded", "none", life.reviewed)
    /\ OnlyRequest

LoadCommit(c) ==
    /\ status = "applied"
    /\ at_least(life.phase, "reviewed")
    /\ life.branch = branch
    /\ life.commit = "none"
    /\ \/ /\ Head \in Diffs /\ diff = "none"
          /\ Loaded(c, "commit", "done", "none", Head)
       \/ /\ Head = "base" /\ life.reviewed # "none" /\ diff = life.reviewed
          /\ Loaded(c, "commit", "loaded", "none", life.reviewed)
    /\ OnlyRequest

\* Mutation: the diff is not compared again under the lock.
CanCommitAnything(reviewed) == branch # Main /\ Head = "base" /\ diff # "none"

CanCommit(reviewed) == branch # Main /\ Head = "base" /\ diff = reviewed

CheckCommit(c) ==
    /\ Calling(c, "commit")
    /\ CanCommit(req[c].value)
    /\ lock' = c
    /\ Continue(c, "checked", req[c].value)
    /\ UNCHANGED <<status, life, events, repoVars, providerVars, idem, edits, cuts>>

\* commit_all takes what is there now, and fails if nothing is.
CommitReviewed(c) ==
    /\ req[c].at = "checked"
    /\ lock' = Nobody
    /\ \/ /\ diff # "none"
          /\ tips' = [tips EXCEPT ![branch] = Committed]
          /\ diff' = "none"
          /\ Continue(c, "done", Committed)
       \/ /\ diff = "none"
          /\ Return(c)
          /\ UNCHANGED <<diff, tips>>
    /\ UNCHANGED <<status, life, events, branch, remote, providerVars, idem, edits, cuts>>

PersistCommit(c) ==
    Save(c, "commit", [life EXCEPT !.phase = "committed", !.commit = req[c].value])

\* push: a remote branch that is at the commit already is taken as pushed.
LoadPush(c) ==
    /\ life.commit # "none" /\ life.branch = branch
    /\ Head = life.commit /\ diff = "none"
    /\ life.push # life.commit
    /\ \/ /\ remote[life.branch] = life.commit
          /\ Loaded(c, "push", "done", "none", life.commit)
       \/ /\ remote[life.branch] # life.commit
          /\ Loaded(c, "push", "loaded", "none", life.commit)
    /\ OnlyRequest

\* git push without force: the remote branch is new, or has this commit.
CanPush(commit) ==
    branch # Main /\ Head = commit /\ diff = "none" /\ remote[branch] \in {"none", commit}

PushCurrentBranch(c) ==
    /\ Calling(c, "push")
    /\ CanPush(req[c].value)
    /\ remote' = [remote EXCEPT ![branch] = Head]
    /\ Continue(c, "done", Head)
    /\ UNCHANGED <<status, life, events, branch, diff, tips, providerVars, idem, lock, edits, cuts>>

PersistPush(c) ==
    Save(c, "push", [life EXCEPT !.phase = "pushed", !.push = req[c].value])

(***************************************************************************)
(* Provider calls: look the task's key up in idempotency_records, act,     *)
(* store the response, all under the lock.  A stored response is replayed  *)
(* without asking the provider.                                            *)
(***************************************************************************)
Replayed(c, response) ==
    /\ Continue(c, "done", response)
    /\ UNCHANGED <<status, life, events, repoVars, providerVars, idem, lock, edits, cuts>>

\* The provider acted; the request keeps the lock until it has stored this.
Created(c, response) ==
    /\ lock' = c
    /\ Continue(c, "created", response)
    /\ UNCHANGED <<status, life, events, repoVars, idem, edits, cuts>>

Store(c, op, records) ==
    /\ req[c].op = op /\ req[c].at = "created"
    /\ idem' = records
    /\ lock' = Nobody
    /\ Continue(c, "done", req[c].value)
    /\ UNCHANGED <<status, life, events, repoVars, providerVars, edits, cuts>>

\* issue_create.
LoadIssue(c) ==
    /\ at_least(life.phase, "pushed")
    /\ Loaded(c, "issue", "loaded", life.issue, "none")
    /\ OnlyRequest

\* A response is stored, or the provider has a number left (a bound).
CanIssue == idem.issue # "none" \/ issues # IssueNumbers

IssueCreate(c) ==
    /\ Calling(c, "issue")
    /\ \/ idem.issue # "none" /\ Replayed(c, idem.issue)
       \/ /\ idem.issue = "none"
          /\ \E n \in IssueNumbers \ issues :
                issues' = issues \cup {n} /\ Created(c, n)
          /\ UNCHANGED <<trunk, pulls, taken>>

StoreIssue(c) == Store(c, "issue", [idem EXCEPT !.issue = req[c].value])

PersistIssue(c) ==
    req[c].seen = "none" /\ Save(c, "issue", [life EXCEPT !.issue = req[c].value])

\* pull_create.
LoadPull(c) ==
    /\ life.push # "none"
    /\ ~at_least(life.phase, "merged")
    /\ Loaded(c, "pull", "loaded", life.pull, life.push)
    /\ OnlyRequest

\* The pushed commit is checked out, clean, and what the remote branch is at.
\* External: a provider opens one change request per branch.
CanPull(pushed) ==
    /\ branch # Main /\ Head = pushed /\ diff = "none" /\ remote[branch] = pushed
    /\ idem.pull = branch \/ (idem.pull = "none" /\ pulls[branch] = "none")

PullCreate(c) ==
    /\ Calling(c, "pull")
    /\ CanPull(req[c].value)
    /\ \/ idem.pull # "none" /\ Replayed(c, idem.pull)
       \/ /\ idem.pull = "none"
          /\ pulls' = [pulls EXCEPT ![branch] = "open"]
          /\ Created(c, branch)
          /\ UNCHANGED <<trunk, issues, taken>>

StorePull(c) == Store(c, "pull", [idem EXCEPT !.pull = req[c].value])

PersistPull(c) ==
    /\ req[c].seen = "none"
    /\ Save(c, "pull", [life EXCEPT !.phase = "pr_open", !.pull = req[c].value])

\* A number that was persisted before is only compared with the response.
ReturnReplay(c) ==
    /\ req[c].at = "done" /\ req[c].op \in {"issue", "pull"}
    /\ req[c].seen # "none"
    /\ Return(c)
    /\ OnlyRequest

(***************************************************************************)
(* pull_merge.  External: a merged change request keeps the head it was    *)
(* merged at, a merge names the head it expects, and GitLab may answer     *)
(* that the request is not merged; that answer is stored like any other.   *)
(***************************************************************************)
PullHead(b) == IF pulls[b] = "merged" THEN taken[b] ELSE remote[b]

LoadMerge(c) ==
    /\ life.pull # "none" /\ life.push # "none" /\ life.merge = "none"
    /\ PullHead(life.pull) = life.push
    /\ Loaded(c, "merge", "loaded", life.pull, life.push)
    /\ OnlyRequest

\* Mutation: the merge does not name the head it expects.
CanMergeAnyHead(b, head) == TRUE

CanMerge(b, head) == PullHead(b) = head

PullMerge(c) ==
    LET b == req[c].seen
    IN  /\ Calling(c, "merge")
        /\ CanMerge(b, req[c].value)
        /\ \/ idem.merge # "none" /\ Replayed(c, idem.merge)
           \/ /\ idem.merge = "none" /\ pulls[b] = "merged"
              /\ Created(c, "merged")
              /\ UNCHANGED providerVars
           \/ /\ idem.merge = "none" /\ pulls[b] = "open"
              /\ Created(c, "unmerged")
              /\ UNCHANGED providerVars
           \/ /\ idem.merge = "none" /\ pulls[b] = "open"
              /\ pulls' = [pulls EXCEPT ![b] = "merged"]
              /\ taken' = [taken EXCEPT ![b] = remote[b]]
              /\ trunk' = "merged"
              /\ Created(c, "merged")
              /\ UNCHANGED issues

StoreMerge(c) == Store(c, "merge", [idem EXCEPT !.merge = req[c].value])

PersistMerge(c) ==
    /\ req[c].value = "merged"
    /\ Save(c, "merge", [life EXCEPT !.phase = "merged", !.merge = "merged"])

NotMerged(c) ==
    /\ req[c].op = "merge" /\ req[c].at = "done" /\ req[c].value = "unmerged"
    /\ Return(c)
    /\ OnlyRequest

\* default_sync: fetch, switch to the default branch, fast-forward.
LoadSync(c) ==
    /\ life.phase = "merged"
    /\ Loaded(c, "sync", "loaded", "none", "none")
    /\ OnlyRequest

CanSync == diff = "none"

\* A default branch that diverged is checked out all the same.
SyncDefault(c) ==
    /\ Calling(c, "sync")
    /\ CanSync
    /\ branch' = Main
    /\ \/ /\ tips[Main] \in {"base", trunk}
          /\ tips' = [tips EXCEPT ![Main] = trunk]
          /\ Continue(c, "done", trunk)
       \/ /\ tips[Main] \notin {"base", trunk}
          /\ Return(c)
          /\ UNCHANGED tips
    /\ UNCHANGED <<status, life, events, diff, remote, providerVars, idem, lock, edits, cuts>>

PersistSync(c) ==
    Save(c, "sync", [life EXCEPT !.phase = "completed", !.synced = req[c].value])

\* record_event, and the request returns.
RecordEvent(c) ==
    /\ req[c].at = "saved"
    /\ events' = events \cup {req[c].op}
    /\ Return(c)
    /\ UNCHANGED <<status, life, repoVars, providerVars, idem, lock, edits, cuts>>

\* The locked call rejects the request.
Callable(r) ==
    CASE r.op = "branch" -> CanCheckout(r.value)
      [] r.op = "commit" -> CanCommit(r.value)
      [] r.op = "push"   -> CanPush(r.value)
      [] r.op = "issue"  -> CanIssue
      [] r.op = "pull"   -> CanPull(r.value)
      [] r.op = "merge"  -> CanMerge(r.seen, r.value)
      [] r.op = "sync"   -> CanSync

Refused(c) ==
    /\ req[c].at = "loaded" /\ lock = Nobody
    /\ ~Callable(req[c])
    /\ Return(c)
    /\ OnlyRequest

\* A request ends between two of its steps: the process dies, a statement
\* fails, or the client hangs up and its handler is dropped.
Interrupted(c) ==
    /\ cuts < MaxCuts
    /\ cuts' = cuts + 1
    /\ req[c].at # "idle"
    /\ Return(c)
    /\ lock' = IF lock = c THEN Nobody ELSE lock
    /\ UNCHANGED <<status, life, events, repoVars, providerVars, idem, edits>>

(***************************************************************************)
(* External: editors, Git clients, other developers and reviewers.         *)
(***************************************************************************)
Outside ==
    /\ edits < MaxEdits
    /\ edits' = edits + 1
    /\ UNCHANGED <<status, life, events, issues, idem, lock, req, cuts>>

EditFiles ==
    /\ Outside
    /\ diff' \in None(Diffs) \ {diff}
    /\ UNCHANGED <<branch, tips, remote, trunk, pulls, taken>>

CommitByHand ==
    /\ Outside
    /\ diff # "none"
    /\ tips' = [tips EXCEPT ![branch] = Committed]
    /\ diff' = "none"
    /\ UNCHANGED <<branch, remote, trunk, pulls, taken>>

SwitchByHand ==
    /\ Outside
    /\ diff = "none"
    /\ branch' \in {b \in Branches \cup {Main} : tips[b] # "none"} \ {branch}
    /\ UNCHANGED <<diff, tips, remote, trunk, pulls, taken>>

PushByOther(b) ==
    /\ Outside
    /\ remote[b] \notin {"none", "alien"}
    /\ remote' = [remote EXCEPT ![b] = "alien"]
    /\ UNCHANGED <<branch, diff, tips, trunk, pulls, taken>>

MergeByOther(b) ==
    /\ Outside
    /\ pulls[b] = "open"
    /\ pulls' = [pulls EXCEPT ![b] = "merged"]
    /\ taken' = [taken EXCEPT ![b] = remote[b]]
    /\ trunk' = "merged"
    /\ UNCHANGED repoVars

\* The steps of an open request of client c.
Step(c) ==
    \/ CheckoutBranch(c) \/ CheckCommit(c) \/ CommitReviewed(c) \/ PushCurrentBranch(c)
    \/ IssueCreate(c) \/ PullCreate(c) \/ PullMerge(c) \/ SyncDefault(c)
    \/ StoreIssue(c) \/ StorePull(c) \/ StoreMerge(c)
    \/ PersistBranch(c) \/ PersistReview(c) \/ PersistCommit(c) \/ PersistPush(c)
    \/ PersistIssue(c) \/ PersistPull(c) \/ PersistMerge(c) \/ PersistSync(c)
    \/ ReturnReplay(c) \/ NotMerged(c) \/ RecordEvent(c) \/ Refused(c)

Next ==
    \/ CloseTask
    \/ \E c \in Clients :
          \/ ApplyPatch(c)
          \/ \E b \in Branches : LoadBranch(c, b)
          \/ LoadReview(c) \/ LoadCommit(c) \/ LoadPush(c) \/ LoadIssue(c)
          \/ LoadPull(c) \/ LoadMerge(c) \/ LoadSync(c)
          \/ Step(c) \/ Interrupted(c)
    \/ EditFiles \/ CommitByHand \/ SwitchByHand
    \/ \E b \in Branches : PushByOther(b) \/ MergeByOther(b)

Spec == Init /\ [][Next]_vars

(***************************************************************************)
(* A client that wants its task delivered asks again for every operation   *)
(* until it is through, and an open request goes on.                       *)
(***************************************************************************)
FairSpec ==
    /\ Spec
    /\ \A c \in Clients :
          /\ SF_vars(ApplyPatch(c))
          /\ WF_vars(Step(c))
          /\ SF_vars(\E b \in Branches : LoadBranch(c, b))
          /\ SF_vars(LoadReview(c)) /\ SF_vars(LoadCommit(c)) /\ SF_vars(LoadPush(c))
          /\ SF_vars(LoadPull(c)) /\ SF_vars(LoadMerge(c)) /\ SF_vars(LoadSync(c))

-----------------------------------------------------------------------------
(***************************************************************************)
(* Properties.                                                             *)
(***************************************************************************)

\* The row never claims more than was done: whatever requests interleave, get
\* interrupted or are repeated, its phase, and every lifecycle event, is backed
\* by the columns that the phase stands for.
EvidenceBehindPhase ==
    /\ at_least(life.phase, "reviewed")  => life.branch # "none" /\ life.reviewed # "none"
    /\ at_least(life.phase, "committed") => life.commit # "none"
    /\ at_least(life.phase, "pushed")    => life.push # "none"
    /\ at_least(life.phase, "pr_open")   => life.pull # "none"
    /\ at_least(life.phase, "merged")    => life.merge # "none"
    /\ at_least(life.phase, "completed") => life.synced # "none"
    /\ "push" \in events => life.push # "none"
    /\ "merge" \in events => life.merge # "none"

\* Every number and SHA in the row is one the outside world has seen: the
\* pushed commit reached the remote, the issue and the change request exist at
\* the provider, a merge SHA means that it merged.
ClaimsAreReal ==
    /\ life.push # "none" => \E b \in Branches : remote[b] \in {life.push, "alien"}
    /\ life.issue # "none" => life.issue \in issues
    /\ life.pull # "none" => pulls[life.pull] # "none"
    /\ life.merge # "none" => pulls[life.pull] = "merged"
    /\ life.synced # "none" => life.synced = "merged"

\* What was merged is the commit this task pushed, even when someone pushes to
\* the branch, or merges, between the checks and the merge.
MergedIsPushed ==
    life.merge # "none" => taken[life.pull] = life.push

\* git commit is started only on the diff that the row has as reviewed, even
\* when an editor changes files after the request first compared them.  (What
\* it then commits may differ: nothing stops an editor while git runs.)
CommitIsReviewed ==
    [][\A c \in Clients : req[c].at = "loaded" /\ req'[c].at = "checked"
          => diff = life.reviewed]_vars

\* Concurrent and repeated requests create one issue, unless one of them was
\* cut off before its record was stored.
OneIssue ==
    cuts = 0 => \A m, n \in issues : m = n

\* docs/task-lifecycle.md, "State model": the phase moves forward only.
PhaseForward ==
    [][rank(life'.phase) >= rank(life.phase)]_vars

\* The task cannot be delivered any more: it was closed, or its patch went in
\* before a branch was made, or its change request was opened by a request
\* that was cut off before it could store the fact, or "not merged" is stored.
DeadEnd ==
    \/ status = "closed"
    \/ status = "applied" /\ life.branch = "none"
    \/ idem.merge = "unmerged"
    \/ /\ idem.pull = "none"
       /\ \E b \in Branches : pulls[b] # "none"
       /\ \A c \in Clients : req[c].op # "pull" \/ req[c].at # "created"

\* A client that keeps asking gets its task completed, over any interruption
\* that leaves no dead end behind, if nobody else touches the repository.
Completes ==
    <>(life.phase = "completed" \/ DeadEnd \/ edits > 0)

\* What was merged is a commit of this task, never a head that someone else pushed
\* to the branch between the checks and the merge.
NothingForeignMerged ==
    life.merge # "none" => taken[life.pull] \in Diffs \cup {"later"}

\* What the row and the events say of the delivery is so, and was done once, for
\* any number of clients, changes from outside and interruptions.
DeliveryClaims ==
    TypeOK /\ EvidenceBehindPhase /\ ClaimsAreReal /\ NothingForeignMerged /\ OneIssue

\* One client, which makes one request at a time.
OneClient == \A c, d \in Clients : c = d

\* What the delivery by a single client never does: go back to an earlier phase,
\* commit what was not reviewed, take another head than the pushed one for its merge.
DeliverySteps == PhaseForward /\ CommitIsReviewed /\ []MergedIsPushed
=============================================================================
