------------------------ MODULE TaskLifecycleProofs ------------------------
(***************************************************************************)
(* Proofs about src/src/task_lifecycle.rs for any number of clients,       *)
(* branches, changes from outside and interruptions.                       *)
(*                                                                         *)
(* DeliveryClaims speaks of the row and the events.  What makes it         *)
(* inductive is what the requests carry: a request was let in by columns   *)
(* that are never emptied again (Asked), and the result it is about to     *)
(* write is one the outside has seen (Results); what the outside has seen  *)
(* does not go away (Grows).                                               *)
(***************************************************************************)
EXTENDS TaskLifecycle, TLAPS

USE LifecycleAssumption DEF Reserved

\* The commits that Git makes of this task's working tree.
Own == Diffs \cup {"later"}

\* A column is filled only after the ones before it.
Columns ==
    /\ life.commit # "none" => life.branch # "none" /\ life.reviewed # "none"
    /\ life.push # "none"   => life.commit # "none"
    /\ life.pull # "none"   => life.push # "none"
    /\ life.merge # "none"  => life.pull # "none"
    /\ life.synced # "none" => life.merge # "none"
    /\ life.commit \in None(Own) /\ life.push \in None(Own)

\* What the idempotency records and the provider have of it.
Records ==
    /\ idem.issue # "none" => idem.issue \in issues
    /\ idem.pull # "none" => pulls[idem.pull] # "none"
    /\ life.pull # "none" => life.pull = idem.pull
    /\ idem.merge = "merged" => /\ idem.pull # "none"
                                /\ pulls[idem.pull] = "merged" /\ taken[idem.pull] \in Own
    /\ \A b \in Branches : pulls[b] = "merged" => trunk = "merged"

\* A request that is under way found the columns before its own filled.
AskedBy(c) ==
    /\ req[c].op = "none" <=> req[c].at = "idle"
    /\ req[c].op = "review" => life.branch # "none"
    /\ req[c].op = "commit" => life.branch # "none" /\ life.reviewed # "none"
    /\ req[c].op = "push"   => life.commit # "none"
    /\ req[c].op = "pull"   => life.push # "none"
    /\ req[c].op = "merge"  => life.pull # "none" /\ req[c].seen = life.pull
    /\ req[c].op = "sync"   => life.merge # "none"

\* The result that a request is about to write, or has written, is real.
ResultOf(c) ==
    /\ req[c].op = "branch" => req[c].value \in Branches
    /\ req[c].op = "review" => req[c].value \in Diffs
    /\ req[c].op = "commit" => req[c].value \in Own
    /\ req[c].op = "push" => req[c].value \in Own
    /\ req[c].op = "push" /\ req[c].at = "done" =>
          \E b \in Branches : remote[b] \in {req[c].value, "alien"}
    /\ req[c].op = "issue" /\ req[c].at \in {"created", "done"} => req[c].value \in issues
    /\ req[c].op = "pull" /\ req[c].at = "created" =>
          req[c].value \in Branches /\ pulls[req[c].value] # "none"
    /\ req[c].op = "pull" /\ req[c].at = "done" =>
          req[c].value = idem.pull /\ idem.pull # "none"
    /\ req[c].op = "merge" /\ req[c].at = "loaded" => req[c].value \in Own
    /\ req[c].op = "merge" /\ req[c].at \in {"created", "done"} =>
          /\ req[c].value \in {"merged", "unmerged"}
          /\ req[c].value = "merged" => /\ pulls[req[c].seen] = "merged"
                                        /\ taken[req[c].seen] \in Own
    /\ req[c].op = "sync" /\ req[c].at = "done" => req[c].value = "merged"
    /\ req[c].op = "push" /\ req[c].at = "saved" => life.push # "none"
    /\ req[c].op = "merge" /\ req[c].at = "saved" => life.merge # "none"

\* A call that has acted and not returned holds the mutation_lock, so that the
\* record it is about to store is not there yet.
LockedBy(c) ==
    /\ req[c].at \in {"checked", "created"} => lock = c
    /\ req[c].at = "checked" => req[c].op = "commit"
    /\ req[c].at = "created" => req[c].op \in {"issue", "pull", "merge"}
    /\ req[c].op = "pull" /\ req[c].at = "created" => idem.pull = "none"
    /\ req[c].op = "issue" /\ req[c].at = "created" => idem.issue = "none"

\* The issue that was created is recorded, or its request is about to record it.
IssueRecorded ==
    cuts = 0 => \A n \in issues :
        \/ idem.issue = n
        \/ \E c \in Clients : req[c].op = "issue" /\ req[c].at = "created" /\ req[c].value = n

Asked    == \A c \in Clients : AskedBy(c)
Results  == \A c \in Clients : ResultOf(c)
Locked   == \A c \in Clients : LockedBy(c)
RowsTrue == Columns /\ Records /\ EvidenceBehindPhase /\ ClaimsAreReal /\ NothingForeignMerged

LifeInv == TypeOK /\ RowsTrue /\ Asked /\ Results /\ Locked /\ IssueRecorded

\* What no step takes back: a filled column, a record, what the remote and the
\* provider have.
Grows ==
    /\ life.branch # "none" => life'.branch # "none"
    /\ life.reviewed # "none" => life'.reviewed # "none"
    /\ life.commit # "none" => life'.commit # "none"
    /\ life.push # "none" => life'.push # "none"
    /\ life.pull # "none" => life'.pull = life.pull
    /\ life.merge # "none" => life'.merge # "none"
    /\ idem.pull # "none" => idem'.pull = idem.pull
    /\ issues \subseteq issues'
    /\ \A b \in Branches :
          /\ remote[b] # "none" => remote'[b] \in {remote[b], "alien"}
          /\ pulls[b] # "none" => pulls'[b] # "none"
          /\ pulls[b] = "merged" => pulls'[b] = "merged" /\ taken'[b] = taken[b]

\* The order of the phases.
LEMMA AtLeast ==
  ASSUME NEW phase \in Phases
  PROVE  /\ at_least(phase, "branched") <=> phase # "snapshot"
         /\ at_least(phase, "patched") <=> phase \notin {"snapshot", "branched"}
         /\ at_least(phase, "reviewed") <=>
               phase \in {"reviewed", "committed", "pushed", "pr_open", "merged", "completed"}
         /\ at_least(phase, "committed") <=>
               phase \in {"committed", "pushed", "pr_open", "merged", "completed"}
         /\ at_least(phase, "pushed") <=> phase \in {"pushed", "pr_open", "merged", "completed"}
         /\ at_least(phase, "pr_open") <=> phase \in {"pr_open", "merged", "completed"}
         /\ at_least(phase, "merged") <=> phase \in {"merged", "completed"}
         /\ at_least(phase, "completed") <=> phase = "completed"
<1>1. /\ rank("snapshot") = 0 /\ rank("branched") = 1 /\ rank("patched") = 2
      /\ rank("reviewed") = 3 /\ rank("committed") = 4 /\ rank("pushed") = 5
      /\ rank("pr_open") = 6 /\ rank("merged") = 7 /\ rank("completed") = 8
  BY DEF rank
<1>2. QED
  BY <1>1 DEF Phases, at_least

\* A request that takes no step keeps what it found and what it has to write.
LEMMA Waits ==
  ASSUME TypeOK, RowsTrue, Grows, NEW d \in Clients, req'[d] = req[d], AskedBy(d), ResultOf(d)
  PROVE  AskedBy(d)' /\ ResultOf(d)'
<1>1. AskedBy(d)'
  BY DEF AskedBy, Grows, TypeOK, Rows
<1>2. req[d].op = "merge" => req[d].seen \in Branches
  BY DEF TypeOK, Rows, None, AskedBy
<1>3. ResultOf(d)'
  BY <1>2 DEF ResultOf, Grows, Own, Diffs
<1>4. QED
  BY <1>1, <1>3

\* A step of one request.
LEMMA OthersWait ==
  ASSUME TypeOK, RowsTrue, Grows, Asked, Results, NEW c \in Clients, NEW r,
         req' = [req EXCEPT ![c] = r], AskedBy(c)', ResultOf(c)'
  PROVE  Asked' /\ Results'
BY Waits DEF Asked, Results, TypeOK

\* A step that writes neither the row, nor an event, nor a record.
LEMMA RowsStay ==
  ASSUME TypeOK, RowsTrue, Grows, UNCHANGED <<life, events, idem>>,
         \A b \in Branches : pulls'[b] = "merged" => trunk' = "merged"
  PROVE  RowsTrue'
<1>1. life.pull \in None(Branches) /\ idem.pull \in None(Branches)
  BY DEF TypeOK, Rows
<1>2. Columns' /\ EvidenceBehindPhase'
  BY DEF RowsTrue, Columns, EvidenceBehindPhase
<1>3. Records'
  BY <1>1 DEF RowsTrue, Records, Grows, None
<1>4. ClaimsAreReal'
  BY <1>1 DEF RowsTrue, ClaimsAreReal, Columns, Grows, None
<1>5. NothingForeignMerged'
  BY <1>1 DEF RowsTrue, NothingForeignMerged, ClaimsAreReal, Columns, Grows, None
<1>6. QED
  BY <1>2, <1>3, <1>4, <1>5 DEF RowsTrue

-----------------------------------------------------------------------------
\* Types.
LEMMA InitType == Init => TypeOK
BY DEF Init, TypeOK, Rows, Phases, None, Diffs, Commits, Requests, NoRequest, Ops, Values

\* A step keeps the types of what it writes to the row and to the requests.
LEMMA NextType ==
  ASSUME TypeOK, Asked, Results, [Next]_vars
  PROVE  TypeOK'
<1>1. /\ life \in Rows /\ req \in [Clients -> Requests]
      /\ tips \in [Branches \cup {Main} -> None(Commits)] /\ branch \in Branches \cup {Main}
      /\ remote \in [Branches -> None(Commits)] /\ diff \in None(Diffs)
      /\ lock \in Clients \cup {Nobody}
      /\ idem \in [issue : None(IssueNumbers), pull : None(Branches),
                   merge : {"none", "merged", "unmerged"}]
  BY DEF TypeOK
<1>2. ASSUME NEW c \in Clients, Return(c)
      PROVE  req' \in [Clients -> Requests]
  BY <1>1, <1>2 DEF Return, NoRequest, Requests, None, Values
<1>3. ASSUME NEW c \in Clients, NEW at \in {"loaded", "checked", "created", "done", "saved"},
             NEW value \in Values, Continue(c, at, value)
      PROVE  req' \in [Clients -> Requests]
  BY <1>1, <1>3 DEF Continue, Requests
<1>4. /\ life.issue \in Values /\ life.pull \in Values /\ life.push \in Values
      /\ life.commit \in Values /\ life.reviewed \in Values /\ diff \in Values
      /\ "none" \in Values
      /\ idem.issue \in Values /\ idem.pull \in Values /\ idem.merge \in Values
      /\ \A b \in Branches : b \in Values
      /\ "merged" \in Values /\ "unmerged" \in Values
      /\ Head \in None(Commits) /\ Head \in Values
      /\ \A n \in IssueNumbers : n \in Values
      /\ diff # "none" => Committed \in Commits /\ Committed \in Values
  BY <1>1 DEF Rows, Values, None, Commits, Diffs, Head, Committed
<1>5. \A c \in Clients : /\ req[c].value \in Values /\ req[c].seen \in Values
                          /\ req[c].op \in None(Ops)
  BY <1>1 DEF Requests
<1>6. ASSUME NEW c \in Clients, NEW b \in Branches, LoadBranch(c, b) PROVE TypeOK'
  <2>1. req' \in [Clients -> Requests]
    BY <1>6, <1>1, <1>4 DEF LoadBranch, Loaded, Ops, Requests, None
  <2>2. QED
    BY <1>6, <2>1 DEF LoadBranch, OnlyRequest, TypeOK, repoVars, providerVars
<1>7. ASSUME NEW c \in Clients, LoadReview(c) PROVE TypeOK'
  <2>1. req' \in [Clients -> Requests]
    BY <1>7, <1>1, <1>4 DEF LoadReview, Loaded, Ops, Requests, None
  <2>2. QED
    BY <1>7, <2>1 DEF LoadReview, OnlyRequest, TypeOK, repoVars, providerVars
<1>8. ASSUME NEW c \in Clients, LoadCommit(c) PROVE TypeOK'
  <2>1. req' \in [Clients -> Requests]
    BY <1>8, <1>1, <1>4 DEF LoadCommit, Loaded, Ops, Requests, None
  <2>2. QED
    BY <1>8, <2>1 DEF LoadCommit, OnlyRequest, TypeOK, repoVars, providerVars
<1>9. ASSUME NEW c \in Clients, LoadPush(c) PROVE TypeOK'
  <2>1. req' \in [Clients -> Requests]
    BY <1>9, <1>1, <1>4 DEF LoadPush, Loaded, Ops, Requests, None
  <2>2. QED
    BY <1>9, <2>1 DEF LoadPush, OnlyRequest, TypeOK, repoVars, providerVars
<1>10. ASSUME NEW c \in Clients, LoadIssue(c) PROVE TypeOK'
  <2>1. req' \in [Clients -> Requests]
    BY <1>10, <1>1, <1>4 DEF LoadIssue, Loaded, Ops, Requests, None
  <2>2. QED
    BY <1>10, <2>1 DEF LoadIssue, OnlyRequest, TypeOK, repoVars, providerVars
<1>11. ASSUME NEW c \in Clients, LoadPull(c) PROVE TypeOK'
  <2>1. req' \in [Clients -> Requests]
    BY <1>11, <1>1, <1>4 DEF LoadPull, Loaded, Ops, Requests, None
  <2>2. QED
    BY <1>11, <2>1 DEF LoadPull, OnlyRequest, TypeOK, repoVars, providerVars
<1>12. ASSUME NEW c \in Clients, LoadMerge(c) PROVE TypeOK'
  <2>1. req' \in [Clients -> Requests]
    BY <1>12, <1>1, <1>4 DEF LoadMerge, Loaded, Ops, Requests, None
  <2>2. QED
    BY <1>12, <2>1 DEF LoadMerge, OnlyRequest, TypeOK, repoVars, providerVars
<1>13. ASSUME NEW c \in Clients, LoadSync(c) PROVE TypeOK'
  <2>1. req' \in [Clients -> Requests]
    BY <1>13, <1>1, <1>4 DEF LoadSync, Loaded, Ops, Requests, None
  <2>2. QED
    BY <1>13, <2>1 DEF LoadSync, OnlyRequest, TypeOK, repoVars, providerVars
<1>14. ASSUME NEW c \in Clients, CheckoutBranch(c) PROVE TypeOK'
  <2>1. req[c].value \in Branches
    BY <1>14 DEF CheckoutBranch, Calling, Results, ResultOf
  <2>2. req' \in [Clients -> Requests]
    BY <1>14, <1>3, <1>5 DEF CheckoutBranch
  <2>3. tips' \in [Branches \cup {Main} -> None(Commits)]
    BY <1>14, <1>1, <1>4, <2>1 DEF CheckoutBranch
  <2>4. QED
    BY <1>14, <2>1, <2>2, <2>3 DEF CheckoutBranch, TypeOK, providerVars
<1>15. ASSUME NEW c \in Clients, CheckCommit(c) PROVE TypeOK'
  <2>1. req' \in [Clients -> Requests]
    BY <1>15, <1>3, <1>5 DEF CheckCommit
  <2>2. QED
    BY <1>15, <2>1 DEF CheckCommit, TypeOK, repoVars, providerVars
<1>16. ASSUME NEW c \in Clients, CommitReviewed(c) PROVE TypeOK'
  <2>1. req' \in [Clients -> Requests]
    BY <1>16, <1>2, <1>3, <1>4 DEF CommitReviewed
  <2>2. tips' \in [Branches \cup {Main} -> None(Commits)] /\ diff' \in None(Diffs)
    BY <1>16, <1>1, <1>4 DEF CommitReviewed, None
  <2>3. QED
    BY <1>16, <2>1, <2>2 DEF CommitReviewed, TypeOK, providerVars
<1>17. ASSUME NEW c \in Clients, PushCurrentBranch(c) PROVE TypeOK'
  <2>1. req' \in [Clients -> Requests]
    BY <1>17, <1>3, <1>4 DEF PushCurrentBranch
  <2>2. remote' \in [Branches -> None(Commits)]
    BY <1>17, <1>1, <1>4 DEF PushCurrentBranch
  <2>3. QED
    BY <1>17, <2>1, <2>2 DEF PushCurrentBranch, TypeOK, providerVars
<1>18. ASSUME NEW c \in Clients, IssueCreate(c) PROVE TypeOK'
  <2>1. req' \in [Clients -> Requests]
    BY <1>18, <1>3, <1>4 DEF IssueCreate, Replayed, Created
  <2>2. issues' \in SUBSET IssueNumbers /\ lock' \in Clients \cup {Nobody}
    BY <1>18, <1>1 DEF IssueCreate, Replayed, Created, TypeOK, providerVars
  <2>3. QED
    BY <1>18, <2>1, <2>2 DEF IssueCreate, Replayed, Created, TypeOK, repoVars, providerVars
<1>19. ASSUME NEW c \in Clients, PullCreate(c) PROVE TypeOK'
  <2>1. branch \in Branches
    BY <1>19, <1>1 DEF PullCreate, CanPull
  <2>2. req' \in [Clients -> Requests]
    BY <1>19, <1>3, <1>4, <2>1 DEF PullCreate, Replayed, Created
  <2>3. pulls' \in [Branches -> {"none", "open", "merged"}] /\ lock' \in Clients \cup {Nobody}
    BY <1>19, <1>1, <2>1 DEF PullCreate, Replayed, Created, TypeOK, providerVars
  <2>4. QED
    BY <1>19, <2>2, <2>3 DEF PullCreate, Replayed, Created, TypeOK, repoVars, providerVars
<1>20. ASSUME NEW c \in Clients, PullMerge(c) PROVE TypeOK'
  <2>1. req[c].seen \in Branches
    BY <1>20, <1>1 DEF PullMerge, Calling, Asked, AskedBy, Rows, None
  <2>2. req' \in [Clients -> Requests]
    BY <1>20, <1>3, <1>4 DEF PullMerge, Replayed, Created
  <2>3. /\ pulls' \in [Branches -> {"none", "open", "merged"}]
        /\ lock' \in Clients \cup {Nobody}
        /\ taken' \in [Branches -> None(Commits)] /\ trunk' \in Commits
    BY <1>20, <1>1, <2>1 DEF PullMerge, Replayed, Created, TypeOK, providerVars, Commits
  <2>4. QED
    BY <1>20, <2>2, <2>3 DEF PullMerge, Replayed, Created, TypeOK, repoVars, providerVars
<1>21. ASSUME NEW c \in Clients, SyncDefault(c) PROVE TypeOK'
  <2>1. req' \in [Clients -> Requests]
    BY <1>21, <1>2, <1>3 DEF SyncDefault, TypeOK, Values, None
  <2>2. tips' \in [Branches \cup {Main} -> None(Commits)]
    BY <1>21, <1>1 DEF SyncDefault, TypeOK, None
  <2>3. QED
    BY <1>21, <2>1, <2>2 DEF SyncDefault, TypeOK, providerVars
<1>22. ASSUME NEW c \in Clients, StoreIssue(c) PROVE TypeOK'
  <2>1. req[c].value \in IssueNumbers
    BY <1>22 DEF StoreIssue, Store, Results, ResultOf, TypeOK
  <2>2. req' \in [Clients -> Requests]
    BY <1>22, <1>3, <1>5 DEF StoreIssue, Store
  <2>3. idem' \in [issue : None(IssueNumbers), pull : None(Branches),
                  merge : {"none", "merged", "unmerged"}]
    BY <1>22, <1>1, <2>1 DEF StoreIssue, Store, None
  <2>4. QED
    BY <1>22, <2>2, <2>3 DEF StoreIssue, Store, TypeOK, repoVars, providerVars
<1>23. ASSUME NEW c \in Clients, StorePull(c) PROVE TypeOK'
  <2>1. req[c].value \in Branches
    BY <1>23 DEF StorePull, Store, Results, ResultOf
  <2>2. req' \in [Clients -> Requests]
    BY <1>23, <1>3, <1>5 DEF StorePull, Store
  <2>3. idem' \in [issue : None(IssueNumbers), pull : None(Branches),
                  merge : {"none", "merged", "unmerged"}]
    BY <1>23, <1>1, <2>1 DEF StorePull, Store, None
  <2>4. QED
    BY <1>23, <2>2, <2>3 DEF StorePull, Store, TypeOK, repoVars, providerVars
<1>24. ASSUME NEW c \in Clients, StoreMerge(c) PROVE TypeOK'
  <2>1. req[c].value \in {"merged", "unmerged"}
    BY <1>24 DEF StoreMerge, Store, Results, ResultOf
  <2>2. req' \in [Clients -> Requests]
    BY <1>24, <1>3, <1>5 DEF StoreMerge, Store
  <2>3. idem' \in [issue : None(IssueNumbers), pull : None(Branches),
                  merge : {"none", "merged", "unmerged"}]
    BY <1>24, <1>1, <2>1 DEF StoreMerge, Store, None
  <2>4. QED
    BY <1>24, <2>2, <2>3 DEF StoreMerge, Store, TypeOK, repoVars, providerVars
<1>25. ASSUME NEW c \in Clients, PersistBranch(c) PROVE TypeOK'
  <2>1. req[c].value \in Branches
    BY <1>25, <1>1 DEF PersistBranch, Save, Results, ResultOf
  <2>2. req' \in [Clients -> Requests]
    BY <1>25, <1>3, <1>5 DEF PersistBranch, Save
  <2>3. life' \in Rows
    BY <1>25, <1>1, <2>1 DEF PersistBranch, Save, Rows, Phases, None, Commits
  <2>4. QED
    BY <1>25, <2>2, <2>3 DEF PersistBranch, Save, TypeOK, repoVars, providerVars
<1>26. ASSUME NEW c \in Clients, PersistReview(c) PROVE TypeOK'
  <2>1. req[c].value \in Diffs
    BY <1>26, <1>1 DEF PersistReview, Save, Results, ResultOf
  <2>2. req' \in [Clients -> Requests]
    BY <1>26, <1>3, <1>5 DEF PersistReview, Save
  <2>3. life' \in Rows
    BY <1>26, <1>1, <2>1 DEF PersistReview, Save, Rows, Phases, None, Commits
  <2>4. QED
    BY <1>26, <2>2, <2>3 DEF PersistReview, Save, TypeOK, repoVars, providerVars
<1>27. ASSUME NEW c \in Clients, PersistCommit(c) PROVE TypeOK'
  <2>1. req[c].value \in Commits
    BY <1>27, <1>1 DEF PersistCommit, Save, Results, ResultOf, Own, Commits
  <2>2. req' \in [Clients -> Requests]
    BY <1>27, <1>3, <1>5 DEF PersistCommit, Save
  <2>3. life' \in Rows
    BY <1>27, <1>1, <2>1, ZenonT(30) DEF PersistCommit, Save, Rows, Phases, None, Commits
  <2>4. QED
    BY <1>27, <2>2, <2>3 DEF PersistCommit, Save, TypeOK, repoVars, providerVars
<1>28. ASSUME NEW c \in Clients, PersistPush(c) PROVE TypeOK'
  <2>1. req[c].value \in Commits
    BY <1>28, <1>1 DEF PersistPush, Save, Results, ResultOf, Own, Commits
  <2>2. req' \in [Clients -> Requests]
    BY <1>28, <1>3, <1>5 DEF PersistPush, Save
  <2>3. life' \in Rows
    BY <1>28, <1>1, <2>1, ZenonT(30) DEF PersistPush, Save, Rows, Phases, None, Commits
  <2>4. QED
    BY <1>28, <2>2, <2>3 DEF PersistPush, Save, TypeOK, repoVars, providerVars
<1>29. ASSUME NEW c \in Clients, PersistIssue(c) PROVE TypeOK'
  <2>1. req[c].value \in IssueNumbers
    BY <1>29, <1>1 DEF PersistIssue, Save, Results, ResultOf, TypeOK
  <2>2. req' \in [Clients -> Requests]
    BY <1>29, <1>3, <1>5 DEF PersistIssue, Save
  <2>3. life' \in Rows
    BY <1>29, <1>1, <2>1 DEF PersistIssue, Save, Rows, Phases, None, Commits
  <2>4. QED
    BY <1>29, <2>2, <2>3 DEF PersistIssue, Save, TypeOK, repoVars, providerVars
<1>30. ASSUME NEW c \in Clients, PersistPull(c) PROVE TypeOK'
  <2>1. req[c].value \in Branches
    BY <1>30, <1>1 DEF PersistPull, Save, Results, ResultOf, None
  <2>2. req' \in [Clients -> Requests]
    BY <1>30, <1>3, <1>5 DEF PersistPull, Save
  <2>3. life' \in Rows
    BY <1>30, <1>1, <2>1, ZenonT(30) DEF PersistPull, Save, Rows, Phases, None, Commits
  <2>4. QED
    BY <1>30, <2>2, <2>3 DEF PersistPull, Save, TypeOK, repoVars, providerVars
<1>31. ASSUME NEW c \in Clients, PersistMerge(c) PROVE TypeOK'
  <2>1. req[c].value = "merged"
    BY <1>31, <1>1 DEF PersistMerge, Save, Results, ResultOf
  <2>2. req' \in [Clients -> Requests]
    BY <1>31, <1>3, <1>5 DEF PersistMerge, Save
  <2>3. life' \in Rows
    BY <1>31, <1>1, <2>1, ZenonT(30) DEF PersistMerge, Save, Rows, Phases, None, Commits
  <2>4. QED
    BY <1>31, <2>2, <2>3 DEF PersistMerge, Save, TypeOK, repoVars, providerVars
<1>32. ASSUME NEW c \in Clients, PersistSync(c) PROVE TypeOK'
  <2>1. req[c].value = "merged"
    BY <1>32, <1>1 DEF PersistSync, Save, Results, ResultOf
  <2>2. req' \in [Clients -> Requests]
    BY <1>32, <1>3, <1>5 DEF PersistSync, Save
  <2>3. life' \in Rows
    BY <1>32, <1>1, <2>1, ZenonT(30) DEF PersistSync, Save, Rows, Phases, None, Commits
  <2>4. QED
    BY <1>32, <2>2, <2>3 DEF PersistSync, Save, TypeOK, repoVars, providerVars
<1>33. ASSUME NEW c \in Clients,
             ReturnReplay(c) \/ NotMerged(c) \/ RecordEvent(c) \/ Refused(c) \/ Interrupted(c)
      PROVE  TypeOK'
  <2>1. Return(c)
    BY <1>33 DEF ReturnReplay, NotMerged, RecordEvent, Refused, Interrupted
  <2>2. lock' \in Clients \cup {Nobody} /\ cuts' \in Nat
    BY <1>33 DEF ReturnReplay, NotMerged, RecordEvent, Refused, Interrupted, OnlyRequest, TypeOK
  <2>3. events' \in SUBSET Ops
    <3>1. CASE RecordEvent(c)
      BY <3>1, <1>5 DEF RecordEvent, TypeOK, Asked, AskedBy, None
    <3>2. CASE ~RecordEvent(c)
      BY <3>2, <1>33 DEF ReturnReplay, NotMerged, Refused, Interrupted, OnlyRequest, TypeOK
    <3>3. QED
      BY <3>1, <3>2
  <2>4. QED
    BY <1>2, <1>33, <2>1, <2>2, <2>3
    DEF ReturnReplay, NotMerged, RecordEvent, Refused, Interrupted, OnlyRequest, TypeOK,
        repoVars, providerVars
<1>34. ASSUME NEW c \in Clients, ApplyPatch(c) PROVE TypeOK'
  <2>1. life' \in Rows
    BY <1>34, <1>1 DEF ApplyPatch, Rows, Phases
  <2>2. QED
    BY <1>34, <2>1 DEF ApplyPatch, TypeOK, providerVars, None, Diffs
<1>35. CASE CloseTask \/ UNCHANGED vars
  BY <1>35 DEF CloseTask, TypeOK, vars, repoVars, providerVars
<1>36. CASE EditFiles \/ CommitByHand \/ SwitchByHand
  <2>1. /\ tips' \in [Branches \cup {Main} -> None(Commits)] /\ diff' \in None(Diffs)
        /\ branch' \in Branches \cup {Main}
    BY <1>36, <1>1, <1>4 DEF EditFiles, CommitByHand, SwitchByHand, None
  <2>2. QED
    BY <1>36, <2>1 DEF EditFiles, CommitByHand, SwitchByHand, Outside, TypeOK
<1>37. ASSUME NEW b \in Branches, PushByOther(b) \/ MergeByOther(b) PROVE TypeOK'
  <2>1. /\ remote' \in [Branches -> None(Commits)] /\ taken' \in [Branches -> None(Commits)]
        /\ pulls' \in [Branches -> {"none", "open", "merged"}] /\ trunk' \in Commits
    BY <1>37, <1>1 DEF PushByOther, MergeByOther, TypeOK, repoVars, None, Commits
  <2>2. QED
    BY <1>37, <2>1 DEF PushByOther, MergeByOther, Outside, TypeOK, repoVars
<1>38. QED
  BY <1>6, <1>7, <1>8, <1>9, <1>10, <1>11, <1>12, <1>13, <1>14, <1>15, <1>16, <1>17,
     <1>18, <1>19, <1>20, <1>21, <1>22, <1>23, <1>24, <1>25, <1>26, <1>27, <1>28, <1>29,
     <1>30, <1>31, <1>32, <1>33, <1>34, <1>35, <1>36, <1>37
  DEF Next, Step

-----------------------------------------------------------------------------
\* Steps after which the row, the records, the remote and the provider are as
\* they were.
Local(c) ==
    \/ \E b \in Branches : LoadBranch(c, b)
    \/ LoadReview(c) \/ LoadCommit(c) \/ LoadPush(c) \/ LoadIssue(c)
    \/ LoadPull(c) \/ LoadMerge(c) \/ LoadSync(c)
    \/ CheckoutBranch(c) \/ CheckCommit(c) \/ CommitReviewed(c) \/ SyncDefault(c)
    \/ ReturnReplay(c) \/ NotMerged(c) \/ Refused(c) \/ RecordEvent(c) \/ Interrupted(c)

Rest == CloseTask \/ EditFiles \/ CommitByHand \/ SwitchByHand \/ UNCHANGED vars

\* What those steps leave alone.
LEMMA LocalSteps ==
  ASSUME NEW c \in Clients, Local(c) \/ Rest
  PROVE  UNCHANGED <<life, idem, issues, remote, pulls, taken, trunk>>
<1>1. ASSUME NEW b \in Branches, LoadBranch(c, b)
      PROVE  UNCHANGED <<life, idem, issues, remote, pulls, taken, trunk>>
  BY <1>1 DEF LoadBranch, OnlyRequest, repoVars, providerVars
<1>2. CASE \/ LoadReview(c) \/ LoadCommit(c) \/ LoadPush(c) \/ LoadIssue(c)
           \/ LoadPull(c) \/ LoadMerge(c) \/ LoadSync(c)
  BY <1>2 DEF LoadReview, LoadCommit, LoadPush, LoadIssue, LoadPull, LoadMerge, LoadSync,
              OnlyRequest, repoVars, providerVars
<1>3. CASE CheckoutBranch(c) \/ CheckCommit(c) \/ CommitReviewed(c) \/ SyncDefault(c)
  BY <1>3 DEF CheckoutBranch, CheckCommit, CommitReviewed, SyncDefault, repoVars, providerVars
<1>4. CASE ReturnReplay(c) \/ NotMerged(c) \/ Refused(c) \/ RecordEvent(c) \/ Interrupted(c)
  BY <1>4 DEF ReturnReplay, NotMerged, Refused, RecordEvent, Interrupted, OnlyRequest,
              repoVars, providerVars
<1>5. CASE Rest
  BY <1>5 DEF Rest, CloseTask, EditFiles, CommitByHand, SwitchByHand, Outside, vars,
              repoVars, providerVars
<1>6. QED
  BY <1>1, <1>2, <1>3, <1>4, <1>5 DEF Local

\* Nothing is taken back.
LEMMA NextGrows ==
  ASSUME TypeOK, RowsTrue, Asked, Results, Locked, [Next]_vars
  PROVE  Grows
<1>1. /\ life \in Rows
      /\ remote \in [Branches -> None(Commits)]
      /\ pulls \in [Branches -> {"none", "open", "merged"}]
      /\ idem \in [issue : None(IssueNumbers), pull : None(Branches),
                   merge : {"none", "merged", "unmerged"}]
      /\ taken \in [Branches -> None(Commits)]
  BY DEF TypeOK
<1>2. ASSUME UNCHANGED <<life, idem, issues, remote, pulls, taken>> PROVE Grows
  BY <1>2 DEF Grows
<1>3. ASSUME NEW c \in Clients, Local(c) PROVE Grows
  BY <1>2, <1>3, LocalSteps
<1>4. CASE Rest
  BY <1>2, <1>4 DEF Rest, CloseTask, EditFiles, CommitByHand, SwitchByHand, Outside, vars,
                    repoVars, providerVars
<1>5. ASSUME NEW c \in Clients, ApplyPatch(c) PROVE Grows
  <2>1. /\ life'.branch = life.branch
        /\ life'.reviewed = life.reviewed
        /\ life'.commit = life.commit /\ life'.push = life.push
        /\ life'.pull = life.pull /\ life'.merge = life.merge
    BY <1>1, <1>5 DEF ApplyPatch, Rows
  <2>2. QED
    BY <1>5, <2>1 DEF ApplyPatch, Grows, providerVars
<1>6. ASSUME NEW c \in Clients, PushCurrentBranch(c) PROVE Grows
  <2>1. \A b \in Branches : remote[b] # "none" => remote'[b] = remote[b]
    BY <1>1, <1>6 DEF PushCurrentBranch, CanPush
  <2>2. QED
    BY <1>6, <2>1 DEF PushCurrentBranch, Grows, providerVars
<1>7. ASSUME NEW c \in Clients, IssueCreate(c) PROVE Grows
  BY <1>7 DEF IssueCreate, Replayed, Created, Grows, repoVars, providerVars
<1>8. ASSUME NEW c \in Clients, PullCreate(c) PROVE Grows
  BY <1>1, <1>8 DEF PullCreate, CanPull, Replayed, Created, Grows, repoVars, providerVars
<1>9. ASSUME NEW c \in Clients, PullMerge(c) PROVE Grows
  <2>1. req[c].seen \in Branches
    BY <1>1, <1>9 DEF PullMerge, Calling, Asked, AskedBy, Rows, None
  <2>2. QED
    BY <1>1, <1>9, <2>1 DEF PullMerge, Replayed, Created, Grows, repoVars, providerVars
<1>10. ASSUME NEW c \in Clients, StoreIssue(c) \/ StorePull(c) \/ StoreMerge(c) PROVE Grows
  <2>1. idem.pull # "none" => idem'.pull = idem.pull
    BY <1>1, <1>10 DEF StoreIssue, StorePull, StoreMerge, Store, Locked, LockedBy
  <2>2. QED
    BY <1>10, <2>1 DEF StoreIssue, StorePull, StoreMerge, Store, Grows, repoVars, providerVars
<1>11. ASSUME NEW c \in Clients,
              \/ PersistBranch(c) \/ PersistReview(c) \/ PersistCommit(c) \/ PersistPush(c)
              \/ PersistIssue(c) \/ PersistPull(c) \/ PersistMerge(c) \/ PersistSync(c)
       PROVE  Grows
  <2>1. UNCHANGED <<idem, issues, remote, pulls, taken>>
    BY <1>11 DEF PersistBranch, PersistReview, PersistCommit, PersistPush, PersistIssue,
                 PersistPull, PersistMerge, PersistSync, Save, repoVars, providerVars
  <2>2. life.branch # "none" => life'.branch # "none"
    BY <1>1, <1>11, ZenonT(30)
    DEF PersistBranch, PersistReview, PersistCommit, PersistPush, PersistIssue, PersistPull,
        PersistMerge, PersistSync, Save, Rows, Results, ResultOf
  <2>3. life.reviewed # "none" => life'.reviewed # "none"
    BY <1>1, <1>11, ZenonT(30)
    DEF PersistBranch, PersistReview, PersistCommit, PersistPush, PersistIssue, PersistPull,
        PersistMerge, PersistSync, Save, Rows, Results, ResultOf, Diffs
  <2>4. life.commit # "none" => life'.commit # "none"
    BY <1>1, <1>11, ZenonT(30)
    DEF PersistBranch, PersistReview, PersistCommit, PersistPush, PersistIssue, PersistPull,
        PersistMerge, PersistSync, Save, Rows, Results, ResultOf, Own, Diffs
  <2>5. life.push # "none" => life'.push # "none"
    BY <1>1, <1>11, ZenonT(30)
    DEF PersistBranch, PersistReview, PersistCommit, PersistPush, PersistIssue, PersistPull,
        PersistMerge, PersistSync, Save, Rows, Results, ResultOf, Own, Diffs
  <2>6. life.pull # "none" => life'.pull = life.pull
    BY <1>1, <1>11, ZenonT(30)
    DEF PersistBranch, PersistReview, PersistCommit, PersistPush, PersistIssue, PersistPull,
        PersistMerge, PersistSync, Save, Rows, Results, ResultOf, RowsTrue, Records
  <2>7. life.merge # "none" => life'.merge # "none"
    BY <1>1, <1>11
    DEF PersistBranch, PersistReview, PersistCommit, PersistPush, PersistIssue, PersistPull,
        PersistMerge, PersistSync, Save, Rows
  <2>8. QED
    BY <2>1, <2>2, <2>3, <2>4, <2>5, <2>6, <2>7 DEF Grows
<1>12. ASSUME NEW b \in Branches, PushByOther(b) \/ MergeByOther(b) PROVE Grows
  BY <1>1, <1>12 DEF PushByOther, MergeByOther, Outside, Grows, repoVars
<1>13. QED
  BY <1>3, <1>4, <1>5, <1>6, <1>7, <1>8, <1>9, <1>10, <1>11, <1>12 DEF Next, Step, Local, Rest

-----------------------------------------------------------------------------
\* The row, the events and the records stay true.
LEMMA NextRows ==
  ASSUME TypeOK, RowsTrue, Asked, Results, Locked, [Next]_vars
  PROVE  RowsTrue'
<1>1. Grows
  BY NextGrows
<1>2. /\ life \in Rows /\ life.phase \in Phases
      /\ life.pull \in None(Branches)
      /\ remote \in [Branches -> None(Commits)]
      /\ pulls \in [Branches -> {"none", "open", "merged"}]
      /\ idem \in [issue : None(IssueNumbers), pull : None(Branches),
                   merge : {"none", "merged", "unmerged"}]
      /\ taken \in [Branches -> None(Commits)]
  BY DEF TypeOK, Rows
<1>3. \A b \in Branches : pulls[b] = "merged" => trunk = "merged"
  BY DEF RowsTrue, Records
<1>4. ASSUME NEW c \in Clients, Local(c), ~RecordEvent(c) PROVE RowsTrue'
  <2>1. UNCHANGED <<life, idem, pulls, trunk>>
    BY <1>4, LocalSteps
  <2>2. UNCHANGED events
    <3>1. ASSUME NEW b \in Branches, LoadBranch(c, b) PROVE UNCHANGED events
      BY <3>1 DEF LoadBranch, OnlyRequest
    <3>2. CASE \/ LoadReview(c) \/ LoadCommit(c) \/ LoadPush(c) \/ LoadIssue(c)
               \/ LoadPull(c) \/ LoadMerge(c) \/ LoadSync(c)
      BY <3>2 DEF LoadReview, LoadCommit, LoadPush, LoadIssue, LoadPull, LoadMerge, LoadSync,
                  OnlyRequest
    <3>3. CASE CheckoutBranch(c) \/ CheckCommit(c) \/ CommitReviewed(c) \/ SyncDefault(c)
      BY <3>3 DEF CheckoutBranch, CheckCommit, CommitReviewed, SyncDefault
    <3>4. CASE ReturnReplay(c) \/ NotMerged(c) \/ Refused(c) \/ Interrupted(c)
      BY <3>4 DEF ReturnReplay, NotMerged, Refused, Interrupted, OnlyRequest
    <3>5. QED
      BY <1>4, <3>1, <3>2, <3>3, <3>4 DEF Local
  <2>3. QED
    BY <1>1, <1>3, <2>1, <2>2, RowsStay
<1>5. ASSUME NEW c \in Clients, RecordEvent(c) PROVE RowsTrue'
  <2>1. UNCHANGED <<life, idem, issues, remote, pulls, taken, trunk>>
    BY <1>5, LocalSteps DEF Local
  <2>2. EvidenceBehindPhase'
    BY <1>5, <2>1 DEF RecordEvent, Results, ResultOf, RowsTrue, EvidenceBehindPhase
  <2>3. QED
    BY <2>1, <2>2 DEF RowsTrue, Columns, Records, ClaimsAreReal, NothingForeignMerged
<1>6. CASE Rest
  <2>1. UNCHANGED <<life, idem, pulls, trunk, events>>
    BY <1>6 DEF Rest, CloseTask, EditFiles, CommitByHand, SwitchByHand, Outside, vars,
                repoVars, providerVars
  <2>2. QED
    BY <1>1, <1>3, <2>1, RowsStay
<1>7. ASSUME NEW c \in Clients, ApplyPatch(c) PROVE RowsTrue'
  <2>1. /\ life'.branch = life.branch
        /\ life'.reviewed = life.reviewed
        /\ life'.commit = life.commit /\ life'.push = life.push
        /\ life'.issue = life.issue /\ life'.pull = life.pull
        /\ life'.merge = life.merge /\ life'.synced = life.synced
        /\ \/ life'.phase = life.phase
           \/ life'.phase = "patched"
    BY <1>2, <1>7 DEF ApplyPatch, Rows
  <2>2. UNCHANGED <<events, idem, remote, issues, pulls, taken, trunk>>
    BY <1>7 DEF ApplyPatch, providerVars
  <2>3. EvidenceBehindPhase'
    <3>1. /\ ~at_least("patched", "reviewed") /\ ~at_least("patched", "committed")
          /\ ~at_least("patched", "pushed") /\ ~at_least("patched", "pr_open")
          /\ ~at_least("patched", "merged") /\ ~at_least("patched", "completed")
      BY AtLeast DEF Phases
    <3>2. QED
      BY <2>1, <2>2, <3>1 DEF RowsTrue, EvidenceBehindPhase
  <2>4. QED
    BY <2>1, <2>2, <2>3 DEF RowsTrue, Columns, Records, ClaimsAreReal, NothingForeignMerged
<1>8. ASSUME NEW c \in Clients,
             PushCurrentBranch(c) \/ IssueCreate(c) \/ PullCreate(c) \/ PullMerge(c)
      PROVE  RowsTrue'
  <2>1. UNCHANGED <<life, events, idem>>
    BY <1>8 DEF PushCurrentBranch, IssueCreate, PullCreate, PullMerge, Replayed, Created
  <2>2. \A b \in Branches : pulls'[b] = "merged" => trunk' = "merged"
    <3>1. CASE PushCurrentBranch(c) \/ IssueCreate(c)
      BY <1>3, <3>1 DEF PushCurrentBranch, IssueCreate, Replayed, Created, providerVars
    <3>2. CASE PullCreate(c)
      BY <1>2, <1>3, <3>2 DEF PullCreate, Replayed, Created, providerVars
    <3>3. CASE PullMerge(c)
      BY <1>2, <1>3, <3>3 DEF PullMerge, Replayed, Created, providerVars
    <3>4. QED
      BY <1>8, <3>1, <3>2, <3>3
  <2>3. QED
    BY <1>1, <2>1, <2>2, RowsStay
<1>9. ASSUME NEW b \in Branches, PushByOther(b) \/ MergeByOther(b) PROVE RowsTrue'
  <2>1. UNCHANGED <<life, events, idem>>
    BY <1>9 DEF PushByOther, MergeByOther, Outside
  <2>2. \A p \in Branches : pulls'[p] = "merged" => trunk' = "merged"
    BY <1>2, <1>3, <1>9 DEF PushByOther, MergeByOther, Outside
  <2>3. QED
    BY <1>1, <2>1, <2>2, RowsStay
<1>10. ASSUME NEW c \in Clients, StoreIssue(c) \/ StorePull(c) \/ StoreMerge(c)
       PROVE  RowsTrue'
  <2>1. UNCHANGED <<life, events, remote, issues, pulls, taken, trunk>>
    BY <1>10 DEF StoreIssue, StorePull, StoreMerge, Store, repoVars, providerVars
  <2>2. Records'
    <3>1. CASE StoreIssue(c)
      <4>1. req[c].value \in issues
        BY <3>1 DEF StoreIssue, Store, Results, ResultOf
      <4>2. idem'.issue = req[c].value /\ idem'.pull = idem.pull /\ idem'.merge = idem.merge
        BY <1>2, <3>1 DEF StoreIssue, Store
      <4>3. QED
        BY <2>1, <4>1, <4>2 DEF RowsTrue, Records
    <3>2. CASE StorePull(c)
      <4>1. pulls[req[c].value] # "none" /\ idem.pull = "none"
        BY <3>2 DEF StorePull, Store, Results, ResultOf, Locked, LockedBy
      <4>2. idem'.issue = idem.issue /\ idem'.pull = req[c].value /\ idem'.merge = idem.merge
        BY <1>2, <3>2 DEF StorePull, Store
      <4>3. QED
        BY <2>1, <4>1, <4>2 DEF RowsTrue, Records
    <3>3. CASE StoreMerge(c)
      <4>1. /\ life.pull # "none" /\ req[c].seen = life.pull
            /\ req[c].value = "merged" => /\ pulls[req[c].seen] = "merged"
                                          /\ taken[req[c].seen] \in Own
        BY <3>3 DEF StoreMerge, Store, Asked, AskedBy, Results, ResultOf
      <4>2. idem'.issue = idem.issue /\ idem'.pull = idem.pull /\ idem'.merge = req[c].value
        BY <1>2, <3>3 DEF StoreMerge, Store
      <4>3. QED
        BY <2>1, <4>1, <4>2 DEF RowsTrue, Records
    <3>4. QED
      BY <1>10, <3>1, <3>2, <3>3
  <2>3. QED
    BY <2>1, <2>2 DEF RowsTrue, Columns, EvidenceBehindPhase, ClaimsAreReal,
                      NothingForeignMerged
<1>11. ASSUME NEW c \in Clients, PersistBranch(c) PROVE RowsTrue'
  <2>1. UNCHANGED <<events, idem, remote, issues, pulls, taken, trunk>>
    BY <1>11 DEF PersistBranch, Save, repoVars, providerVars
  <2>2. req[c].value \in Branches
    BY <1>11 DEF PersistBranch, Save, Asked, AskedBy, Results, ResultOf
  <2>3. /\ life'.phase = "branched" /\ life'.branch = req[c].value
        /\ life'.reviewed = life.reviewed
        /\ life'.commit = life.commit /\ life'.push = life.push /\ life'.issue = life.issue
        /\ life'.pull = life.pull /\ life'.merge = life.merge /\ life'.synced = life.synced
    BY <1>2, <1>11 DEF PersistBranch, Save, Rows
  <2>4. life'.phase \in Phases
    BY <1>2, <2>3 DEF Phases
  <2>5. Columns' /\ Records'
    BY <1>2, <2>1, <2>2, <2>3 DEF RowsTrue, Columns, Records, Own, Diffs, None
  <2>6. EvidenceBehindPhase'
    BY <1>2, <2>1, <2>2, <2>3, <2>4, AtLeast
    DEF RowsTrue, Columns, EvidenceBehindPhase, Own, Diffs
  <2>7. ClaimsAreReal' /\ NothingForeignMerged'
    BY <2>1, <2>2, <2>3 DEF RowsTrue, Columns, Records, ClaimsAreReal, NothingForeignMerged, Own
  <2>8. QED
    BY <2>5, <2>6, <2>7 DEF RowsTrue
<1>12. ASSUME NEW c \in Clients, PersistReview(c) PROVE RowsTrue'
  <2>1. UNCHANGED <<events, idem, remote, issues, pulls, taken, trunk>>
    BY <1>12 DEF PersistReview, Save, repoVars, providerVars
  <2>2. req[c].value \in Diffs /\ life.branch # "none"
    BY <1>12 DEF PersistReview, Save, Asked, AskedBy, Results, ResultOf
  <2>3. /\ life'.phase = "reviewed" /\ life'.branch = life.branch
        /\ life'.reviewed = req[c].value
        /\ life'.commit = life.commit /\ life'.push = life.push /\ life'.issue = life.issue
        /\ life'.pull = life.pull /\ life'.merge = life.merge /\ life'.synced = life.synced
    BY <1>2, <1>12 DEF PersistReview, Save, Rows
  <2>4. life'.phase \in Phases
    BY <1>2, <2>3 DEF Phases
  <2>5. Columns' /\ Records'
    BY <1>2, <2>1, <2>2, <2>3 DEF RowsTrue, Columns, Records, Own, Diffs, None
  <2>6. EvidenceBehindPhase'
    BY <1>2, <2>1, <2>2, <2>3, <2>4, AtLeast
    DEF RowsTrue, Columns, EvidenceBehindPhase, Own, Diffs
  <2>7. ClaimsAreReal' /\ NothingForeignMerged'
    BY <2>1, <2>2, <2>3 DEF RowsTrue, Columns, Records, ClaimsAreReal, NothingForeignMerged, Own
  <2>8. QED
    BY <2>5, <2>6, <2>7 DEF RowsTrue
<1>13. ASSUME NEW c \in Clients, PersistCommit(c) PROVE RowsTrue'
  <2>1. UNCHANGED <<events, idem, remote, issues, pulls, taken, trunk>>
    BY <1>13 DEF PersistCommit, Save, repoVars, providerVars
  <2>2. req[c].value \in Own /\ life.branch # "none" /\ life.reviewed # "none"
    BY <1>13 DEF PersistCommit, Save, Asked, AskedBy, Results, ResultOf
  <2>3. /\ life'.phase = "committed" /\ life'.branch = life.branch
        /\ life'.reviewed = life.reviewed
        /\ life'.commit = req[c].value /\ life'.push = life.push /\ life'.issue = life.issue
        /\ life'.pull = life.pull /\ life'.merge = life.merge /\ life'.synced = life.synced
    BY <1>2, <1>13 DEF PersistCommit, Save, Rows
  <2>4. life'.phase \in Phases
    BY <1>2, <2>3 DEF Phases
  <2>5. Columns' /\ Records'
    BY <1>2, <2>1, <2>2, <2>3 DEF RowsTrue, Columns, Records, Own, Diffs, None
  <2>6. EvidenceBehindPhase'
    BY <1>2, <2>1, <2>2, <2>3, <2>4, AtLeast
    DEF RowsTrue, Columns, EvidenceBehindPhase, Own, Diffs
  <2>7. ClaimsAreReal' /\ NothingForeignMerged'
    BY <2>1, <2>2, <2>3 DEF RowsTrue, Columns, Records, ClaimsAreReal, NothingForeignMerged, Own
  <2>8. QED
    BY <2>5, <2>6, <2>7 DEF RowsTrue
<1>14. ASSUME NEW c \in Clients, PersistPush(c) PROVE RowsTrue'
  <2>1. UNCHANGED <<events, idem, remote, issues, pulls, taken, trunk>>
    BY <1>14 DEF PersistPush, Save, repoVars, providerVars
  <2>2. /\ req[c].value \in Own /\ life.commit # "none"
        /\ \E b \in Branches : remote[b] \in {req[c].value, "alien"}
    BY <1>14 DEF PersistPush, Save, Asked, AskedBy, Results, ResultOf
  <2>3. /\ life'.phase = "pushed" /\ life'.branch = life.branch
        /\ life'.reviewed = life.reviewed
        /\ life'.commit = life.commit /\ life'.push = req[c].value /\ life'.issue = life.issue
        /\ life'.pull = life.pull /\ life'.merge = life.merge /\ life'.synced = life.synced
    BY <1>2, <1>14 DEF PersistPush, Save, Rows
  <2>4. life'.phase \in Phases
    BY <1>2, <2>3 DEF Phases
  <2>5. Columns' /\ Records'
    BY <1>2, <2>1, <2>2, <2>3 DEF RowsTrue, Columns, Records, Own, Diffs, None
  <2>6. EvidenceBehindPhase'
    BY <1>2, <2>1, <2>2, <2>3, <2>4, AtLeast
    DEF RowsTrue, Columns, EvidenceBehindPhase, Own, Diffs
  <2>7. ClaimsAreReal' /\ NothingForeignMerged'
    BY <2>1, <2>2, <2>3 DEF RowsTrue, Columns, Records, ClaimsAreReal, NothingForeignMerged, Own
  <2>8. QED
    BY <2>5, <2>6, <2>7 DEF RowsTrue
<1>15. ASSUME NEW c \in Clients, PersistIssue(c) PROVE RowsTrue'
  <2>1. UNCHANGED <<events, idem, remote, issues, pulls, taken, trunk>>
    BY <1>15 DEF PersistIssue, Save, repoVars, providerVars
  <2>2. req[c].value \in issues
    BY <1>15 DEF PersistIssue, Save, Asked, AskedBy, Results, ResultOf
  <2>3. /\ life'.phase = life.phase /\ life'.branch = life.branch
        /\ life'.reviewed = life.reviewed
        /\ life'.commit = life.commit /\ life'.push = life.push /\ life'.issue = req[c].value
        /\ life'.pull = life.pull /\ life'.merge = life.merge /\ life'.synced = life.synced
    BY <1>2, <1>15 DEF PersistIssue, Save, Rows
  <2>4. life'.phase \in Phases
    BY <1>2, <2>3 DEF Phases
  <2>5. Columns' /\ Records'
    BY <1>2, <2>1, <2>2, <2>3 DEF RowsTrue, Columns, Records, Own, Diffs, None
  <2>6. EvidenceBehindPhase'
    BY <1>2, <2>1, <2>2, <2>3, <2>4, AtLeast
    DEF RowsTrue, Columns, EvidenceBehindPhase, Own, Diffs
  <2>7. ClaimsAreReal' /\ NothingForeignMerged'
    BY <2>1, <2>2, <2>3 DEF RowsTrue, Columns, Records, ClaimsAreReal, NothingForeignMerged, Own
  <2>8. QED
    BY <2>5, <2>6, <2>7 DEF RowsTrue
<1>16. ASSUME NEW c \in Clients, PersistPull(c) PROVE RowsTrue'
  <2>1. UNCHANGED <<events, idem, remote, issues, pulls, taken, trunk>>
    BY <1>16 DEF PersistPull, Save, repoVars, providerVars
  <2>2. req[c].value = idem.pull /\ idem.pull # "none" /\ life.push # "none"
    BY <1>16 DEF PersistPull, Save, Asked, AskedBy, Results, ResultOf
  <2>3. /\ life'.phase = "pr_open" /\ life'.branch = life.branch
        /\ life'.reviewed = life.reviewed
        /\ life'.commit = life.commit /\ life'.push = life.push /\ life'.issue = life.issue
        /\ life'.pull = req[c].value /\ life'.merge = life.merge /\ life'.synced = life.synced
    BY <1>2, <1>16 DEF PersistPull, Save, Rows
  <2>4. life'.phase \in Phases
    BY <1>2, <2>3 DEF Phases
  <2>5. Columns' /\ Records'
    BY <1>2, <2>1, <2>2, <2>3 DEF RowsTrue, Columns, Records, Own, Diffs, None
  <2>6. EvidenceBehindPhase'
    BY <1>2, <2>1, <2>2, <2>3, <2>4, AtLeast
    DEF RowsTrue, Columns, EvidenceBehindPhase, Own, Diffs
  <2>7. ClaimsAreReal' /\ NothingForeignMerged'
    BY <2>1, <2>2, <2>3 DEF RowsTrue, Columns, Records, ClaimsAreReal, NothingForeignMerged, Own
  <2>8. QED
    BY <2>5, <2>6, <2>7 DEF RowsTrue
<1>17. ASSUME NEW c \in Clients, PersistMerge(c) PROVE RowsTrue'
  <2>1. UNCHANGED <<events, idem, remote, issues, pulls, taken, trunk>>
    BY <1>17 DEF PersistMerge, Save, repoVars, providerVars
  <2>2. /\ life.pull # "none"
        /\ pulls[life.pull] = "merged" /\ taken[life.pull] \in Own
    BY <1>17 DEF PersistMerge, Save, Asked, AskedBy, Results, ResultOf
  <2>3. /\ life'.phase = "merged" /\ life'.branch = life.branch
        /\ life'.reviewed = life.reviewed
        /\ life'.commit = life.commit /\ life'.push = life.push /\ life'.issue = life.issue
        /\ life'.pull = life.pull /\ life'.merge = "merged" /\ life'.synced = life.synced
    BY <1>2, <1>17 DEF PersistMerge, Save, Rows
  <2>4. life'.phase \in Phases
    BY <1>2, <2>3 DEF Phases
  <2>5. Columns' /\ Records'
    BY <1>2, <2>1, <2>2, <2>3 DEF RowsTrue, Columns, Records, Own, Diffs, None
  <2>6. EvidenceBehindPhase'
    BY <1>2, <2>1, <2>2, <2>3, <2>4, AtLeast
    DEF RowsTrue, Columns, EvidenceBehindPhase, Own, Diffs
  <2>7. ClaimsAreReal' /\ NothingForeignMerged'
    BY <2>1, <2>2, <2>3 DEF RowsTrue, Columns, Records, ClaimsAreReal, NothingForeignMerged, Own
  <2>8. QED
    BY <2>5, <2>6, <2>7 DEF RowsTrue
<1>18. ASSUME NEW c \in Clients, PersistSync(c) PROVE RowsTrue'
  <2>1. UNCHANGED <<events, idem, remote, issues, pulls, taken, trunk>>
    BY <1>18 DEF PersistSync, Save, repoVars, providerVars
  <2>2. req[c].value = "merged" /\ life.merge # "none"
    BY <1>18 DEF PersistSync, Save, Asked, AskedBy, Results, ResultOf
  <2>3. /\ life'.phase = "completed" /\ life'.branch = life.branch
        /\ life'.reviewed = life.reviewed
        /\ life'.commit = life.commit /\ life'.push = life.push /\ life'.issue = life.issue
        /\ life'.pull = life.pull /\ life'.merge = life.merge /\ life'.synced = req[c].value
    BY <1>2, <1>18 DEF PersistSync, Save, Rows
  <2>4. life'.phase \in Phases
    BY <1>2, <2>3 DEF Phases
  <2>5. Columns' /\ Records'
    BY <1>2, <2>1, <2>2, <2>3 DEF RowsTrue, Columns, Records, Own, Diffs, None
  <2>6. EvidenceBehindPhase'
    BY <1>2, <2>1, <2>2, <2>3, <2>4, AtLeast
    DEF RowsTrue, Columns, EvidenceBehindPhase, Own, Diffs
  <2>7. ClaimsAreReal' /\ NothingForeignMerged'
    BY <2>1, <2>2, <2>3 DEF RowsTrue, Columns, Records, ClaimsAreReal, NothingForeignMerged, Own
  <2>8. QED
    BY <2>5, <2>6, <2>7 DEF RowsTrue
<1>19. QED
  BY <1>4, <1>5, <1>6, <1>7, <1>8, <1>9, <1>10, <1>11, <1>12, <1>13, <1>14, <1>15, <1>16,
     <1>17, <1>18
  DEF Next, Step, Local, Rest

-----------------------------------------------------------------------------
\* The requests keep what they found and what they have to write.
LEMMA NextRequests ==
  ASSUME TypeOK, RowsTrue, Asked, Results, Locked, [Next]_vars
  PROVE  Asked' /\ Results'
<1>1. Grows
  BY NextGrows
<1>2. /\ life \in Rows /\ life.phase \in Phases
      /\ life.branch \in None(Branches) /\ life.reviewed \in None(Diffs)
      /\ life.pull \in None(Branches)
      /\ req \in [Clients -> Requests] /\ branch \in Branches \cup {Main}
      /\ tips \in [Branches \cup {Main} -> None(Commits)] /\ diff \in None(Diffs)
      /\ remote \in [Branches -> None(Commits)]
      /\ pulls \in [Branches -> {"none", "open", "merged"}]
      /\ idem \in [issue : None(IssueNumbers), pull : None(Branches),
                   merge : {"none", "merged", "unmerged"}]
      /\ taken \in [Branches -> None(Commits)] /\ issues \subseteq IssueNumbers
  BY DEF TypeOK, Rows
<1>3. branch # "none" /\ Main # "none" /\ "none" \notin Branches
  BY <1>2
<1>4. ASSUME NEW c \in Clients, Return(c) PROVE Asked' /\ Results'
  <2>1. req'[c] = NoRequest
    BY <1>2, <1>4 DEF Return
  <2>2. AskedBy(c)' /\ ResultOf(c)'
    BY <2>1 DEF NoRequest, AskedBy, ResultOf
  <2>3. QED
    BY <1>1, <1>4, <2>2, OthersWait DEF Return
<1>5. ASSUME NEW c \in Clients, NEW b \in Branches, LoadBranch(c, b) PROVE Asked' /\ Results'
  <2>1. /\ req'[c].op = "branch" /\ req'[c].at \in {"loaded", "done"}
        /\ req'[c].seen = "none" /\ req'[c].value = b
        /\ UNCHANGED <<life, idem, issues, remote, pulls, taken>>
    BY <1>2, <1>5 DEF LoadBranch, Loaded, OnlyRequest, repoVars, providerVars
  <2>2. AskedBy(c)' /\ ResultOf(c)'
    BY <2>1, <1>2 DEF AskedBy, ResultOf
  <2>3. QED
    BY <1>1, <1>5, <2>2, OthersWait DEF LoadBranch, Loaded
<1>6. ASSUME NEW c \in Clients, LoadReview(c) PROVE Asked' /\ Results'
  <2>1. life.branch # "none" /\ diff \in Diffs
    BY <1>6, <1>2, <1>3 DEF LoadReview, None
  <2>2. /\ req'[c].op = "review" /\ req'[c].at = "done"
        /\ req'[c].seen = "none" /\ req'[c].value = diff
        /\ UNCHANGED <<life, idem, issues, remote, pulls, taken>>
    BY <1>2, <1>6, <2>1 DEF LoadReview, Loaded, OnlyRequest, repoVars, providerVars
  <2>3. AskedBy(c)' /\ ResultOf(c)'
    BY <2>1, <2>2, <1>2 DEF AskedBy, ResultOf
  <2>4. QED
    BY <1>1, <1>6, <2>3, OthersWait DEF LoadReview, Loaded
<1>7. ASSUME NEW c \in Clients, LoadCommit(c) PROVE Asked' /\ Results'
  <2>1. life.branch # "none" /\ life.reviewed # "none"
    BY <1>7, <1>2, AtLeast DEF LoadCommit, RowsTrue, EvidenceBehindPhase
  <2>2. /\ req'[c].op = "commit" /\ req'[c].at \in {"loaded", "done"}
        /\ req'[c].seen = "none" /\ req'[c].value \in Own
        /\ UNCHANGED <<life, idem, issues, remote, pulls, taken>>
    BY <1>2, <1>7, <2>1
    DEF LoadCommit, Loaded, OnlyRequest, repoVars, providerVars, Own, None
  <2>3. AskedBy(c)' /\ ResultOf(c)'
    BY <2>1, <2>2, <1>2 DEF AskedBy, ResultOf, Own, None
  <2>4. QED
    BY <1>1, <1>7, <2>3, OthersWait DEF LoadCommit, Loaded
<1>8. ASSUME NEW c \in Clients, LoadPush(c) PROVE Asked' /\ Results'
  <2>1. /\ life.commit # "none" /\ life.commit \in Own /\ life.branch \in Branches
    BY <1>8, <1>2, <1>3 DEF LoadPush, RowsTrue, Columns, None
  <2>2. /\ req'[c].op = "push" /\ req'[c].at \in {"loaded", "done"}
        /\ req'[c].seen = "none" /\ req'[c].value = life.commit
        /\ req'[c].at = "done" => remote[life.branch] = life.commit
        /\ UNCHANGED <<life, idem, issues, remote, pulls, taken>>
    BY <1>2, <1>8, <2>1 DEF LoadPush, Loaded, OnlyRequest, repoVars, providerVars
  <2>3. AskedBy(c)' /\ ResultOf(c)'
    BY <2>1, <2>2, <1>2 DEF AskedBy, ResultOf
  <2>4. QED
    BY <1>1, <1>8, <2>3, OthersWait DEF LoadPush, Loaded
<1>9. ASSUME NEW c \in Clients, LoadIssue(c) PROVE Asked' /\ Results'
  <2>1. /\ req'[c].op = "issue" /\ req'[c].at = "loaded"
        /\ req'[c].seen = life.issue /\ req'[c].value = "none"
        /\ UNCHANGED <<life, idem, issues, remote, pulls, taken>>
    BY <1>2, <1>9 DEF LoadIssue, Loaded, OnlyRequest, repoVars, providerVars
  <2>2. AskedBy(c)' /\ ResultOf(c)'
    BY <2>1, <1>2 DEF AskedBy, ResultOf
  <2>3. QED
    BY <1>1, <1>9, <2>2, OthersWait DEF LoadIssue, Loaded
<1>10. ASSUME NEW c \in Clients, LoadPull(c) PROVE Asked' /\ Results'
  <2>1. life.push # "none"
    BY <1>10, <1>2 DEF LoadPull
  <2>2. /\ req'[c].op = "pull" /\ req'[c].at = "loaded"
        /\ req'[c].seen = life.pull /\ req'[c].value = life.push
        /\ UNCHANGED <<life, idem, issues, remote, pulls, taken>>
    BY <1>2, <1>10, <2>1 DEF LoadPull, Loaded, OnlyRequest, repoVars, providerVars
  <2>3. AskedBy(c)' /\ ResultOf(c)'
    BY <2>1, <2>2, <1>2 DEF AskedBy, ResultOf
  <2>4. QED
    BY <1>1, <1>10, <2>3, OthersWait DEF LoadPull, Loaded
<1>11. ASSUME NEW c \in Clients, LoadMerge(c) PROVE Asked' /\ Results'
  <2>1. life.pull # "none" /\ life.push \in Own
    BY <1>11, <1>2 DEF LoadMerge, RowsTrue, Columns, None
  <2>2. /\ req'[c].op = "merge" /\ req'[c].at = "loaded"
        /\ req'[c].seen = life.pull /\ req'[c].value = life.push
        /\ UNCHANGED <<life, idem, issues, remote, pulls, taken>>
    BY <1>2, <1>11, <2>1 DEF LoadMerge, Loaded, OnlyRequest, repoVars, providerVars
  <2>3. AskedBy(c)' /\ ResultOf(c)'
    BY <2>1, <2>2, <1>2 DEF AskedBy, ResultOf
  <2>4. QED
    BY <1>1, <1>11, <2>3, OthersWait DEF LoadMerge, Loaded
<1>12. ASSUME NEW c \in Clients, LoadSync(c) PROVE Asked' /\ Results'
  <2>1. life.merge # "none"
    BY <1>12, <1>2, AtLeast DEF LoadSync, RowsTrue, EvidenceBehindPhase
  <2>2. /\ req'[c].op = "sync" /\ req'[c].at = "loaded"
        /\ req'[c].seen = "none" /\ req'[c].value = "none"
        /\ UNCHANGED <<life, idem, issues, remote, pulls, taken>>
    BY <1>2, <1>12, <2>1 DEF LoadSync, Loaded, OnlyRequest, repoVars, providerVars
  <2>3. AskedBy(c)' /\ ResultOf(c)'
    BY <2>1, <2>2, <1>2 DEF AskedBy, ResultOf
  <2>4. QED
    BY <1>1, <1>12, <2>3, OthersWait DEF LoadSync, Loaded
<1>13. ASSUME NEW c \in Clients, CheckoutBranch(c) PROVE Asked' /\ Results'
  <2>1. req[c].op = "branch" /\ req[c].value \in Branches
    BY <1>2, <1>13 DEF CheckoutBranch, Calling, Results, ResultOf
  <2>2. /\ req'[c].op = req[c].op /\ req'[c].seen = req[c].seen
        /\ req'[c].at = "done" /\ req'[c].value = req[c].value
        /\ UNCHANGED <<life, idem, issues, remote, pulls, taken>>
    BY <1>2, <1>13, <2>1 DEF CheckoutBranch, Continue, providerVars
  <2>3. AskedBy(c)' /\ ResultOf(c)'
    BY <1>1, <1>2, <1>3, <2>1, <2>2 DEF AskedBy, ResultOf
  <2>4. QED
    BY <1>1, <1>13, <2>3, OthersWait DEF CheckoutBranch, Continue
<1>14. ASSUME NEW c \in Clients, CheckCommit(c) PROVE Asked' /\ Results'
  <2>1. /\ req[c].op = "commit" /\ req[c].value \in Own
        /\ life.branch # "none" /\ life.reviewed # "none"
    BY <1>2, <1>14 DEF CheckCommit, Calling, Asked, AskedBy, Results, ResultOf
  <2>2. /\ req'[c].op = req[c].op /\ req'[c].seen = req[c].seen
        /\ req'[c].at = "checked" /\ req'[c].value = req[c].value
        /\ UNCHANGED <<life, idem, issues, remote, pulls, taken>>
    BY <1>2, <1>14, <2>1 DEF CheckCommit, Continue, repoVars, providerVars
  <2>3. AskedBy(c)' /\ ResultOf(c)'
    BY <1>1, <1>2, <1>3, <2>1, <2>2 DEF AskedBy, ResultOf
  <2>4. QED
    BY <1>1, <1>14, <2>3, OthersWait DEF CheckCommit, Continue
<1>15. ASSUME NEW c \in Clients, CommitReviewed(c) PROVE Asked' /\ Results'
  <2>1. CASE Return(c)
    BY <1>4, <2>1
  <2>2. CASE diff # "none" /\ Continue(c, "done", Committed)
    <3>1. req[c].op = "commit" /\ life.branch # "none" /\ life.reviewed # "none"
      BY <1>15 DEF CommitReviewed, Locked, LockedBy, Asked, AskedBy
    <3>2. Committed \in Own
      BY <1>2, <2>2 DEF Committed, Own, None
    <3>3. /\ req'[c].op = req[c].op /\ req'[c].seen = req[c].seen
          /\ req'[c].at = "done" /\ req'[c].value = Committed
          /\ UNCHANGED life
      BY <1>2, <1>15, <2>2 DEF CommitReviewed, Continue
    <3>4. AskedBy(c)' /\ ResultOf(c)'
      BY <3>1, <3>2, <3>3 DEF AskedBy, ResultOf
    <3>5. QED
      BY <1>1, <2>2, <3>4, OthersWait DEF Continue
  <2>3. QED
    BY <1>15, <2>1, <2>2 DEF CommitReviewed
<1>16. ASSUME NEW c \in Clients, PushCurrentBranch(c) PROVE Asked' /\ Results'
  <2>1. /\ req[c].op = "push" /\ req[c].value \in Own /\ life.commit # "none"
        /\ Head = req[c].value /\ branch \in Branches
    BY <1>2, <1>16 DEF PushCurrentBranch, CanPush, Calling, Asked, AskedBy, Results, ResultOf
  <2>2. /\ req'[c].op = req[c].op /\ req'[c].seen = req[c].seen
        /\ req'[c].at = "done" /\ req'[c].value = req[c].value
        /\ remote'[branch] = req[c].value /\ UNCHANGED life
    BY <1>2, <1>16, <2>1 DEF PushCurrentBranch, Continue
  <2>3. AskedBy(c)' /\ ResultOf(c)'
    BY <1>1, <1>2, <1>3, <2>1, <2>2 DEF AskedBy, ResultOf
  <2>4. QED
    BY <1>1, <1>16, <2>3, OthersWait DEF PushCurrentBranch, Continue
<1>17. ASSUME NEW c \in Clients, IssueCreate(c) PROVE Asked' /\ Results'
  <2>1. req[c].op = "issue" /\ (idem.issue # "none" => idem.issue \in issues)
    BY <1>2, <1>17 DEF IssueCreate, Calling, RowsTrue, Records
  <2>2. /\ req'[c].op = req[c].op /\ req'[c].seen = req[c].seen
        /\ req'[c].at \in {"created", "done"} /\ req'[c].value \in issues'
        /\ UNCHANGED life
    BY <1>2, <1>17, <2>1 DEF IssueCreate, Replayed, Created, Continue, providerVars
  <2>3. AskedBy(c)' /\ ResultOf(c)'
    BY <1>1, <1>2, <1>3, <2>1, <2>2 DEF AskedBy, ResultOf
  <2>4. QED
    BY <1>1, <1>17, <2>3, OthersWait DEF IssueCreate, Replayed, Created, Continue
<1>18. ASSUME NEW c \in Clients, PullCreate(c) PROVE Asked' /\ Results'
  <2>1. req[c].op = "pull" /\ life.push # "none" /\ branch \in Branches
    BY <1>2, <1>18 DEF PullCreate, CanPull, Calling, Asked, AskedBy
  <2>2. /\ req'[c].op = req[c].op /\ UNCHANGED <<life, idem>>
        /\ \/ req'[c].at = "done" /\ req'[c].value = idem.pull /\ idem.pull # "none"
           \/ req'[c].at = "created" /\ req'[c].value = branch /\ pulls'[branch] = "open"
    BY <1>2, <1>18, <2>1 DEF PullCreate, Replayed, Created, Continue
  <2>3. AskedBy(c)' /\ ResultOf(c)'
    BY <1>1, <1>2, <1>3, <2>1, <2>2 DEF AskedBy, ResultOf
  <2>4. QED
    BY <1>1, <1>18, <2>3, OthersWait DEF PullCreate, Replayed, Created, Continue
<1>19. ASSUME NEW c \in Clients, PullMerge(c) PROVE Asked' /\ Results'
  <2>1. /\ req[c].op = "merge" /\ life.pull # "none" /\ req[c].seen = life.pull
        /\ req[c].seen \in Branches /\ req[c].seen = idem.pull
        /\ PullHead(req[c].seen) \in Own
        /\ idem.merge = "merged" => pulls[idem.pull] = "merged" /\ taken[idem.pull] \in Own
    BY <1>2, <1>19
    DEF PullMerge, CanMerge, Calling, Asked, AskedBy, Results, ResultOf, None, RowsTrue,
        Records
  <2>2. /\ req'[c].op = "merge" /\ req'[c].seen = req[c].seen /\ UNCHANGED life
        /\ req'[c].at \in {"created", "done"} /\ req'[c].value \in {"merged", "unmerged"}
        /\ req'[c].value = "merged" => /\ pulls'[req[c].seen] = "merged"
                                       /\ taken'[req[c].seen] \in Own
    BY <1>2, <1>19, <2>1 DEF PullMerge, PullHead, Replayed, Created, Continue, providerVars
  <2>3. AskedBy(c)' /\ ResultOf(c)'
    BY <1>1, <1>2, <1>3, <2>1, <2>2 DEF AskedBy, ResultOf
  <2>4. QED
    BY <1>1, <1>19, <2>3, OthersWait DEF PullMerge, Replayed, Created, Continue
<1>20. ASSUME NEW c \in Clients, SyncDefault(c) PROVE Asked' /\ Results'
  <2>1. CASE Return(c)
    BY <1>4, <2>1
  <2>2. CASE Continue(c, "done", trunk)
    <3>1. req[c].op = "sync" /\ life.merge # "none"
      BY <1>20 DEF SyncDefault, Calling, Asked, AskedBy
    <3>2. trunk = "merged"
      BY <1>2, <3>1 DEF RowsTrue, Columns, Records, ClaimsAreReal, None
    <3>3. /\ req'[c].op = "sync" /\ req'[c].at = "done" /\ req'[c].value = trunk
          /\ UNCHANGED life
      BY <1>2, <1>20, <2>2, <3>1 DEF SyncDefault, Continue
    <3>4. AskedBy(c)' /\ ResultOf(c)'
      BY <3>1, <3>2, <3>3 DEF AskedBy, ResultOf
    <3>5. QED
      BY <1>1, <2>2, <3>4, OthersWait DEF Continue
  <2>3. QED
    BY <1>20, <2>1, <2>2 DEF SyncDefault
<1>21. ASSUME NEW c \in Clients, StoreIssue(c) PROVE Asked' /\ Results'
  <2>1. req[c].op = "issue" /\ req[c].value \in issues
    BY <1>2, <1>21 DEF StoreIssue, Store, Results, ResultOf
  <2>2. /\ req'[c].op = req[c].op /\ req'[c].seen = req[c].seen /\ req'[c].at = "done"
        /\ req'[c].value = req[c].value /\ UNCHANGED <<life, issues, pulls, taken>>
    BY <1>2, <1>21, <2>1 DEF StoreIssue, Store, Continue, providerVars
  <2>3. AskedBy(c)' /\ ResultOf(c)'
    BY <1>1, <1>2, <1>3, <2>1, <2>2 DEF AskedBy, ResultOf
  <2>4. QED
    BY <1>1, <1>21, <2>3, OthersWait DEF StoreIssue, Store, Continue
<1>22. ASSUME NEW c \in Clients, StorePull(c) PROVE Asked' /\ Results'
  <2>1. req[c].op = "pull" /\ req[c].value \in Branches /\ life.push # "none"
    BY <1>2, <1>22 DEF StorePull, Store, Asked, AskedBy, Results, ResultOf
  <2>2. /\ req'[c].op = req[c].op /\ req'[c].seen = req[c].seen /\ req'[c].at = "done"
        /\ req'[c].value = req[c].value /\ UNCHANGED <<life, issues, pulls, taken>>
        /\ idem'.pull = req[c].value
    BY <1>2, <1>22, <2>1 DEF StorePull, Store, Continue, providerVars
  <2>3. AskedBy(c)' /\ ResultOf(c)'
    BY <1>1, <1>2, <1>3, <2>1, <2>2 DEF AskedBy, ResultOf
  <2>4. QED
    BY <1>1, <1>22, <2>3, OthersWait DEF StorePull, Store, Continue
<1>23. ASSUME NEW c \in Clients, StoreMerge(c) PROVE Asked' /\ Results'
  <2>1. /\ req[c].op = "merge" /\ life.pull # "none" /\ req[c].seen = life.pull
        /\ req[c].value \in {"merged", "unmerged"}
        /\ req[c].value = "merged" => /\ pulls[req[c].seen] = "merged"
                                      /\ taken[req[c].seen] \in Own
    BY <1>2, <1>23 DEF StoreMerge, Store, Asked, AskedBy, Results, ResultOf
  <2>2. /\ req'[c].op = req[c].op /\ req'[c].seen = req[c].seen /\ req'[c].at = "done"
        /\ req'[c].value = req[c].value /\ UNCHANGED <<life, issues, pulls, taken>>
    BY <1>2, <1>23, <2>1 DEF StoreMerge, Store, Continue, providerVars
  <2>3. AskedBy(c)' /\ ResultOf(c)'
    BY <1>1, <1>2, <1>3, <2>1, <2>2 DEF AskedBy, ResultOf
  <2>4. QED
    BY <1>1, <1>23, <2>3, OthersWait DEF StoreMerge, Store, Continue
<1>24. ASSUME NEW c \in Clients,
              \/ PersistBranch(c) \/ PersistReview(c) \/ PersistCommit(c) \/ PersistPush(c)
              \/ PersistIssue(c) \/ PersistPull(c) \/ PersistMerge(c) \/ PersistSync(c)
       PROVE  Asked' /\ Results'
  <2>1. /\ req[c].at = "done" /\ Continue(c, "saved", req[c].value)
        /\ UNCHANGED <<idem, issues, remote, pulls, taken>>
    BY <1>24
    DEF PersistBranch, PersistReview, PersistCommit, PersistPush, PersistIssue,
        PersistPull, PersistMerge, PersistSync, Save, repoVars, providerVars
  <2>2. /\ req'[c].op = req[c].op /\ req'[c].seen = req[c].seen
        /\ req'[c].at = "saved" /\ req'[c].value = req[c].value
    BY <1>2, <2>1 DEF Continue
  <2>3. AskedBy(c) /\ ResultOf(c)
    BY DEF Asked, Results
  <2>4. AskedBy(c)'
    BY <1>1, <2>1, <2>2, <2>3 DEF AskedBy, Grows
  <2>5. req[c].op = "push" => life'.push # "none"
    BY <1>2, <1>24, <2>3
    DEF PersistBranch, PersistReview, PersistCommit, PersistPush, PersistIssue,
        PersistPull, PersistMerge, PersistSync, Save,
        Rows, ResultOf, Own, Diffs
  <2>6. req[c].op = "merge" => life'.merge # "none"
    BY <1>2, <1>24
    DEF PersistBranch, PersistReview, PersistCommit, PersistPush, PersistIssue,
        PersistPull, PersistMerge, PersistSync, Save, Rows
  <2>7. ResultOf(c)'
    BY <2>1, <2>2, <2>3, <2>5, <2>6 DEF ResultOf
  <2>8. QED
    BY <1>1, <2>1, <2>4, <2>7, OthersWait DEF Continue
<1>25. ASSUME NEW c \in Clients,
              \/ ReturnReplay(c) \/ NotMerged(c) \/ RecordEvent(c) \/ Refused(c)
              \/ Interrupted(c)
       PROVE  Asked' /\ Results'
  BY <1>4, <1>25 DEF ReturnReplay, NotMerged, RecordEvent, Refused, Interrupted
<1>26. ASSUME UNCHANGED req PROVE Asked' /\ Results'
  BY <1>1, <1>26, Waits DEF Asked, Results
<1>27. ASSUME NEW c \in Clients, ApplyPatch(c) PROVE Asked' /\ Results'
  BY <1>26, <1>27 DEF ApplyPatch
<1>28. CASE Rest
  BY <1>26, <1>28 DEF Rest, CloseTask, EditFiles, CommitByHand, SwitchByHand, Outside, vars
<1>29. ASSUME NEW b \in Branches, PushByOther(b) \/ MergeByOther(b)
       PROVE  Asked' /\ Results'
  BY <1>26, <1>29 DEF PushByOther, MergeByOther, Outside
<1>30. QED
  BY <1>5, <1>6, <1>7, <1>8, <1>9, <1>10, <1>11, <1>12, <1>13, <1>14, <1>15, <1>16, <1>17,
     <1>18, <1>19, <1>20, <1>21, <1>22, <1>23, <1>24, <1>25, <1>27, <1>28, <1>29
  DEF Next, Step, Rest

-----------------------------------------------------------------------------
\* A step of one request leaves what the others have of the lock, if it leaves the
\* lock, takes it when it is free, or gives back its own.
LEMMA OthersLocked ==
  ASSUME TypeOK, Locked, NEW c \in Clients, NEW r, req' = [req EXCEPT ![c] = r],
         \/ UNCHANGED <<lock, idem>>
         \/ lock = Nobody /\ UNCHANGED idem
         \/ lock = c,
         LockedBy(c)'
  PROVE  Locked'
<1>1. SUFFICES ASSUME NEW d \in Clients, d # c PROVE LockedBy(d)'
  BY DEF Locked
<1>2. req'[d] = req[d] /\ LockedBy(d)
  BY <1>1 DEF TypeOK, Locked
<1>3. QED
  BY <1>1, <1>2 DEF LockedBy

\* A request between its act and its record holds the lock.
LEMMA NextLocked ==
  ASSUME TypeOK, Locked, [Next]_vars
  PROVE  Locked'
<1>1. /\ req \in [Clients -> Requests]
      /\ idem \in [issue : None(IssueNumbers), pull : None(Branches),
                   merge : {"none", "merged", "unmerged"}]
  BY DEF TypeOK
<1>2. ASSUME NEW c \in Clients, Return(c), UNCHANGED <<lock, idem>> \/ lock = c
      PROVE  Locked'
  <2>1. req'[c] = NoRequest
    BY <1>1, <1>2 DEF Return
  <2>2. LockedBy(c)'
    BY <2>1 DEF NoRequest, LockedBy
  <2>3. QED
    BY <1>2, <2>2, OthersLocked DEF Return
<1>3. ASSUME NEW c \in Clients, NEW at \in {"done", "saved"}, NEW value,
             Continue(c, at, value), UNCHANGED <<lock, idem>> \/ lock = c
      PROVE  Locked'
  <2>1. req'[c].at = at
    BY <1>1, <1>3 DEF Continue
  <2>2. LockedBy(c)'
    BY <2>1 DEF LockedBy
  <2>3. QED
    BY <1>3, <2>2, OthersLocked DEF Continue
<1>4. ASSUME NEW c \in Clients, NEW op, NEW at \in {"loaded", "done"}, NEW seen, NEW value,
             Loaded(c, op, at, seen, value), UNCHANGED <<lock, idem>>
      PROVE  Locked'
  <2>1. req'[c].at = at
    BY <1>1, <1>4 DEF Loaded
  <2>2. LockedBy(c)'
    BY <2>1 DEF LockedBy
  <2>3. QED
    BY <1>4, <2>2, OthersLocked DEF Loaded
<1>5. ASSUME NEW c \in Clients, NEW b \in Branches, LoadBranch(c, b) PROVE Locked'
  BY <1>4, <1>5 DEF LoadBranch, OnlyRequest
<1>6. ASSUME NEW c \in Clients, LoadReview(c) PROVE Locked'
  BY <1>4, <1>6 DEF LoadReview, OnlyRequest
<1>7. ASSUME NEW c \in Clients, LoadCommit(c) PROVE Locked'
  BY <1>4, <1>7 DEF LoadCommit, OnlyRequest
<1>8. ASSUME NEW c \in Clients, LoadPush(c) PROVE Locked'
  BY <1>4, <1>8 DEF LoadPush, OnlyRequest
<1>9. ASSUME NEW c \in Clients, LoadIssue(c) \/ LoadPull(c) PROVE Locked'
  BY <1>4, <1>9 DEF LoadIssue, LoadPull, OnlyRequest
<1>10. ASSUME NEW c \in Clients, LoadMerge(c) \/ LoadSync(c) PROVE Locked'
  BY <1>4, <1>10 DEF LoadMerge, LoadSync, OnlyRequest
<1>11. ASSUME NEW c \in Clients, CheckoutBranch(c) \/ PushCurrentBranch(c) PROVE Locked'
  BY <1>3, <1>11 DEF CheckoutBranch, PushCurrentBranch
<1>12. ASSUME NEW c \in Clients, SyncDefault(c) PROVE Locked'
  BY <1>2, <1>3, <1>12 DEF SyncDefault
<1>13. ASSUME NEW c \in Clients, CheckCommit(c) PROVE Locked'
  <2>1. req'[c].op = "commit" /\ req'[c].at = "checked" /\ lock' = c
    BY <1>1, <1>13 DEF CheckCommit, Calling, Continue
  <2>2. LockedBy(c)'
    BY <2>1 DEF LockedBy
  <2>3. QED
    BY <1>13, <2>2, OthersLocked DEF CheckCommit, Calling, Continue
<1>14. ASSUME NEW c \in Clients, CommitReviewed(c) PROVE Locked'
  <2>1. lock = c
    BY <1>14 DEF CommitReviewed, Locked, LockedBy
  <2>2. QED
    BY <1>2, <1>3, <1>14, <2>1 DEF CommitReviewed
<1>15. ASSUME NEW c \in Clients, IssueCreate(c) PROVE Locked'
  <2>1. CASE idem.issue # "none" /\ Replayed(c, idem.issue)
    BY <1>3, <2>1 DEF Replayed
  <2>2. ASSUME idem.issue = "none", NEW n \in IssueNumbers, Created(c, n) PROVE Locked'
    <3>1. req'[c].op = "issue" /\ req'[c].at = "created" /\ lock' = c
      BY <1>1, <1>15, <2>2 DEF IssueCreate, Calling, Created, Continue
    <3>2. LockedBy(c)'
      BY <2>2, <3>1 DEF LockedBy, Created
    <3>3. QED
      BY <1>15, <2>2, <3>2, OthersLocked DEF IssueCreate, Calling, Created, Continue
  <2>3. QED
    BY <1>15, <2>1, <2>2 DEF IssueCreate
<1>16. ASSUME NEW c \in Clients, PullCreate(c) PROVE Locked'
  <2>1. CASE idem.pull # "none" /\ Replayed(c, idem.pull)
    BY <1>3, <2>1 DEF Replayed
  <2>2. CASE idem.pull = "none" /\ Created(c, branch)
    <3>1. req'[c].op = "pull" /\ req'[c].at = "created" /\ lock' = c
      BY <1>1, <1>16, <2>2 DEF PullCreate, Calling, Created, Continue
    <3>2. LockedBy(c)'
      BY <2>2, <3>1 DEF LockedBy, Created
    <3>3. QED
      BY <1>16, <2>2, <3>2, OthersLocked DEF PullCreate, Calling, Created, Continue
  <2>3. QED
    BY <1>16, <2>1, <2>2 DEF PullCreate
<1>17. ASSUME NEW c \in Clients, PullMerge(c) PROVE Locked'
  <2>1. CASE Replayed(c, idem.merge)
    BY <1>3, <2>1 DEF Replayed
  <2>2. ASSUME NEW answer, Created(c, answer) PROVE Locked'
    <3>1. req'[c].op = "merge" /\ req'[c].at = "created" /\ lock' = c
      BY <1>1, <1>17, <2>2 DEF PullMerge, Calling, Created, Continue
    <3>2. LockedBy(c)'
      BY <2>2, <3>1 DEF LockedBy, Created
    <3>3. QED
      BY <1>17, <2>2, <3>2, OthersLocked DEF PullMerge, Calling, Created, Continue
  <2>3. QED
    BY <1>17, <2>1, <2>2 DEF PullMerge
<1>18. ASSUME NEW c \in Clients, StoreIssue(c) \/ StorePull(c) \/ StoreMerge(c) PROVE Locked'
  <2>1. lock = c /\ Continue(c, "done", req[c].value)
    BY <1>18 DEF StoreIssue, StorePull, StoreMerge, Store, Locked, LockedBy
  <2>2. QED
    BY <1>3, <2>1
<1>19. ASSUME NEW c \in Clients,
              \/ PersistBranch(c) \/ PersistReview(c) \/ PersistCommit(c) \/ PersistPush(c)
              \/ PersistIssue(c) \/ PersistPull(c) \/ PersistMerge(c) \/ PersistSync(c)
       PROVE  Locked'
  <2>1. Continue(c, "saved", req[c].value) /\ UNCHANGED <<lock, idem>>
    BY <1>19
    DEF PersistBranch, PersistReview, PersistCommit, PersistPush, PersistIssue, PersistPull,
        PersistMerge, PersistSync, Save
  <2>2. QED
    BY <1>3, <2>1
<1>20. ASSUME NEW c \in Clients,
              \/ ReturnReplay(c) \/ NotMerged(c) \/ RecordEvent(c) \/ Refused(c)
              \/ Interrupted(c)
       PROVE  Locked'
  <2>1. Return(c) /\ (UNCHANGED <<lock, idem>> \/ lock = c)
    BY <1>20 DEF ReturnReplay, NotMerged, RecordEvent, Refused, Interrupted, OnlyRequest
  <2>2. QED
    BY <1>2, <2>1
<1>21. ASSUME NEW c \in Clients, ApplyPatch(c) PROVE Locked'
  BY <1>21 DEF ApplyPatch, Locked, LockedBy
<1>22. CASE Rest
  BY <1>22 DEF Rest, CloseTask, EditFiles, CommitByHand, SwitchByHand, Outside, vars,
               Locked, LockedBy
<1>23. ASSUME NEW b \in Branches, PushByOther(b) \/ MergeByOther(b) PROVE Locked'
  BY <1>23 DEF PushByOther, MergeByOther, Outside, Locked, LockedBy
<1>24. QED
  BY <1>5, <1>6, <1>7, <1>8, <1>9, <1>10, <1>11, <1>12, <1>13, <1>14, <1>15, <1>16, <1>17,
     <1>18, <1>19, <1>20, <1>21, <1>22, <1>23
  DEF Next, Step, Rest

\* The issue that was created is recorded, or about to be.
LEMMA NextIssue ==
  ASSUME TypeOK, Results, Locked, IssueRecorded, [Next]_vars
  PROVE  IssueRecorded'
<1>1. /\ req \in [Clients -> Requests] /\ issues \subseteq IssueNumbers
      /\ idem \in [issue : None(IssueNumbers), pull : None(Branches),
                   merge : {"none", "merged", "unmerged"}]
      /\ cuts \in Nat
  BY DEF TypeOK
<1>2. "none" \notin issues
  BY <1>1
<1>3. ASSUME NEW c \in Clients, NEW r, req' = [req EXCEPT ![c] = r],
             req[c].op # "issue" \/ req[c].at # "created",
             UNCHANGED <<cuts, issues>>, idem'.issue = idem.issue
      PROVE  IssueRecorded'
  <2>1. SUFFICES ASSUME cuts = 0, NEW n \in issues
                 PROVE  \/ idem'.issue = n
                        \/ \E d \in Clients : /\ req'[d].op = "issue" /\ req'[d].at = "created"
                                              /\ req'[d].value = n
    BY <1>3 DEF IssueRecorded
  <2>2. CASE idem.issue = n
    BY <1>3, <2>2
  <2>3. ASSUME NEW d \in Clients, req[d].op = "issue", req[d].at = "created", req[d].value = n
        PROVE  req'[d] = req[d]
    BY <1>1, <1>3, <2>3
  <2>4. QED
    BY <2>1, <2>2, <2>3 DEF IssueRecorded
<1>4. ASSUME UNCHANGED <<cuts, issues, idem, req>> PROVE IssueRecorded'
  BY <1>4 DEF IssueRecorded
<1>5. ASSUME NEW c \in Clients,
             \/ \E b \in Branches : LoadBranch(c, b)
             \/ LoadReview(c) \/ LoadCommit(c) \/ LoadPush(c) \/ LoadIssue(c)
             \/ LoadPull(c) \/ LoadMerge(c) \/ LoadSync(c)
      PROVE  IssueRecorded'
  <2>1. /\ req[c].at = "idle" /\ UNCHANGED <<cuts, issues, idem>>
        /\ \E r : req' = [req EXCEPT ![c] = r]
    BY <1>5 DEF LoadBranch, LoadReview, LoadCommit, LoadPush, LoadIssue, LoadPull, LoadMerge,
                LoadSync, Loaded, OnlyRequest, providerVars
  <2>2. QED
    BY <1>3, <2>1
<1>6. ASSUME NEW c \in Clients,
             CheckoutBranch(c) \/ CheckCommit(c) \/ PushCurrentBranch(c) \/ SyncDefault(c)
      PROVE  IssueRecorded'
  <2>1. /\ req[c].at = "loaded" /\ UNCHANGED <<cuts, issues, idem>>
        /\ \E r : req' = [req EXCEPT ![c] = r]
    BY <1>6 DEF CheckoutBranch, CheckCommit, PushCurrentBranch, SyncDefault, Calling,
                Continue, Return, providerVars
  <2>2. QED
    BY <1>3, <2>1
<1>7. ASSUME NEW c \in Clients, CommitReviewed(c) PROVE IssueRecorded'
  <2>1. /\ req[c].at = "checked" /\ UNCHANGED <<cuts, issues, idem>>
        /\ \E r : req' = [req EXCEPT ![c] = r]
    BY <1>7 DEF CommitReviewed, Continue, Return, providerVars
  <2>2. QED
    BY <1>3, <2>1
<1>8. ASSUME NEW c \in Clients, PullCreate(c) \/ PullMerge(c) PROVE IssueRecorded'
  <2>1. /\ req[c].at = "loaded" /\ UNCHANGED <<cuts, issues, idem>>
        /\ \E r : req' = [req EXCEPT ![c] = r]
    BY <1>8 DEF PullCreate, PullMerge, Calling, Replayed, Created, Continue, providerVars
  <2>2. QED
    BY <1>3, <2>1
<1>9. ASSUME NEW c \in Clients, IssueCreate(c) PROVE IssueRecorded'
  <2>1. CASE idem.issue # "none" /\ Replayed(c, idem.issue)
    <3>1. /\ req[c].at = "loaded" /\ UNCHANGED <<cuts, issues, idem>>
          /\ \E r : req' = [req EXCEPT ![c] = r]
      BY <1>9, <2>1 DEF IssueCreate, Calling, Replayed, Continue, providerVars
    <3>2. QED
      BY <1>3, <3>1
  <2>2. ASSUME idem.issue = "none", NEW n \in IssueNumbers, issues' = issues \cup {n},
               Created(c, n)
        PROVE  IssueRecorded'
    <3>1. cuts = 0 => issues = {}
      BY <1>2, <1>9, <2>2 DEF IssueCreate, Calling, IssueRecorded, Locked, LockedBy
    <3>2. req'[c].op = "issue" /\ req'[c].at = "created" /\ req'[c].value = n /\ cuts' = cuts
      BY <1>1, <1>9, <2>2 DEF IssueCreate, Calling, Created, Continue
    <3>3. QED
      BY <2>2, <3>1, <3>2 DEF IssueRecorded
  <2>3. QED
    BY <1>9, <2>1, <2>2 DEF IssueCreate
<1>10. ASSUME NEW c \in Clients, StoreIssue(c) PROVE IssueRecorded'
  <2>1. /\ req[c].op = "issue" /\ req[c].at = "created" /\ lock = c /\ idem.issue = "none"
        /\ UNCHANGED <<cuts, issues>> /\ idem'.issue = req[c].value
    BY <1>1, <1>10 DEF StoreIssue, Store, Locked, LockedBy, providerVars
  <2>2. cuts = 0 => \A n \in issues : n = req[c].value
    BY <1>2, <2>1 DEF IssueRecorded, Locked, LockedBy
  <2>3. QED
    BY <2>1, <2>2 DEF IssueRecorded
<1>11. ASSUME NEW c \in Clients, StorePull(c) \/ StoreMerge(c) PROVE IssueRecorded'
  <2>1. /\ req[c].op # "issue" /\ UNCHANGED <<cuts, issues>> /\ idem'.issue = idem.issue
        /\ \E r : req' = [req EXCEPT ![c] = r]
    BY <1>1, <1>11 DEF StorePull, StoreMerge, Store, Continue, providerVars
  <2>2. QED
    BY <1>3, <2>1
<1>12. ASSUME NEW c \in Clients,
              \/ PersistBranch(c) \/ PersistReview(c) \/ PersistCommit(c) \/ PersistPush(c)
              \/ PersistIssue(c) \/ PersistPull(c) \/ PersistMerge(c) \/ PersistSync(c)
       PROVE  IssueRecorded'
  <2>1. /\ req[c].at = "done" /\ UNCHANGED <<cuts, issues, idem>>
        /\ \E r : req' = [req EXCEPT ![c] = r]
    BY <1>12
    DEF PersistBranch, PersistReview, PersistCommit, PersistPush, PersistIssue, PersistPull,
        PersistMerge, PersistSync, Save, Continue, providerVars
  <2>2. QED
    BY <1>3, <2>1
<1>13. ASSUME NEW c \in Clients,
              ReturnReplay(c) \/ NotMerged(c) \/ RecordEvent(c) \/ Refused(c)
       PROVE  IssueRecorded'
  <2>1. /\ req[c].at \in {"done", "saved", "loaded"} /\ UNCHANGED <<cuts, issues, idem>>
        /\ \E r : req' = [req EXCEPT ![c] = r]
    BY <1>13 DEF ReturnReplay, NotMerged, RecordEvent, Refused, OnlyRequest, Return,
                 providerVars
  <2>2. QED
    BY <1>3, <2>1
<1>14. ASSUME NEW c \in Clients, Interrupted(c) PROVE IssueRecorded'
  BY <1>1, <1>14 DEF Interrupted, IssueRecorded
<1>15. ASSUME NEW c \in Clients, ApplyPatch(c) PROVE IssueRecorded'
  BY <1>4, <1>15 DEF ApplyPatch, providerVars
<1>16. CASE Rest
  BY <1>4, <1>16 DEF Rest, CloseTask, EditFiles, CommitByHand, SwitchByHand, Outside, vars,
                     providerVars
<1>17. ASSUME NEW b \in Branches, PushByOther(b) \/ MergeByOther(b) PROVE IssueRecorded'
  BY <1>4, <1>17 DEF PushByOther, MergeByOther, Outside
<1>18. QED
  BY <1>5, <1>6, <1>7, <1>8, <1>9, <1>10, <1>11, <1>12, <1>13, <1>14, <1>15, <1>16, <1>17
  DEF Next, Step, Rest

-----------------------------------------------------------------------------
\* The inductive invariant holds.
LEMMA Invariant == Spec => []LifeInv
<1>1. Init => LifeInv
  <2>1. ASSUME Init PROVE RowsTrue
    BY <2>1, AtLeast
    DEF Init, RowsTrue, Columns, Records, EvidenceBehindPhase, ClaimsAreReal,
        NothingForeignMerged, None, Phases
  <2>2. ASSUME Init PROVE Asked /\ Results /\ Locked /\ IssueRecorded
    BY <2>2 DEF Init, Asked, AskedBy, Results, ResultOf, Locked, LockedBy, IssueRecorded,
                NoRequest
  <2>3. QED
    BY <2>1, <2>2, InitType DEF LifeInv
<1>2. LifeInv /\ [Next]_vars => LifeInv'
  BY NextType, NextRows, NextRequests, NextLocked, NextIssue DEF LifeInv
<1>3. QED
  BY <1>1, <1>2, PTL DEF Spec

\* Type correctness: no interleaving, interruption or change from outside puts a
\* value of another kind into the row, the records or a request.
THEOREM TypeCorrect == Spec => []TypeOK
<1>1. LifeInv => TypeOK
  BY DEF LifeInv
<1>2. QED
  BY <1>1, Invariant, PTL

\* For any number of clients, changes from outside and interruptions: the row and the
\* events never claim more than was done, what they name is real, nothing but a commit
\* of this task is taken for its merge, and without interruptions one issue is made.
THEOREM ClaimsKept == Spec => []DeliveryClaims
<1>1. LifeInv => OneIssue
  <2>1. SUFFICES ASSUME LifeInv, cuts = 0, NEW m \in issues, NEW n \in issues PROVE m = n
    BY DEF OneIssue
  <2>2. m # "none" /\ n # "none"
    BY <2>1 DEF LifeInv, TypeOK
  <2>3. QED
    BY <2>1, <2>2 DEF LifeInv, IssueRecorded, Locked, LockedBy
<1>2. LifeInv => DeliveryClaims
  BY <1>1 DEF LifeInv, RowsTrue, DeliveryClaims
<1>3. QED
  BY <1>2, Invariant, PTL

-----------------------------------------------------------------------------
\* With one client, what a request read of the row is still so when it writes.
ReadBy(c) ==
    req[c].at \notin {"idle", "saved"} =>
       /\ req[c].op = "branch" => life.phase = "snapshot"
       /\ req[c].op = "review" => ~at_least(life.phase, "committed")
       /\ req[c].op = "commit" => life.commit = "none"
       /\ req[c].op = "commit" /\ req[c].at = "loaded" => req[c].value = life.reviewed
       /\ req[c].op = "push"   => life.push = "none" /\ req[c].value = life.commit
       /\ req[c].op = "pull"   => ~at_least(life.phase, "merged")
       /\ req[c].op = "merge"  => life.merge = "none"

ReadHolds ==
    /\ life.push \in {"none", life.commit}
    /\ \A c \in Clients : ReadBy(c)

\* Nobody but the request itself writes the row while it is open.
LEMMA NextRead ==
  ASSUME OneClient, LifeInv, ReadHolds, [Next]_vars
  PROVE  ReadHolds'
<1>1. /\ req \in [Clients -> Requests] /\ life \in Rows /\ life.phase \in Phases
      /\ EvidenceBehindPhase /\ Columns
  BY DEF LifeInv, TypeOK, Rows, RowsTrue
<1>2. \A c, d \in Clients : c = d
  BY DEF OneClient
<1>3. ASSUME UNCHANGED <<life, req>> PROVE ReadHolds'
  BY <1>3 DEF ReadHolds, ReadBy
<1>4. ASSUME NEW c \in Clients, Return(c), UNCHANGED life PROVE ReadHolds'
  <2>1. req'[c] = NoRequest
    BY <1>1, <1>4 DEF Return
  <2>2. ReadBy(c)'
    BY <2>1 DEF NoRequest, ReadBy
  <2>3. QED
    BY <1>2, <1>4, <2>2 DEF ReadHolds
<1>5. ASSUME NEW c \in Clients, NEW at \in {"checked", "created", "done"}, NEW value,
             Continue(c, at, value), req[c].at \notin {"idle", "saved"},
             req[c].op = "push" => value = req[c].value, UNCHANGED life
      PROVE  ReadHolds'
  <2>1. req'[c].op = req[c].op /\ req'[c].at = at /\ req'[c].value = value
    BY <1>1, <1>5 DEF Continue
  <2>2. ReadBy(c)'
    BY <1>5, <2>1 DEF ReadHolds, ReadBy
  <2>3. QED
    BY <1>2, <1>5, <2>2 DEF ReadHolds
<1>6. ASSUME NEW c \in Clients, NEW b \in Branches, LoadBranch(c, b) PROVE ReadHolds'
  <2>1. req'[c].op = "branch" /\ UNCHANGED life
    BY <1>1, <1>6 DEF LoadBranch, Loaded, OnlyRequest
  <2>2. life.phase = "snapshot"
    BY <1>1, <1>6, AtLeast DEF LoadBranch
  <2>3. ReadBy(c)'
    BY <2>1, <2>2 DEF ReadBy
  <2>4. QED
    BY <1>2, <2>1, <2>3 DEF ReadHolds
<1>7. ASSUME NEW c \in Clients, LoadReview(c) PROVE ReadHolds'
  <2>1. req'[c].op = "review" /\ UNCHANGED life
    BY <1>1, <1>7 DEF LoadReview, Loaded, OnlyRequest
  <2>2. ~at_least(life.phase, "committed")
    BY <1>1, <1>7, AtLeast DEF LoadReview
  <2>3. ReadBy(c)'
    BY <2>1, <2>2 DEF ReadBy
  <2>4. QED
    BY <1>2, <2>1, <2>3 DEF ReadHolds
<1>8. ASSUME NEW c \in Clients, LoadCommit(c) PROVE ReadHolds'
  <2>1. /\ req'[c].op = "commit"
        /\ req'[c].at = "loaded" => req'[c].value = life.reviewed
        /\ UNCHANGED life
    BY <1>1, <1>8 DEF LoadCommit, Loaded, OnlyRequest
  <2>2. life.commit = "none"
    BY <1>1, <1>8, AtLeast DEF LoadCommit
  <2>3. ReadBy(c)'
    BY <2>1, <2>2 DEF ReadBy
  <2>4. QED
    BY <1>2, <2>1, <2>3 DEF ReadHolds
<1>9. ASSUME NEW c \in Clients, LoadPush(c) PROVE ReadHolds'
  <2>1. req'[c].op = "push" /\ req'[c].value = life.commit /\ UNCHANGED life
    BY <1>1, <1>9 DEF LoadPush, Loaded, OnlyRequest
  <2>2. life.push = "none"
    BY <1>1, <1>9, AtLeast DEF LoadPush, ReadHolds
  <2>3. ReadBy(c)'
    BY <2>1, <2>2 DEF ReadBy
  <2>4. QED
    BY <1>2, <2>1, <2>3 DEF ReadHolds
<1>10. ASSUME NEW c \in Clients, LoadIssue(c) PROVE ReadHolds'
  <2>1. req'[c].op = "issue" /\ UNCHANGED life
    BY <1>1, <1>10 DEF LoadIssue, Loaded, OnlyRequest
  <2>2. TRUE
    BY <1>1, <1>10, AtLeast DEF LoadIssue
  <2>3. ReadBy(c)'
    BY <2>1, <2>2 DEF ReadBy
  <2>4. QED
    BY <1>2, <2>1, <2>3 DEF ReadHolds
<1>11. ASSUME NEW c \in Clients, LoadPull(c) PROVE ReadHolds'
  <2>1. req'[c].op = "pull" /\ UNCHANGED life
    BY <1>1, <1>11 DEF LoadPull, Loaded, OnlyRequest
  <2>2. ~at_least(life.phase, "merged")
    BY <1>1, <1>11, AtLeast DEF LoadPull
  <2>3. ReadBy(c)'
    BY <2>1, <2>2 DEF ReadBy
  <2>4. QED
    BY <1>2, <2>1, <2>3 DEF ReadHolds
<1>12. ASSUME NEW c \in Clients, LoadMerge(c) PROVE ReadHolds'
  <2>1. req'[c].op = "merge" /\ UNCHANGED life
    BY <1>1, <1>12 DEF LoadMerge, Loaded, OnlyRequest
  <2>2. life.merge = "none"
    BY <1>1, <1>12, AtLeast DEF LoadMerge
  <2>3. ReadBy(c)'
    BY <2>1, <2>2 DEF ReadBy
  <2>4. QED
    BY <1>2, <2>1, <2>3 DEF ReadHolds
<1>13. ASSUME NEW c \in Clients, LoadSync(c) PROVE ReadHolds'
  <2>1. req'[c].op = "sync" /\ UNCHANGED life
    BY <1>1, <1>13 DEF LoadSync, Loaded, OnlyRequest
  <2>2. TRUE
    BY <1>1, <1>13, AtLeast DEF LoadSync
  <2>3. ReadBy(c)'
    BY <2>1, <2>2 DEF ReadBy
  <2>4. QED
    BY <1>2, <2>1, <2>3 DEF ReadHolds
<1>14. ASSUME NEW c \in Clients, CheckoutBranch(c) \/ CheckCommit(c) PROVE ReadHolds'
  BY <1>5, <1>14 DEF CheckoutBranch, CheckCommit, Calling
<1>15. ASSUME NEW c \in Clients, CommitReviewed(c) PROVE ReadHolds'
  <2>1. req[c].op = "commit"
    BY <1>15 DEF CommitReviewed, LifeInv, Locked, LockedBy
  <2>2. QED
    BY <1>4, <1>5, <1>15, <2>1 DEF CommitReviewed
<1>16. ASSUME NEW c \in Clients, PushCurrentBranch(c) PROVE ReadHolds'
  BY <1>5, <1>16 DEF PushCurrentBranch, CanPush, Calling
<1>17. ASSUME NEW c \in Clients, IssueCreate(c) PROVE ReadHolds'
  BY <1>5, <1>17 DEF IssueCreate, Calling, Replayed, Created
<1>18. ASSUME NEW c \in Clients, PullCreate(c) \/ PullMerge(c) PROVE ReadHolds'
  BY <1>5, <1>18 DEF PullCreate, PullMerge, Calling, Replayed, Created
<1>19. ASSUME NEW c \in Clients, SyncDefault(c) PROVE ReadHolds'
  BY <1>4, <1>5, <1>19 DEF SyncDefault, Calling
<1>20. ASSUME NEW c \in Clients, StoreIssue(c) \/ StorePull(c) \/ StoreMerge(c)
       PROVE  ReadHolds'
  BY <1>5, <1>20 DEF StoreIssue, StorePull, StoreMerge, Store
<1>21. ASSUME NEW c \in Clients,
              \/ PersistBranch(c) \/ PersistReview(c) \/ PersistCommit(c) \/ PersistPush(c)
              \/ PersistIssue(c) \/ PersistPull(c) \/ PersistMerge(c) \/ PersistSync(c)
       PROVE  ReadHolds'
  <2>1. req[c].at = "done" /\ Continue(c, "saved", req[c].value)
    BY <1>21
    DEF PersistBranch, PersistReview, PersistCommit, PersistPush, PersistIssue, PersistPull,
        PersistMerge, PersistSync, Save
  <2>2. req'[c].at = "saved"
    BY <1>1, <2>1 DEF Continue
  <2>3. ReadBy(c)'
    BY <2>2 DEF ReadBy
  <2>4. life'.push \in {"none", life'.commit}
    <3>1. CASE PersistCommit(c)
      <4>1. life.commit = "none"
        BY <3>1 DEF PersistCommit, Save, ReadHolds, ReadBy
      <4>2. life.push = "none"
        BY <1>1, <4>1 DEF Columns
      <4>3. QED
        BY <1>1, <3>1, <4>2 DEF PersistCommit, Save, Rows
    <3>2. CASE PersistPush(c)
      <4>1. req[c].value = life.commit
        BY <3>2 DEF PersistPush, Save, ReadHolds, ReadBy
      <4>2. QED
        BY <1>1, <3>2, <4>1 DEF PersistPush, Save, Rows
    <3>3. CASE \/ PersistBranch(c) \/ PersistReview(c) \/ PersistIssue(c) \/ PersistPull(c)
               \/ PersistMerge(c) \/ PersistSync(c)
      <4>1. life'.push = life.push /\ life'.commit = life.commit
        BY <1>1, <3>3 DEF PersistBranch, PersistReview, PersistIssue, PersistPull,
                          PersistMerge, PersistSync, Save, Rows
      <4>2. QED
        BY <4>1 DEF ReadHolds
    <3>4. QED
      BY <1>21, <3>1, <3>2, <3>3
  <2>5. QED
    BY <1>2, <2>3, <2>4 DEF ReadHolds
<1>22. ASSUME NEW c \in Clients,
              \/ ReturnReplay(c) \/ NotMerged(c) \/ RecordEvent(c) \/ Refused(c)
              \/ Interrupted(c)
       PROVE  ReadHolds'
  BY <1>4, <1>22 DEF ReturnReplay, NotMerged, RecordEvent, Refused, Interrupted, OnlyRequest
<1>23. ASSUME NEW c \in Clients, ApplyPatch(c) PROVE ReadHolds'
  <2>1. req'[c].at = "idle" /\ life'.push = life.push /\ life'.commit = life.commit
    BY <1>1, <1>23 DEF ApplyPatch, Rows
  <2>2. ReadBy(c)'
    BY <2>1 DEF ReadBy
  <2>3. QED
    BY <1>2, <2>1, <2>2 DEF ReadHolds
<1>24. CASE Rest
  BY <1>3, <1>24 DEF Rest, CloseTask, EditFiles, CommitByHand, SwitchByHand, Outside, vars
<1>25. ASSUME NEW b \in Branches, PushByOther(b) \/ MergeByOther(b) PROVE ReadHolds'
  BY <1>3, <1>25 DEF PushByOther, MergeByOther, Outside
<1>26. QED
  BY <1>6, <1>7, <1>8, <1>9, <1>10, <1>11, <1>12, <1>13, <1>14, <1>15, <1>16, <1>17,
     <1>18, <1>19, <1>20, <1>21, <1>22, <1>23, <1>24, <1>25
  DEF Next, Step, Rest

\* A step goes back to no earlier phase.
LEMMA StepForward ==
  ASSUME LifeInv, ReadHolds, [Next]_vars
  PROVE  rank(life'.phase) >= rank(life.phase)
<1>1. /\ life \in Rows /\ life.phase \in Phases /\ EvidenceBehindPhase
  BY DEF LifeInv, TypeOK, Rows, RowsTrue
<1>2. /\ rank("snapshot") = 0 /\ rank("branched") = 1 /\ rank("patched") = 2
      /\ rank("reviewed") = 3 /\ rank("committed") = 4 /\ rank("pushed") = 5
      /\ rank("pr_open") = 6 /\ rank("merged") = 7 /\ rank("completed") = 8
  BY DEF rank
<1>3. ASSUME life'.phase = life.phase PROVE rank(life'.phase) >= rank(life.phase)
  BY <1>1, <1>2, <1>3 DEF Phases
<1>4. ASSUME NEW c \in Clients, ApplyPatch(c) PROVE rank(life'.phase) >= rank(life.phase)
  <2>1. \/ life'.phase = life.phase
        \/ life'.phase = "patched" /\ life.phase \in {"snapshot", "branched"}
    BY <1>1, <1>4 DEF ApplyPatch, Rows
  <2>2. QED
    BY <1>2, <1>3, <2>1
<1>5. ASSUME NEW c \in Clients, PersistBranch(c) PROVE rank(life'.phase) >= rank(life.phase)
  <2>1. life'.phase = "branched"
    BY <1>1, <1>5 DEF PersistBranch, Save, Rows
  <2>2. life.phase = "snapshot"
    BY <1>1, <1>5 DEF PersistBranch, Save, ReadHolds, ReadBy
  <2>3. QED
    BY <1>1, <1>2, <2>1, <2>2, AtLeast DEF Phases
<1>6. ASSUME NEW c \in Clients, PersistReview(c) PROVE rank(life'.phase) >= rank(life.phase)
  <2>1. life'.phase = "reviewed"
    BY <1>1, <1>6 DEF PersistReview, Save, Rows
  <2>2. ~at_least(life.phase, "committed")
    BY <1>1, <1>6 DEF PersistReview, Save, ReadHolds, ReadBy
  <2>3. QED
    BY <1>1, <1>2, <2>1, <2>2, AtLeast DEF Phases
<1>7. ASSUME NEW c \in Clients, PersistCommit(c) PROVE rank(life'.phase) >= rank(life.phase)
  <2>1. life'.phase = "committed"
    BY <1>1, <1>7 DEF PersistCommit, Save, Rows
  <2>2. ~at_least(life.phase, "committed")
    BY <1>1, <1>7 DEF PersistCommit, Save, ReadHolds, ReadBy, EvidenceBehindPhase
  <2>3. QED
    BY <1>1, <1>2, <2>1, <2>2, AtLeast DEF Phases
<1>8. ASSUME NEW c \in Clients, PersistPush(c) PROVE rank(life'.phase) >= rank(life.phase)
  <2>1. life'.phase = "pushed"
    BY <1>1, <1>8 DEF PersistPush, Save, Rows
  <2>2. ~at_least(life.phase, "pushed")
    BY <1>1, <1>8 DEF PersistPush, Save, ReadHolds, ReadBy, EvidenceBehindPhase
  <2>3. QED
    BY <1>1, <1>2, <2>1, <2>2, AtLeast DEF Phases
<1>9. ASSUME NEW c \in Clients, PersistPull(c) PROVE rank(life'.phase) >= rank(life.phase)
  <2>1. life'.phase = "pr_open"
    BY <1>1, <1>9 DEF PersistPull, Save, Rows
  <2>2. ~at_least(life.phase, "merged")
    BY <1>1, <1>9 DEF PersistPull, Save, ReadHolds, ReadBy
  <2>3. QED
    BY <1>1, <1>2, <2>1, <2>2, AtLeast DEF Phases
<1>10. ASSUME NEW c \in Clients, PersistMerge(c) PROVE rank(life'.phase) >= rank(life.phase)
  <2>1. life'.phase = "merged"
    BY <1>1, <1>10 DEF PersistMerge, Save, Rows
  <2>2. ~at_least(life.phase, "merged")
    BY <1>1, <1>10 DEF PersistMerge, Save, ReadHolds, ReadBy, EvidenceBehindPhase
  <2>3. QED
    BY <1>1, <1>2, <2>1, <2>2, AtLeast DEF Phases
<1>11. ASSUME NEW c \in Clients, PersistSync(c) PROVE rank(life'.phase) >= rank(life.phase)
  <2>1. life'.phase = "completed"
    BY <1>1, <1>11 DEF PersistSync, Save, Rows
  <2>2. life.phase \in Phases
    BY <1>1, <1>11 DEF PersistSync
  <2>3. QED
    BY <1>1, <1>2, <2>1, <2>2, AtLeast DEF Phases
<1>12. ASSUME NEW c \in Clients, PersistIssue(c) PROVE rank(life'.phase) >= rank(life.phase)
  <2>1. life'.phase = life.phase
    BY <1>1, <1>12 DEF PersistIssue, Save, Rows
  <2>2. QED
    BY <1>3, <2>1
<1>13. ASSUME NEW c \in Clients,
              \/ PushCurrentBranch(c) \/ IssueCreate(c) \/ PullCreate(c) \/ PullMerge(c)
              \/ StoreIssue(c) \/ StorePull(c) \/ StoreMerge(c)
       PROVE  rank(life'.phase) >= rank(life.phase)
  BY <1>3, <1>13 DEF PushCurrentBranch, IssueCreate, PullCreate, PullMerge, StoreIssue,
                     StorePull, StoreMerge, Store, Replayed, Created
<1>14. ASSUME NEW c \in Clients, Local(c) PROVE rank(life'.phase) >= rank(life.phase)
  BY <1>3, <1>14, LocalSteps
<1>15. CASE Rest
  BY <1>3, <1>15 DEF Rest, CloseTask, EditFiles, CommitByHand, SwitchByHand, Outside, vars
<1>16. ASSUME NEW b \in Branches, PushByOther(b) \/ MergeByOther(b)
       PROVE  rank(life'.phase) >= rank(life.phase)
  BY <1>3, <1>16 DEF PushByOther, MergeByOther, Outside
<1>17. QED
  BY <1>4, <1>5, <1>6, <1>7, <1>8, <1>9, <1>10, <1>11, <1>12, <1>13, <1>14, <1>15, <1>16
  DEF Next, Step, Local, Rest

\* git commit is started on the reviewed diff.
LEMMA StepCommits ==
  ASSUME LifeInv, ReadHolds, [Next]_vars, NEW c \in Clients, req[c].at = "loaded",
         req'[c].at = "checked"
  PROVE  diff = life.reviewed
<1>1. req \in [Clients -> Requests]
  BY DEF LifeInv, TypeOK
<1>2. ASSUME NEW d \in Clients, NEW r, req' = [req EXCEPT ![d] = r], r.at # "checked"
      PROVE  FALSE
  BY <1>1, <1>2
<1>3. ASSUME NEW d \in Clients, Return(d) PROVE FALSE
  BY <1>2, <1>3 DEF Return, NoRequest
<1>4. ASSUME NEW d \in Clients, NEW at \in {"created", "done", "saved"}, NEW value,
             Continue(d, at, value)
      PROVE  FALSE
  BY <1>2, <1>4 DEF Continue
<1>5. ASSUME NEW d \in Clients, NEW op, NEW at \in {"loaded", "done"}, NEW seen, NEW value,
             Loaded(d, op, at, seen, value)
      PROVE  FALSE
  BY <1>2, <1>5 DEF Loaded
<1>6. ASSUME UNCHANGED req PROVE FALSE
  BY <1>6
<1>7. ASSUME NEW d \in Clients,
             \/ \E b \in Branches : LoadBranch(d, b)
             \/ LoadReview(d) \/ LoadCommit(d) \/ LoadPush(d) \/ LoadIssue(d)
             \/ LoadPull(d) \/ LoadMerge(d) \/ LoadSync(d)
      PROVE  FALSE
  BY <1>5, <1>7 DEF LoadBranch, LoadReview, LoadCommit, LoadPush, LoadIssue, LoadPull,
                    LoadMerge, LoadSync
<1>8. ASSUME NEW d \in Clients,
             \/ CheckoutBranch(d) \/ CommitReviewed(d) \/ PushCurrentBranch(d)
             \/ IssueCreate(d) \/ PullCreate(d) \/ PullMerge(d) \/ SyncDefault(d)
             \/ StoreIssue(d) \/ StorePull(d) \/ StoreMerge(d)
      PROVE  FALSE
  BY <1>3, <1>4, <1>8 DEF CheckoutBranch, CommitReviewed, PushCurrentBranch, IssueCreate,
     PullCreate, PullMerge, SyncDefault, StoreIssue, StorePull, StoreMerge, Store, Replayed,
     Created
<1>9. ASSUME NEW d \in Clients,
             \/ PersistBranch(d) \/ PersistReview(d) \/ PersistCommit(d) \/ PersistPush(d)
             \/ PersistIssue(d) \/ PersistPull(d) \/ PersistMerge(d) \/ PersistSync(d)
      PROVE  FALSE
  BY <1>4, <1>9 DEF PersistBranch, PersistReview, PersistCommit, PersistPush, PersistIssue,
     PersistPull, PersistMerge, PersistSync, Save
<1>10. ASSUME NEW d \in Clients,
              \/ ReturnReplay(d) \/ NotMerged(d) \/ RecordEvent(d) \/ Refused(d)
              \/ Interrupted(d)
       PROVE  FALSE
  BY <1>3, <1>10 DEF ReturnReplay, NotMerged, RecordEvent, Refused, Interrupted
<1>11. ASSUME NEW d \in Clients, ApplyPatch(d) PROVE FALSE
  BY <1>6, <1>11 DEF ApplyPatch
<1>12. CASE Rest
  BY <1>6, <1>12 DEF Rest, CloseTask, EditFiles, CommitByHand, SwitchByHand, Outside, vars
<1>13. ASSUME NEW b \in Branches, PushByOther(b) \/ MergeByOther(b) PROVE FALSE
  BY <1>6, <1>13 DEF PushByOther, MergeByOther, Outside
<1>14. ASSUME NEW d \in Clients, CheckCommit(d) PROVE diff = life.reviewed
  <2>1. d = c
    BY <1>1, <1>14 DEF CheckCommit, Continue
  <2>2. QED
    BY <1>14, <2>1 DEF CheckCommit, CanCommit, Calling, ReadHolds, ReadBy
<1>15. QED
  BY <1>7, <1>8, <1>9, <1>10, <1>11, <1>12, <1>13, <1>14 DEF Next, Step, Rest

\* With one client, a merge request is about the commit that the row has as pushed.
MergeBy(c) ==
    req[c].op = "merge" =>
       /\ req[c].at = "loaded" => req[c].value = life.push
       /\ req[c].at \in {"created", "done"} /\ req[c].value = "merged" =>
             taken[req[c].seen] = life.push

MergeHolds == MergedIsPushed /\ \A c \in Clients : MergeBy(c)

\* What was merged stays what was pushed.
LEMMA NextMerged ==
  ASSUME OneClient, LifeInv, ReadHolds, MergeHolds, [Next]_vars
  PROVE  MergeHolds'
<1>1. /\ req \in [Clients -> Requests] /\ life \in Rows /\ life.pull \in None(Branches)
      /\ Columns /\ Records /\ ClaimsAreReal
      /\ pulls \in [Branches -> {"none", "open", "merged"}]
      /\ taken \in [Branches -> None(Commits)] /\ remote \in [Branches -> None(Commits)]
  BY DEF LifeInv, TypeOK, Rows, RowsTrue
<1>2. Grows
  BY NextGrows DEF LifeInv
<1>3. \A c, d \in Clients : c = d
  BY DEF OneClient
<1>4. \A c \in Clients : AskedBy(c) /\ ResultOf(c) /\ LockedBy(c)
  BY DEF LifeInv, Asked, Results, Locked
<1>5. ASSUME life'.push = life.push, life'.pull = life.pull, life'.merge = life.merge
      PROVE  MergedIsPushed'
  BY <1>1, <1>2, <1>5 DEF MergeHolds, MergedIsPushed, Columns, ClaimsAreReal, Grows, None
<1>6. ASSUME UNCHANGED <<life, req>> PROVE MergeHolds'
  <2>1. ASSUME NEW c \in Clients PROVE MergeBy(c)'
    <3>1. req[c].op = "merge" => req[c].seen \in Branches
      BY <1>1, <1>4 DEF AskedBy, None
    <3>2. QED
      BY <1>2, <1>4, <1>6, <3>1 DEF MergeHolds, MergeBy, ResultOf, Grows
  <2>2. QED
    BY <1>5, <1>6, <2>1 DEF MergeHolds
<1>7. ASSUME NEW c \in Clients, UNCHANGED life, req'[c].op # "merge" PROVE MergeHolds'
  <2>1. MergeBy(c)'
    BY <1>7 DEF MergeBy
  <2>2. QED
    BY <1>3, <1>5, <1>7, <2>1 DEF MergeHolds
<1>8. ASSUME NEW c \in Clients, Return(c), UNCHANGED life PROVE MergeHolds'
  <2>1. req'[c].op # "merge"
    BY <1>1, <1>8 DEF Return, NoRequest
  <2>2. QED
    BY <1>7, <1>8, <2>1
<1>9. ASSUME NEW c \in Clients, NEW at, NEW value, Continue(c, at, value),
             req[c].op # "merge", UNCHANGED life
      PROVE  MergeHolds'
  <2>1. req'[c].op # "merge"
    BY <1>1, <1>9 DEF Continue
  <2>2. QED
    BY <1>7, <1>9, <2>1
<1>10. ASSUME NEW c \in Clients, NEW op \in Ops \ {"merge"}, NEW at, NEW seen, NEW value,
              Loaded(c, op, at, seen, value), UNCHANGED life
       PROVE  MergeHolds'
  <2>1. req'[c].op # "merge"
    BY <1>1, <1>10 DEF Loaded
  <2>2. QED
    BY <1>7, <1>10, <2>1
<1>11. ASSUME NEW c \in Clients,
              \/ \E b \in Branches : LoadBranch(c, b)
              \/ LoadReview(c) \/ LoadCommit(c) \/ LoadPush(c) \/ LoadIssue(c)
              \/ LoadPull(c) \/ LoadSync(c)
       PROVE  MergeHolds'
  BY <1>10, <1>11 DEF LoadBranch, LoadReview, LoadCommit, LoadPush, LoadIssue, LoadPull,
     LoadSync, OnlyRequest, Ops
<1>12. ASSUME NEW c \in Clients, LoadMerge(c) PROVE MergeHolds'
  <2>1. req'[c].at = "loaded" /\ req'[c].value = life.push /\ UNCHANGED life
    BY <1>1, <1>12 DEF LoadMerge, Loaded, OnlyRequest
  <2>2. MergeBy(c)'
    BY <2>1 DEF MergeBy
  <2>3. QED
    BY <1>3, <1>5, <2>1, <2>2 DEF MergeHolds
<1>13. ASSUME NEW c \in Clients,
              \/ CheckoutBranch(c) \/ CheckCommit(c) \/ PushCurrentBranch(c)
              \/ IssueCreate(c) \/ PullCreate(c) \/ SyncDefault(c)
              \/ StoreIssue(c) \/ StorePull(c)
       PROVE  MergeHolds'
  BY <1>8, <1>9, <1>13 DEF CheckoutBranch, CheckCommit, PushCurrentBranch, IssueCreate,
     PullCreate, SyncDefault, StoreIssue, StorePull, Store, Calling, Replayed, Created
<1>14. ASSUME NEW c \in Clients, CommitReviewed(c) PROVE MergeHolds'
  <2>1. req[c].op = "commit"
    BY <1>4, <1>14 DEF CommitReviewed, LockedBy
  <2>2. QED
    BY <1>8, <1>9, <1>14, <2>1 DEF CommitReviewed
<1>15. ASSUME NEW c \in Clients, PullMerge(c) PROVE MergeHolds'
  <2>1. /\ req[c].op = "merge" /\ req[c].at = "loaded" /\ req[c].value = life.push
        /\ PullHead(req[c].seen) = life.push
        /\ req[c].seen \in Branches /\ req[c].seen = idem.pull
    BY <1>1, <1>4, <1>15 DEF PullMerge, Calling, CanMerge, MergeHolds, MergeBy, AskedBy,
       Records, None
  <2>2. UNCHANGED life /\ req'[c].seen = req[c].seen
    BY <1>1, <1>15 DEF PullMerge, Replayed, Created, Continue
  <2>3. req'[c].value = "merged" => taken'[req[c].seen] = life.push
    BY <1>1, <1>15, <2>1 DEF PullMerge, PullHead, Replayed, Created, Continue, providerVars,
       Records
  <2>4. req'[c].at # "loaded"
    BY <1>1, <1>15 DEF PullMerge, Replayed, Created, Continue
  <2>5. MergeBy(c)'
    BY <2>2, <2>3, <2>4 DEF MergeBy
  <2>6. QED
    BY <1>3, <1>5, <2>2, <2>5 DEF MergeHolds
<1>16. ASSUME NEW c \in Clients, StoreMerge(c) PROVE MergeHolds'
  <2>1. /\ req[c].op = "merge" /\ req[c].at = "created" /\ UNCHANGED <<life, taken>>
        /\ req'[c].at = "done"
        /\ req'[c].seen = req[c].seen /\ req'[c].value = req[c].value
    BY <1>1, <1>16 DEF StoreMerge, Store, Continue, providerVars
  <2>2. MergeBy(c)'
    BY <2>1 DEF MergeHolds, MergeBy
  <2>3. QED
    BY <1>3, <1>5, <2>1, <2>2 DEF MergeHolds
<1>17. ASSUME NEW c \in Clients,
              \/ PersistBranch(c) \/ PersistReview(c) \/ PersistCommit(c) \/ PersistPush(c)
              \/ PersistIssue(c) \/ PersistPull(c) \/ PersistMerge(c) \/ PersistSync(c)
       PROVE  MergeHolds'
  <2>1. /\ req[c].at = "done" /\ Continue(c, "saved", req[c].value) /\ UNCHANGED taken
    BY <1>17
    DEF PersistBranch, PersistReview, PersistCommit, PersistPush, PersistIssue, PersistPull,
        PersistMerge, PersistSync, Save, providerVars
  <2>2. req'[c].at = "saved"
    BY <1>1, <2>1 DEF Continue
  <2>3. MergeBy(c)'
    BY <2>2 DEF MergeBy
  <2>4. CASE PersistPush(c)
    <3>1. life.push = "none"
      BY <2>4 DEF PersistPush, Save, ReadHolds, ReadBy
    <3>2. life.merge = "none" /\ life'.merge = life.merge
      BY <1>1, <2>4, <3>1 DEF PersistPush, Save, Rows, Columns
    <3>3. QED
      BY <1>3, <2>3, <3>2 DEF MergeHolds, MergedIsPushed
  <2>5. CASE PersistPull(c)
    <3>1. life'.push = life.push /\ life'.merge = life.merge
      BY <1>1, <2>5 DEF PersistPull, Save, Rows
    <3>2. life.merge # "none" => life'.pull = life.pull
      BY <1>1, <1>2 DEF Columns, Grows
    <3>3. QED
      BY <1>3, <2>1, <2>3, <3>1, <3>2 DEF MergeHolds, MergedIsPushed
  <2>6. CASE PersistMerge(c)
    <3>1. req[c].seen = life.pull /\ taken[req[c].seen] = life.push
      BY <1>4, <2>6 DEF PersistMerge, Save, MergeHolds, MergeBy, AskedBy
    <3>2. life'.push = life.push /\ life'.pull = life.pull
      BY <1>1, <2>6 DEF PersistMerge, Save, Rows
    <3>3. QED
      BY <1>3, <2>1, <2>3, <3>1, <3>2 DEF MergeHolds, MergedIsPushed
  <2>7. CASE \/ PersistBranch(c) \/ PersistReview(c) \/ PersistCommit(c)
             \/ PersistIssue(c) \/ PersistSync(c)
    <3>1. life'.push = life.push /\ life'.pull = life.pull /\ life'.merge = life.merge
      BY <1>1, <2>7 DEF PersistBranch, PersistReview, PersistCommit, PersistIssue,
                        PersistSync, Save, Rows
    <3>2. QED
      BY <1>3, <1>5, <2>3, <3>1 DEF MergeHolds
  <2>8. QED
    BY <1>17, <2>4, <2>5, <2>6, <2>7
<1>18. ASSUME NEW c \in Clients,
              \/ ReturnReplay(c) \/ NotMerged(c) \/ RecordEvent(c) \/ Refused(c)
              \/ Interrupted(c)
       PROVE  MergeHolds'
  BY <1>8, <1>18 DEF ReturnReplay, NotMerged, RecordEvent, Refused, Interrupted, OnlyRequest
<1>19. ASSUME NEW c \in Clients, ApplyPatch(c) PROVE MergeHolds'
  <2>1. /\ req'[c].at = "idle" /\ life'.push = life.push /\ life'.pull = life.pull
        /\ life'.merge = life.merge
    BY <1>1, <1>19 DEF ApplyPatch, Rows
  <2>2. MergeBy(c)'
    BY <2>1 DEF MergeBy
  <2>3. QED
    BY <1>3, <1>5, <2>1, <2>2 DEF MergeHolds
<1>20. CASE Rest
  BY <1>6, <1>20 DEF Rest, CloseTask, EditFiles, CommitByHand, SwitchByHand, Outside, vars
<1>21. ASSUME NEW b \in Branches, PushByOther(b) \/ MergeByOther(b) PROVE MergeHolds'
  BY <1>6, <1>21 DEF PushByOther, MergeByOther, Outside
<1>22. QED
  BY <1>11, <1>12, <1>13, <1>14, <1>15, <1>16, <1>17, <1>18, <1>19, <1>20, <1>21
  DEF Next, Step, Rest

\* A single client's task, over any interruptions and changes from outside: the phase
\* only moves forward (docs/task-lifecycle.md, "State model"), git commit is started
\* only on the reviewed diff, and what was merged is the commit that was pushed.
THEOREM OneClientDelivers ==
  ASSUME OneClient
  PROVE  Spec => DeliverySteps
<1>1. Init => ReadHolds /\ MergeHolds
  BY DEF Init, NoRequest, ReadHolds, ReadBy, MergeHolds, MergeBy, MergedIsPushed
<1>2. LifeInv /\ ReadHolds /\ [Next]_vars => ReadHolds'
  BY OneClient, NextRead
<1>3. LifeInv /\ ReadHolds /\ MergeHolds /\ [Next]_vars => MergeHolds'
  BY OneClient, NextMerged
<1>4. LifeInv /\ ReadHolds /\ [Next]_vars =>
         [rank(life'.phase) >= rank(life.phase)]_vars
  BY StepForward
<1>5. LifeInv /\ ReadHolds /\ [Next]_vars =>
         [\A c \in Clients : req[c].at = "loaded" /\ req'[c].at = "checked"
             => diff = life.reviewed]_vars
  BY StepCommits
<1>6. MergeHolds => MergedIsPushed
  BY DEF MergeHolds
<1>7. QED
  BY <1>1, <1>2, <1>3, <1>4, <1>5, <1>6, Invariant, PTL
  DEF Spec, DeliverySteps, PhaseForward, CommitIsReviewed
=============================================================================
