------------------------- MODULE ProviderPullsProofs -------------------------
(***************************************************************************)
(* Proofs about the pull requests of the Desktop (ProviderPullBrowser.tsx,  *)
(* provider-workflow-manager.ts) for any number of workspaces, refreshes,   *)
(* operations and failures.                                                 *)
(*                                                                         *)
(* The list rests on the number of the latest refresh: while it is loading  *)
(* that refresh is under way, and unless the filter changed during an       *)
(* operation, the refresh and every operation know the filter chosen now.   *)
(***************************************************************************)
EXTENDS ProviderPulls, TLAPS

Pull == [state : {"none", "waiting", "open", "closed", "merged"}, head : Nat]
Got == UNION {[ws -> Pull] : ws \in SUBSET Workspaces}
Load == [seq : Nat, filter : Filters, got : Got]
Operation == [id : Nat, what : {"merge", "close", "comment"}, w : Workspaces,
              at : {"fresh", "links", "task", "taskmerge", "merge"}, head : Nat,
              filter : Filters, linked : BOOLEAN]

TypeOK ==
  /\ remote \in [Workspaces -> Pull] /\ shown \in [Workspaces -> Pull]
  /\ task \in [Workspaces -> [phase : {"none", "pushed", "creating", "pr_open", "merged",
                                       "completed"}, head : Nat]]
  /\ listed \in SUBSET Workspaces /\ filter \in Filters /\ shownFor \in Filters
  /\ seq \in Nat /\ begun \in Nat /\ loading \in BOOLEAN /\ stale \in BOOLEAN
  /\ loads \in SUBSET Load /\ acts \in SUBSET Operation

\* The refreshes are numbered in the order they are begun, and the latest is under way
\* while the list is loading.  Unless the filter changed during an operation, the latest
\* refresh, the operations and a list at rest are of the chosen filter.
Lists ==
  /\ \A l \in loads : l.seq <= seq
  /\ loading => \E l \in loads : l.seq = seq
  /\ ~stale => /\ \A l \in loads : l.seq = seq => l.filter = filter
               /\ \A a \in acts : a.filter = filter
               /\ ~loading /\ listed # {} => shownFor = filter

\* A merge without the daemon is begun only for a pull request that was not linked.
Links == \A a \in acts : a.at = "merge" => ~a.linked

IInv == TypeOK /\ Lists /\ Links /\ MergesAsConfirmed

-----------------------------------------------------------------------------
\* Another refresh is begun, of the filter chosen now unless that is in doubt.
LEMMA RefreshBegins ==
  ASSUME TypeOK, Lists, NEW ws \in SUBSET Workspaces, NEW f \in Filters, Refreshing(ws, f),
         filter' \in Filters, ~stale' => f = filter',
         \A a \in acts' : ~stale' => a.filter = filter'
  PROVE  /\ Lists' /\ seq' \in Nat /\ loading' \in BOOLEAN /\ loads' \in SUBSET Load
<1>1. [w \in ws |-> Waiting] \in Got
  <2>1. Waiting \in Pull
    BY DEF Waiting, Pull
  <2>2. [w \in ws |-> Waiting] \in [ws -> Pull]
    BY <2>1
  <2>3. QED
    BY <2>2 DEF Got
<1>2. /\ seq \in Nat /\ seq' = seq + 1 /\ loading' = TRUE /\ loads \in SUBSET Load
      /\ loads' = loads \cup {[seq |-> seq + 1, filter |-> f, got |-> [w \in ws |-> Waiting]]}
  BY DEF Refreshing, TypeOK
<1>3. [seq |-> seq + 1, filter |-> f, got |-> [w \in ws |-> Waiting]] \in Load
  BY <1>1, <1>2 DEF Load
<1>4. \A l \in loads : l.seq \in Nat /\ l.seq <= seq
  BY <1>2 DEF Load, Lists
<1>5. \A l \in loads' : l.seq <= seq' /\ (l.seq = seq' => l.filter = f)
  <2>1. \A l \in loads : l.seq <= seq + 1 /\ l.seq # seq + 1
    BY <1>2, <1>4
  <2>2. QED
    BY <1>2, <2>1
<1>6. \E l \in loads' : l.seq = seq'
  <2>1. [seq |-> seq + 1, filter |-> f, got |-> [w \in ws |-> Waiting]] \in loads'
    BY <1>2
  <2>2. [seq |-> seq + 1, filter |-> f, got |-> [w \in ws |-> Waiting]].seq = seq'
    BY <1>2
  <2>3. QED
    BY <2>1, <2>2
<1>7. QED
  BY <1>2, <1>3, <1>5, <1>6 DEF Lists

\* A step that leaves the list alone, and the operations their filter.
LEMMA ListStays ==
  ASSUME Lists, UNCHANGED <<listed, filter, shownFor, seq, loading, loads, stale>>,
         \A a \in acts' : ~stale => a.filter = filter
  PROVE  Lists'
BY DEF Lists

\* A step that leaves the browser and its operations alone.
LEMMA BrowserStays ==
  ASSUME IInv, UNCHANGED <<browser, acts, merges, begun>>,
         remote' \in [Workspaces -> Pull],
         task' \in [Workspaces -> [phase : {"none", "pushed", "creating", "pr_open", "merged",
                                            "completed"}, head : Nat]]
  PROVE  IInv'
BY DEF IInv, TypeOK, Lists, Links, MergesAsConfirmed, browser

\* Everybody else: the pull request is pushed to, closed, created, recorded.
LEMMA ElsewhereStep ==
  ASSUME IInv, NEW w \in Workspaces,
         Push(w) \/ ClosedElsewhere(w) \/ CreatePull(w) \/ RecordPull(w) \/ SyncDefault(w)
  PROVE  IInv'
<1>1. /\ remote \in [Workspaces -> Pull]
      /\ task \in [Workspaces -> [phase : {"none", "pushed", "creating", "pr_open", "merged",
                                           "completed"}, head : Nat]]
  BY DEF IInv, TypeOK
<1>2. CASE Push(w)
  BY <1>1, <1>2, BrowserStays DEF Push, Pull
<1>3. CASE ClosedElsewhere(w)
  BY <1>1, <1>3, BrowserStays DEF ClosedElsewhere, Pull
<1>4. CASE CreatePull(w)
  BY <1>1, <1>4, BrowserStays DEF CreatePull, Pull
<1>5. CASE RecordPull(w)
  BY <1>1, <1>5, BrowserStays DEF RecordPull
<1>6. CASE SyncDefault(w)
  BY <1>1, <1>6, BrowserStays DEF SyncDefault
<1>7. QED
  BY <1>2, <1>3, <1>4, <1>5, <1>6

\* The browser's list: a refresh is begun, answered and shown.
LEMMA ListStep ==
  ASSUME IInv,
         \/ LoadWorkspaces \/ RefreshAll \/ (\E f \in Filters : SetFilter(f))
         \/ (\E l \in loads : ShowPulls(l) \/ \E w \in Workspaces : ListPulls(l, w))
  PROVE  IInv'
<1>1. TypeOK /\ Lists /\ Links /\ MergesAsConfirmed
  BY DEF IInv
<1>2. CASE LoadWorkspaces
  <2>1. PICK ws \in SUBSET Workspaces : listed' = ws /\ Refreshing(ws, filter)
    BY <1>2 DEF LoadWorkspaces
  <2>2. UNCHANGED <<remote, task, filter, shown, shownFor, stale, acts, merges, begun>>
    BY <1>2 DEF LoadWorkspaces, provider
  <2>3. Lists' /\ seq' \in Nat /\ loading' \in BOOLEAN /\ loads' \in SUBSET Load
    <3>1. filter \in Filters /\ \A a \in acts' : ~stale' => a.filter = filter'
      BY <1>1, <2>2 DEF TypeOK, Lists
    <3>2. QED
      BY <1>1, <2>1, <2>2, <3>1, RefreshBegins
  <2>4. QED
    BY <1>1, <2>1, <2>2, <2>3 DEF IInv, TypeOK, Links, MergesAsConfirmed
<1>3. CASE RefreshAll
  <2>1. /\ UNCHANGED <<remote, task, listed, filter, shown, shownFor, stale, acts, merges, begun>>
        /\ Refreshing(listed, filter)
    BY <1>3 DEF RefreshAll, provider
  <2>2. Lists' /\ seq' \in Nat /\ loading' \in BOOLEAN /\ loads' \in SUBSET Load
    <3>1. /\ filter \in Filters /\ listed \in SUBSET Workspaces
          /\ \A a \in acts' : ~stale' => a.filter = filter'
      BY <1>1, <2>1 DEF TypeOK, Lists
    <3>2. QED
      BY <1>1, <2>1, <3>1, RefreshBegins
  <2>3. QED
    BY <1>1, <2>1, <2>2 DEF IInv, TypeOK, Links, MergesAsConfirmed
<1>4. ASSUME NEW f \in Filters, SetFilter(f) PROVE IInv'
  <2>1. /\ UNCHANGED <<remote, task, listed, shown, shownFor, acts, merges, begun>>
        /\ Refreshing(listed, f) /\ filter' = f /\ stale' = (stale \/ acts # {})
    BY <1>4 DEF SetFilter, provider
  <2>2. Lists' /\ seq' \in Nat /\ loading' \in BOOLEAN /\ loads' \in SUBSET Load
    <3>1. listed \in SUBSET Workspaces /\ \A a \in acts' : ~stale' => a.filter = filter'
      BY <1>1, <2>1 DEF TypeOK
    <3>2. QED
      BY <1>1, <2>1, <3>1, RefreshBegins
  <2>3. QED
    BY <1>1, <2>1, <2>2 DEF IInv, TypeOK, Links, MergesAsConfirmed
<1>5. ASSUME NEW l \in loads, ShowPulls(l) PROVE IInv'
  <2>1. /\ UNCHANGED <<remote, task, listed, filter, seq, stale, acts, merges, begun>>
        /\ loads' = loads \ {l}
        /\ l \in Load
    BY <1>1, <1>5 DEF ShowPulls, provider, TypeOK
  <2>2. CASE Current(l)
    <3>1. /\ shown' = [w \in Workspaces |-> IF w \in DOMAIN l.got THEN l.got[w] ELSE NoPull]
          /\ shownFor' = l.filter /\ loading' = FALSE
      BY <1>5, <2>2 DEF ShowPulls
    <3>2. shown' \in [Workspaces -> Pull]
      <4>1. PICK ws \in SUBSET Workspaces : l.got \in [ws -> Pull]
        BY <2>1 DEF Load, Got
      <4>2. NoPull \in Pull
        BY DEF NoPull, Pull
      <4>3. QED
        BY <3>1, <4>1, <4>2
    <3>3. Lists'
      BY <1>1, <1>5, <2>1, <2>2, <3>1 DEF Lists, Current
    <3>4. QED
      BY <1>1, <2>1, <3>1, <3>2, <3>3 DEF IInv, TypeOK, Links, MergesAsConfirmed, Load
  <2>3. CASE ~Current(l)
    <3>1. UNCHANGED <<shown, shownFor, loading>>
      BY <1>5, <2>3 DEF ShowPulls
    <3>2. Lists'
      BY <1>1, <2>1, <2>3, <3>1 DEF Lists, Current
    <3>3. QED
      BY <1>1, <2>1, <3>1, <3>2 DEF IInv, TypeOK, Links, MergesAsConfirmed
  <2>4. QED
    BY <2>2, <2>3
<1>6. ASSUME NEW l \in loads, NEW w \in Workspaces, ListPulls(l, w) PROVE IInv'
  <2>1. PICK pull \in Pull :
           /\ w \in DOMAIN l.got
           /\ loads' = (loads \ {l}) \cup {[l EXCEPT !.got = [@ EXCEPT ![w] = pull]]}
    <3>1. remote[w] \in Pull /\ NoPull \in Pull
      BY <1>1 DEF TypeOK, NoPull, Pull
    <3>2. QED
      BY <1>6, <3>1 DEF ListPulls
  <2>2. UNCHANGED <<remote, task, listed, filter, shown, shownFor, seq, loading, stale, acts,
                    merges, begun>>
    BY <1>6 DEF ListPulls, provider
  <2>3. l \in Load
    BY <1>1 DEF TypeOK
  <2>4. [l.got EXCEPT ![w] = pull] \in Got
    <3>1. PICK ws \in SUBSET Workspaces : l.got \in [ws -> Pull]
      BY <2>3 DEF Load, Got
    <3>2. [l.got EXCEPT ![w] = pull] \in [ws -> Pull]
      BY <3>1
    <3>3. QED
      BY <3>2 DEF Got
  <2>5. PICK k \in Load : /\ k.seq = l.seq /\ k.filter = l.filter
                          /\ loads' = (loads \ {l}) \cup {k}
    <3>1. [l EXCEPT !.got = [@ EXCEPT ![w] = pull]] \in Load
      BY <2>3, <2>4 DEF Load
    <3>2. /\ [l EXCEPT !.got = [@ EXCEPT ![w] = pull]].seq = l.seq
          /\ [l EXCEPT !.got = [@ EXCEPT ![w] = pull]].filter = l.filter
      BY <2>3 DEF Load
    <3>3. QED
      BY <2>1, <3>1, <3>2
  <2>6. Lists'
    BY <1>1, <2>2, <2>5 DEF Lists
  <2>7. QED
    BY <1>1, <2>2, <2>5, <2>6 DEF IInv, TypeOK, Links, MergesAsConfirmed
<1>7. QED
  BY <1>2, <1>3, <1>4, <1>5, <1>6

-----------------------------------------------------------------------------
(* The operations.                                                         *)

\* An operation is begun.
LEMMA PressStep ==
  ASSUME IInv, NEW w \in Workspaces, Press(w)
  PROVE  IInv'
<1>1. TypeOK /\ Lists /\ Links /\ MergesAsConfirmed
  BY DEF IInv
<1>2. UNCHANGED <<remote, task, listed, filter, shown, shownFor, seq, loading, loads, stale,
                  merges>>
  BY DEF Press, provider
<1>3. PICK what \in {"merge", "close", "comment"} : Act(what, w)
  BY DEF Press, MergePull, ClosePull, SubmitComment
<1>4. PICK a \in Operation : /\ acts' = acts \cup {a} /\ begun' = begun + 1
                             /\ a.filter = filter /\ a.at = "fresh"
  <2>1. [id |-> begun + 1, what |-> what, w |-> w, at |-> "fresh", head |-> shown[w].head,
         filter |-> filter, linked |-> FALSE] \in Operation
    BY <1>1 DEF Operation, TypeOK, Pull
  <2>2. QED
    BY <1>3, <2>1 DEF Act
<1>5. Lists'
  <2>1. \A b \in acts' : ~stale => b.filter = filter
    BY <1>1, <1>4 DEF Lists
  <2>2. QED
    BY <1>1, <1>2, <2>1, ListStays
<1>6. Links'
  BY <1>1, <1>4 DEF Links
<1>7. TypeOK'
  BY <1>1, <1>2, <1>4 DEF TypeOK
<1>8. QED
  BY <1>1, <1>2, <1>5, <1>6, <1>7 DEF IInv, MergesAsConfirmed

\* An operation goes on, or fails.
LEMMA GoesOn ==
  ASSUME IInv, NEW a \in acts, NEW next \in Operation, Proceed(a, next), next.filter = a.filter,
         next.at = "merge" => ~next.linked, UNCHANGED <<remote, task, merges>>
  PROVE  IInv'
<1>1. TypeOK /\ Lists /\ Links /\ MergesAsConfirmed
  BY DEF IInv
<1>2. /\ UNCHANGED <<listed, filter, shown, shownFor, seq, loading, loads, stale, begun>>
      /\ acts' = (acts \ {a}) \cup {next}
  BY DEF Proceed, browser
<1>3. Lists'
  <2>1. \A b \in acts' : ~stale => b.filter = filter
    BY <1>1, <1>2 DEF Lists
  <2>2. QED
    BY <1>1, <1>2, <2>1, ListStays
<1>4. Links'
  BY <1>1, <1>2 DEF Links
<1>5. TypeOK'
  BY <1>1, <1>2 DEF TypeOK
<1>6. QED
  BY <1>1, <1>3, <1>4, <1>5 DEF IInv, MergesAsConfirmed

\* An operation is over, with or without a refresh of the list under its filter; a merge
\* it has done is of the confirmed head, and not behind the back of a task.
LEMMA IsOver ==
  ASSUME IInv, NEW a \in acts, Fails(a) \/ Succeeds(a),
         remote' \in [Workspaces -> Pull],
         task' \in [Workspaces -> [phase : {"none", "pushed", "creating", "pr_open", "merged",
                                            "completed"}, head : Nat]],
         \A m \in merges' \ merges : m.head = m.confirmed /\ (m.way = "direct" => ~m.linked)
  PROVE  IInv'
<1>1. TypeOK /\ Lists /\ Links /\ MergesAsConfirmed
  BY DEF IInv
<1>2. /\ UNCHANGED <<listed, filter, shown, shownFor, stale, begun>>
      /\ acts' = acts \ {a}
  BY DEF Fails, Succeeds, Over
<1>3. \A b \in acts' : ~stale => b.filter = filter
  BY <1>1, <1>2 DEF Lists
<1>4. Lists' /\ seq' \in Nat /\ loading' \in BOOLEAN /\ loads' \in SUBSET Load
  <2>1. CASE Fails(a)
    <3>1. UNCHANGED <<seq, loading, loads>>
      BY <2>1 DEF Fails
    <3>2. Lists'
      BY <1>1, <1>2, <1>3, <3>1, ListStays
    <3>3. QED
      BY <1>1, <3>1, <3>2 DEF TypeOK
  <2>2. CASE Succeeds(a)
    <3>1. /\ Refreshing(listed, a.filter) /\ listed \in SUBSET Workspaces
          /\ a.filter \in Filters /\ filter' \in Filters
      BY <1>1, <1>2, <2>2 DEF Succeeds, TypeOK, Operation
    <3>2. ~stale' => a.filter = filter'
      BY <1>1, <1>2 DEF Lists
    <3>3. QED
      BY <1>1, <1>2, <1>3, <3>1, <3>2, RefreshBegins
  <2>3. QED
    BY <2>1, <2>2
<1>5. Links'
  BY <1>1, <1>2 DEF Links
<1>6. TypeOK'
  BY <1>1, <1>2, <1>4 DEF TypeOK
<1>7. MergesAsConfirmed'
  BY <1>1 DEF MergesAsConfirmed
<1>8. QED
  BY <1>4, <1>5, <1>6, <1>7 DEF IInv

\* The steps of the operations.
LEMMA OperationStep ==
  ASSUME IInv, NEW a \in acts,
         \/ Fresh(a) \/ LinkedTaskMap(a) \/ TaskContext(a) \/ MergePullRequest(a)
         \/ TaskMerge(a) \/ CommandFails(a) \/ ClosePullRequest(a) \/ CommentPullRequest(a)
  PROVE  IInv'
<1>1. /\ remote \in [Workspaces -> Pull]
      /\ task \in [Workspaces -> [phase : {"none", "pushed", "creating", "pr_open", "merged",
                                           "completed"}, head : Nat]]
      /\ a \in Operation /\ a.w \in Workspaces
      /\ a.at = "merge" => ~a.linked
  BY DEF IInv, TypeOK, Operation, Links
<1>2. ASSUME Fails(a), UNCHANGED <<remote, task, merges>> PROVE IInv'
  BY <1>1, <1>2, IsOver
<1>3. ASSUME NEW at \in {"fresh", "links", "task", "taskmerge", "merge"}
      PROVE  LET next == [a EXCEPT !.at = at]
             IN next \in Operation /\ next.filter = a.filter /\ next.at = at
  BY <1>1 DEF Operation
<1>4. ASSUME NEW at \in {"fresh", "links", "task", "taskmerge", "merge"}, NEW linked \in BOOLEAN
      PROVE  LET next == [a EXCEPT !.at = at, !.linked = linked]
             IN next \in Operation /\ next.filter = a.filter /\ next.at = at
                /\ next.linked = linked
  BY <1>1 DEF Operation
<1>5. ASSUME NEW way, Merged(a, way), AsConfirmed(a), way = "direct" => a.at = "merge"
      PROVE  /\ remote' \in [Workspaces -> Pull]
             /\ \A m \in merges' \ merges : m.head = m.confirmed /\ (m.way = "direct" => ~m.linked)
  BY <1>1, <1>5 DEF Merged, AsConfirmed, Pull
<1>6. CASE Fresh(a)
  <2>1. CASE cli /\ AsConfirmed(a)
    BY <1>3, <1>6, <2>1, GoesOn DEF Fresh
  <2>2. CASE ~(cli /\ AsConfirmed(a))
    BY <1>2, <1>6, <2>2 DEF Fresh
  <2>3. QED
    BY <2>1, <2>2
<1>7. CASE LinkedTaskMap(a)
  <2>1. CASE Linked(a.w) /\ task[a.w].phase = "pr_open" /\ task[a.w].head = a.head
    BY <1>4, <1>7, <2>1, GoesOn DEF LinkedTaskMap
  <2>2. CASE Linked(a.w) /\ ~(task[a.w].phase = "pr_open" /\ task[a.w].head = a.head)
    BY <1>2, <1>7, <2>2 DEF LinkedTaskMap
  <2>3. CASE ~Linked(a.w)
    <3>1. (task[a.w].phase = "pr_open") = FALSE
      BY <1>1, <2>3 DEF Linked
    <3>2. QED
      BY <1>4, <1>7, <2>3, <3>1, GoesOn DEF LinkedTaskMap
  <2>4. QED
    BY <2>1, <2>2, <2>3
<1>8. CASE TaskContext(a)
  <2>1. CASE TaskMayMerge(a)
    BY <1>3, <1>8, <2>1, GoesOn DEF TaskContext
  <2>2. CASE ~TaskMayMerge(a)
    BY <1>2, <1>8, <2>2 DEF TaskContext
  <2>3. QED
    BY <2>1, <2>2
<1>9. CASE MergePullRequest(a)
  <2>1. CASE cli /\ Accepted(a)
    BY <1>1, <1>5, <1>9, <2>1, IsOver DEF MergePullRequest, Accepted, AsConfirmed
  <2>2. CASE ~(cli /\ Accepted(a))
    BY <1>2, <1>9, <2>2 DEF MergePullRequest
  <2>3. QED
    BY <2>1, <2>2
<1>10. CASE TaskMerge(a)
  <2>1. CASE Accepted(a)
    <3>1. /\ Merged(a, "task") /\ Succeeds(a) /\ AsConfirmed(a)
          /\ task' = [task EXCEPT ![a.w].phase = "merged"]
      BY <1>10, <2>1 DEF TaskMerge, Accepted, AsConfirmed
    <3>2. task' \in [Workspaces -> [phase : {"none", "pushed", "creating", "pr_open", "merged",
                                             "completed"}, head : Nat]]
      BY <1>1, <3>1
    <3>3. QED
      BY <1>5, <3>1, <3>2, IsOver
  <2>2. CASE ~Accepted(a)
    BY <1>2, <1>10, <2>2 DEF TaskMerge
  <2>3. QED
    BY <2>1, <2>2
<1>11. CASE CommandFails(a)
  <2>1. CASE a.at = "merge" /\ Accepted(a) /\ Merged(a, "direct")
    BY <1>1, <1>5, <1>11, <2>1, IsOver DEF CommandFails, Accepted, AsConfirmed
  <2>2. CASE UNCHANGED <<remote, merges>>
    BY <1>2, <1>11, <2>2 DEF CommandFails
  <2>3. QED
    BY <1>11, <2>1, <2>2 DEF CommandFails
<1>12. CASE ClosePullRequest(a)
  <2>1. CASE cli /\ remote[a.w].state = "open"
    <3>1. remote' = [remote EXCEPT ![a.w].state = "closed"] /\ Succeeds(a)
          /\ UNCHANGED <<task, merges>>
      BY <1>12, <2>1 DEF ClosePullRequest
    <3>2. remote' \in [Workspaces -> Pull]
      BY <1>1, <3>1 DEF Pull
    <3>3. QED
      BY <1>1, <3>1, <3>2, IsOver
  <2>2. CASE ~(cli /\ remote[a.w].state = "open")
    BY <1>2, <1>12, <2>2 DEF ClosePullRequest
  <2>3. QED
    BY <2>1, <2>2
<1>13. CASE CommentPullRequest(a)
  BY <1>2, <1>13 DEF CommentPullRequest
<1>14. QED
  BY <1>6, <1>7, <1>8, <1>9, <1>10, <1>11, <1>12, <1>13

-----------------------------------------------------------------------------
\* The invariant holds at the start.
LEMMA Initially == Init => IInv
<1> SUFFICES ASSUME Init PROVE IInv
  OBVIOUS
<1>1. NoPull \in Pull /\ [state |-> "open", head |-> 1] \in Pull
  BY DEF NoPull, Pull
<1>2. remote \in [Workspaces -> Pull] /\ shown \in [Workspaces -> Pull]
  BY <1>1 DEF Init
<1>3. task \in [Workspaces -> [phase : {"none", "pushed", "creating", "pr_open", "merged",
                                        "completed"}, head : Nat]]
  <2>1. \A w \in Workspaces : task[w] \in [phase : {"none", "pushed"}, head : {1}]
    BY DEF Init
  <2>2. \A w \in Workspaces : task[w] \in [phase : {"none", "pushed", "creating", "pr_open",
                                                    "merged", "completed"}, head : Nat]
    BY <2>1
  <2>3. QED
    BY <2>2 DEF Init
<1>4. TypeOK
  BY <1>2, <1>3 DEF Init, TypeOK, Filters
<1>5. QED
  BY <1>4 DEF Init, IInv, Lists, Links, MergesAsConfirmed

\* Every step keeps the invariant.
LEMMA Inductive == IInv /\ [Next]_vars => IInv'
<1> SUFFICES ASSUME IInv, [Next]_vars PROVE IInv'
  OBVIOUS
<1>1. CASE AuthenticationChanges \/ Connect \/ Disconnect \/ ValidateRepository
  BY <1>1, BrowserStays DEF AuthenticationChanges, Connect, Disconnect, ValidateRepository,
     provider, IInv, TypeOK
<1>2. CASE UNCHANGED vars
  BY <1>2, BrowserStays DEF vars, provider, IInv, TypeOK
<1>3. QED
  BY <1>1, <1>2, ElsewhereStep, ListStep, PressStep, OperationStep DEF Next

\* The list and the merges are what the user asked for and confirmed, for any number of
\* workspaces, refreshes and operations under way (ProviderPullBrowser.tsx,
\* provider-workflow-manager.ts).
THEOREM PullsKept == Spec => []PullsAsConfirmed
<1>1. IInv => PullsAsConfirmed
  BY DEF IInv, Lists, PullsAsConfirmed, ListIsOfFilter
<1>2. QED
  BY <1>1, Initially, Inductive, PTL DEF Spec
=============================================================================
