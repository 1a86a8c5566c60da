----------------------------- MODULE ProviderPulls -----------------------------
(***************************************************************************)
(* Pull requests in the Desktop: the session of the provider's command line *)
(* client (provider-manager.ts, provider-cli.ts), the guarded operations on *)
(* pull requests (provider-workflow-manager.ts) and the browser that lists  *)
(* them (ProviderPullBrowser.tsx, ConnectionsScreen.tsx).                   *)
(*                                                                         *)
(* One provider; a workspace has one pull request, of one task of the daemon*)
(* or of none.  A head is a number: pushing makes the next one.             *)
(***************************************************************************)
EXTENDS Naturals, FiniteSets

CONSTANTS Workspaces,
          MaxHead,     \* bound: heads of a pull request
          MaxLoads,    \* bound: refreshes of the list
          MaxActs,     \* bound: merges, closes and comments begun
          MaxFaults    \* bound: failing commands, logouts

Filters == {"open", "closed"}
NoPull == [state |-> "none", head |-> 0]
Waiting == [state |-> "waiting", head |-> 0]
Idle == [what |-> "none", w |-> "none"]

VARIABLES
  remote,    \* the provider's pull requests
  task,      \* the daemon's task of each workspace: phase and recorded head
  cli,       \* the command line client is authenticated
  account,   \* the provider manager knows an account
  file,      \* the stored one
  listed,    \* the browser's workspaces
  filter, shown, shownFor, seq, loading,
  loads,     \* refreshes under way
  mutating,  \* the button that is busy
  acts,      \* operations under way
  merges,    \* merges done: workspace, head, head the user confirmed, way, linked before
  begun, faults,
  stale      \* the filter changed while an operation was under way

provider == <<remote, task, cli>>
session == <<account, file>>
browser == <<listed, filter, shown, shownFor, seq, loading, loads, mutating, stale>>
vars == <<provider, session, browser, acts, merges, begun, faults>>

Fault == faults < MaxFaults /\ faults' = faults + 1

-----------------------------------------------------------------------------
(* Everybody else. *)

Push(w) ==
  /\ remote[w].state = "open" /\ remote[w].head < MaxHead
  /\ remote' = [remote EXCEPT ![w].head = @ + 1]
  /\ UNCHANGED <<task, cli, session, browser, acts, merges, begun, faults>>
ClosedElsewhere(w) ==
  /\ remote[w].state = "open" /\ Fault
  /\ remote' = [remote EXCEPT ![w].state = "closed"]
  /\ UNCHANGED <<task, cli, session, browser, acts, merges, begun>>
AuthenticationChanges ==
  /\ Fault
  /\ cli' = ~cli
  /\ UNCHANGED <<remote, task, session, browser, acts, merges, begun>>

\* createPull of a pushed task: the pull request is there before the daemon has
\* recorded it.
CreatePull(w) ==
  /\ task[w].phase = "pushed" /\ account
  /\ remote' = [remote EXCEPT ![w] = [state |-> "open", head |-> task[w].head]]
  /\ task' = [task EXCEPT ![w].phase = "creating"]
  /\ UNCHANGED <<cli, session, browser, acts, merges, begun, faults>>
RecordPull(w) ==
  /\ task[w].phase = "creating"
  /\ task' = [task EXCEPT ![w].phase = "pr_open"]
  /\ UNCHANGED <<remote, cli, session, browser, acts, merges, begun, faults>>
SyncDefault(w) ==
  /\ task[w].phase = "merged" /\ account
  /\ task' = [task EXCEPT ![w].phase = "completed"]
  /\ UNCHANGED <<remote, cli, session, browser, acts, merges, begun, faults>>

-----------------------------------------------------------------------------
(* The session, and the Connections screen. *)

\* The client's account call succeeds.
Detected == cli

\* requireConnected: every operation asks the client again; nothing is stored.
RequireConnected == account' = Detected

\* connect: what the client says is kept and stored; a client that is not
\* authenticated is an error, and what was stored stays.
Connect ==
  /\ account # cli \/ file # cli
  /\ account' = Detected
  /\ file' = (Detected \/ file)
  /\ UNCHANGED <<provider, browser, acts, merges, begun, faults>>

\* disconnect: the session is forgotten, the client's login left alone.
Disconnect ==
  /\ account /\ Fault
  /\ account' = FALSE /\ file' = FALSE
  /\ UNCHANGED <<provider, browser, acts, merges, begun>>

\* validateRepository, from the Connections screen.
ValidateRepository ==
  /\ account # cli
  /\ RequireConnected
  /\ UNCHANGED <<provider, file, browser, acts, merges, begun, faults>>

-----------------------------------------------------------------------------
(* The browser's list. *)

Matches(pull, f) == pull.state # "none" /\ (pull.state = "open" <=> f = "open")
Actionable(w) == shown[w].state = "open"

\* refreshPulls: another refresh of the given workspaces and filter.
Refreshing(ws, f) ==
  /\ seq < MaxLoads
  /\ seq' = seq + 1
  /\ loading' = TRUE
  /\ loads' = loads \cup {[seq |-> seq + 1, filter |-> f,
                           got |-> [w \in ws |-> Waiting]]}
LoadWorkspaces ==
  /\ listed = {}
  /\ \E ws \in SUBSET Workspaces \ {{}} : listed' = ws /\ Refreshing(ws, filter)
  /\ UNCHANGED <<provider, session, filter, shown, shownFor, mutating, stale, acts, merges, begun, faults>>
SetFilter(f) ==
  /\ f # filter /\ listed # {}
  /\ filter' = f
  /\ Refreshing(listed, f)
  /\ stale' = (stale \/ acts # {})
  /\ UNCHANGED <<provider, session, listed, shown, shownFor, mutating, acts, merges,
                 begun, faults>>
RefreshAll ==
  /\ listed # {} /\ ~loading
  /\ Refreshing(listed, filter)
  /\ UNCHANGED <<provider, session, listed, filter, shown, shownFor, mutating, stale, acts,
                 merges, begun, faults>>

\* listPulls of one workspace is answered.  The session is checked each time.
ListPulls(l, w) ==
  /\ w \in DOMAIN l.got /\ l.got[w] = Waiting
  /\ RequireConnected
  /\ LET pull == IF cli /\ Matches(remote[w], l.filter) THEN remote[w] ELSE NoPull
     IN loads' = (loads \ {l}) \cup {[l EXCEPT !.got = [@ EXCEPT ![w] = pull]]}
  /\ UNCHANGED <<provider, file, listed, filter, shown, shownFor, seq, loading, mutating, stale,
                 acts, merges, begun, faults>>

\* A bug: an answer is shown whenever it comes.
CurrentAny(l) == TRUE

\* All are answered: shown if no other refresh was begun since.
Current(l) == l.seq = seq
ShowPulls(l) ==
  /\ \A w \in DOMAIN l.got : l.got[w] # Waiting
  /\ loads' = loads \ {l}
  /\ IF Current(l)
     THEN /\ shown' = [w \in Workspaces |-> IF w \in DOMAIN l.got THEN l.got[w] ELSE NoPull]
          /\ shownFor' = l.filter
          /\ loading' = FALSE
     ELSE UNCHANGED <<shown, shownFor, loading>>
  /\ UNCHANGED <<provider, session, listed, filter, seq, mutating, stale, acts, merges,
                 begun, faults>>

-----------------------------------------------------------------------------
(* Operations on a listed pull request.  The browser remembers one busy     *)
(* button; the others can be pressed meanwhile.  When an operation is over,  *)
(* that button is free, whichever it is, and the list is refreshed with the  *)
(* filter the operation was begun under.                                     *)

Act(what, w) ==
  /\ listed # {} /\ begun < MaxActs /\ mutating.w # w
  /\ begun' = begun + 1
  /\ mutating' = [what |-> what, w |-> w]
  /\ acts' = acts \cup {[id |-> begun + 1, what |-> what, w |-> w, at |-> "fresh",
                         head |-> shown[w].head, filter |-> filter,
                         linked |-> FALSE]}
MergePull(w) == Actionable(w) /\ Act("merge", w)
ClosePull(w) == Actionable(w) /\ Act("close", w)
SubmitComment(w) == shown[w] # NoPull /\ Act("comment", w)
Press(w) ==
  /\ MergePull(w) \/ ClosePull(w) \/ SubmitComment(w)
  /\ UNCHANGED <<provider, session, listed, filter, shown, shownFor, seq, loading, loads, stale,
                 merges, faults>>

\* The operation is over: an error is shown, or the list refreshed.
Over(a) ==
  /\ acts' = acts \ {a}
  /\ mutating' = Idle
  /\ UNCHANGED <<cli, file, listed, filter, shown, shownFor, stale, begun>>
Fails(a) == Over(a) /\ UNCHANGED <<seq, loading, loads>>
Succeeds(a) == Over(a) /\ Refreshing(listed, a.filter)
Proceed(a, next) ==
  /\ acts' = (acts \ {a}) \cup {next}
  /\ UNCHANGED <<cli, file, browser, begun, faults>>

\* getPullRequest: the pull request as it is now must be the one confirmed.
AsConfirmed(a) == remote[a.w].state = "open" /\ remote[a.w].head = a.head
Fresh(a) ==
  /\ a.at = "fresh" /\ a.what = "merge"
  /\ RequireConnected
  /\ IF cli /\ AsConfirmed(a)
     THEN Proceed(a, [a EXCEPT !.at = "links"])
     ELSE Fails(a) /\ UNCHANGED faults
  /\ UNCHANGED <<remote, task, merges>>

\* linkedTaskMap: the merge of a linked task is the daemon's.
Linked(w) == task[w].phase \notin {"none", "pushed", "creating"}
LinkedTaskMap(a) ==
  /\ a.at = "links"
  /\ IF Linked(a.w)
     THEN IF task[a.w].phase = "pr_open" /\ task[a.w].head = a.head
          THEN Proceed(a, [a EXCEPT !.at = "task", !.linked = TRUE])
          ELSE Fails(a) /\ UNCHANGED faults
     ELSE Proceed(a, [a EXCEPT !.at = "merge", !.linked = task[a.w].phase = "pr_open"])
  /\ UNCHANGED <<account, remote, task, merges>>

\* mergePull of the task: phase, head and pull request are checked once more.
TaskMayMerge(a) ==
  /\ account /\ task[a.w].phase = "pr_open" /\ task[a.w].head = a.head
  /\ AsConfirmed(a)
TaskContext(a) ==
  /\ a.at = "task"
  /\ IF TaskMayMerge(a)
     THEN Proceed(a, [a EXCEPT !.at = "taskmerge"])
     ELSE Fails(a) /\ UNCHANGED faults
  /\ UNCHANGED <<account, remote, task, merges>>

\* The provider merges an open pull request at the given head only.
Accepted(a) == remote[a.w].state = "open" /\ remote[a.w].head = a.head
Merged(a, way) ==
  /\ remote' = [remote EXCEPT ![a.w].state = "merged"]
  /\ merges' = merges \cup {[w |-> a.w, head |-> remote[a.w].head, confirmed |-> a.head,
                             way |-> way, linked |-> a.linked]}

\* mergePullRequest, without a task; its answer can be lost.
MergePullRequest(a) ==
  /\ a.at = "merge"
  /\ RequireConnected
  /\ IF cli /\ Accepted(a)
     THEN /\ Merged(a, "direct")
          /\ Succeeds(a)
          /\ UNCHANGED <<task, faults>>
     ELSE /\ Fails(a)
          /\ UNCHANGED <<remote, task, merges, faults>>

\* The daemon's merge, which it records with the task.
TaskMerge(a) ==
  /\ a.at = "taskmerge"
  /\ IF Accepted(a)
     THEN /\ Merged(a, "task")
          /\ task' = [task EXCEPT ![a.w].phase = "merged"]
          /\ Succeeds(a)
     ELSE /\ Fails(a)
          /\ UNCHANGED <<remote, task, merges>>
  /\ UNCHANGED <<account, faults>>

\* The command fails or times out, the merge done or not.
CommandFails(a) ==
  /\ Fault
  /\ \/ a.at = "merge" /\ Accepted(a) /\ Merged(a, "direct")
     \/ UNCHANGED <<remote, merges>>
  /\ Fails(a)
  /\ UNCHANGED <<account, task>>

\* closePullRequest: an open pull request is closed, whatever its head.
ClosePullRequest(a) ==
  /\ a.at = "fresh" /\ a.what = "close"
  /\ RequireConnected
  /\ IF cli /\ remote[a.w].state = "open"
     THEN remote' = [remote EXCEPT ![a.w].state = "closed"] /\ Succeeds(a)
     ELSE Fails(a) /\ UNCHANGED remote
  /\ UNCHANGED <<task, merges, faults>>
CommentPullRequest(a) ==
  /\ a.at = "fresh" /\ a.what = "comment"
  /\ RequireConnected
  /\ Fails(a)   \* or succeeds: the list stays as it is
  /\ UNCHANGED <<remote, task, merges, faults>>

-----------------------------------------------------------------------------
Init ==
  /\ task \in [Workspaces -> [phase : {"none", "pushed"}, head : {1}]]
  /\ remote = [w \in Workspaces |-> IF task[w].phase = "none"
                                    THEN [state |-> "open", head |-> 1] ELSE NoPull]
  /\ cli = TRUE
  /\ account = TRUE /\ file = TRUE
  /\ listed = {} /\ filter = "open" /\ shown = [w \in Workspaces |-> NoPull]
  /\ shownFor = "open" /\ seq = 0 /\ loading = FALSE /\ loads = {} /\ mutating = Idle
  /\ acts = {} /\ merges = {} /\ begun = 0 /\ faults = 0 /\ stale = FALSE

Next ==
  \/ \E w \in Workspaces : \/ Push(w) \/ ClosedElsewhere(w) \/ CreatePull(w) \/ RecordPull(w)
                           \/ SyncDefault(w) \/ Press(w)
                           \/ \E l \in loads : ListPulls(l, w)
  \/ AuthenticationChanges \/ Connect \/ Disconnect \/ ValidateRepository
  \/ LoadWorkspaces \/ RefreshAll
  \/ \E f \in Filters : SetFilter(f)
  \/ \E l \in loads : ShowPulls(l)
  \/ \E a \in acts : \/ Fresh(a) \/ LinkedTaskMap(a) \/ TaskContext(a) \/ MergePullRequest(a)
                     \/ TaskMerge(a) \/ CommandFails(a) \/ ClosePullRequest(a)
                     \/ CommentPullRequest(a)

Spec == Init /\ [][Next]_vars

-----------------------------------------------------------------------------
\* Every merge is of the head the user saw when confirming it, and the pull
\* request of a task the daemon had recorded is merged by the daemon, never
\* behind the task's back (mergeListedPull, mergePull).
MergesAsConfirmed ==
  \A m \in merges : m.head = m.confirmed /\ (m.way = "direct" => ~m.linked)

\* When nothing is loading the list is the one of the chosen filter - unless the
\* filter changed while an operation was under way; and the list is loading only
\* while a refresh that can end it is under way.
ListIsOfFilter ==
  /\ ~loading /\ ~stale /\ listed # {} => shownFor = filter
  /\ loading => \E l \in loads : l.seq = seq

\* What the user confirmed is what is merged, and what the user looks at is what
\* was asked for, however the loads, the merges and the daemon interleave
\* (ProviderPullBrowser.tsx, provider-workflow-manager.ts).
PullsAsConfirmed == MergesAsConfirmed /\ ListIsOfFilter
================================================================================
