------------------------------ MODULE ReviewBrowser ------------------------------
(***************************************************************************)
(* The ChatGPT control plane of the Desktop: the review loop              *)
(* (chatgpt-review-loop.ts), the two ways it reaches a ChatGPT page - the *)
(* Desktop's own hidden window (chatgpt-review-web-driver.ts) and the     *)
(* user's Chrome, through the loopback bridge and the extension's content *)
(* script (chrome-extension-bridge.ts, chrome-extension-review-driver.ts, *)
(* extension/source/content.js) - and the journal of browser commands     *)
(* that binds a SourceNerve conversation to a ChatGPT one                 *)
(* (browser-command-state.ts).                                            *)
(*                                                                        *)
(* A runner drives a page through one control message: a task drives the  *)
(* hidden window, which all tasks share, and a Chrome tab drives itself   *)
(* on behalf of the bridge command it fetched.  The steps of a runner are *)
(* the stretches of code between the awaits that last.  Page scripts,     *)
(* which find elements by trying selectors, are modelled by their outcome *)
(* on the page: the draft in the composer, the location, the conversation.*)
(* ChatGPT and the person in front of the tab are the environment.        *)
(***************************************************************************)
EXTENDS Naturals, Sequences, FiniteSets, FiniteSetsExt

CONSTANTS Tasks, Tabs, Logicals,
          Iterations,       \* per task: the iterations of its loop, 0 for the
                            \* direct agent, which only begins
          MaxConversations, \* conversations ChatGPT ever holds
          MaxProjects,      \* projects ever created for the workspace
          MaxCommands,      \* commands ever sent through the bridge
          MaxFaults         \* what goes wrong: pages that cannot be driven,
                            \* timeouts, lost receipts, a person in the tab

Window == "window"
Pages == {Window} \cup Tabs
Runners == Tasks \cup Tabs
PageOf(r) == IF r \in Tabs THEN r ELSE Window

\* A location of a page: the start page, a project or a conversation.
Home == <<"home", 0>>
Project(k) == <<"project", k>>
Conv(c) == <<"conv", c>>
IsConv(l) == l[1] = "conv"

\* The control message of task t: INIT for i = 0, EXECUTED i after that.
NoMsg == <<>>
NotTried == <<0, Home>>
Idle == [pc |-> "idle", msg |-> NoMsg, cmd |-> 0, before |-> <<Home, 0>>,
         accepted |-> FALSE, owned |-> FALSE, bind |-> Home]

VARIABLES
  loop,      \* per task: where ChatGptReviewLoop.run stands
  transport, \* CompositeChatGptReviewDriver.taskTransports
  active,    \* activeTaskId of the web driver
  cancelled, \* cancelledTaskIds of the web driver
  exec,      \* per runner: the page automation under way
  page,      \* per page: its location and the draft in its composer
  attempted, \* per tab: the command it last navigated for, and where to
  convs,     \* ChatGPT: the conversations
  live,      \* ChatGPT: the workspace's project, 0 when there is none, and
             \* how many were made
  cmds,      \* the bridge's commands, oldest first
  store,     \* the journal: project and conversation bindings
  logical,   \* the SourceNerve conversation of each task
  faults,
  strays,    \* tasks given, on a page of their own, a reply to another message
  disturbed, \* runners whose page or conversation somebody else used
  resent     \* messages sent again: redelivered while queued, or by fallback

vars == <<loop, transport, active, cancelled, exec, page, attempted, convs, live,
          cmds, store, logical, faults, strays, disturbed, resent>>
chat == <<convs, live>>
env == <<logical, faults>>

Fault == faults < MaxFaults /\ faults' = faults + 1

-----------------------------------------------------------------------------
(* ChatGPT's side of a page. *)

Log(l) == IF IsConv(l) THEN convs[l[2]].log ELSE <<>>
Generating(l) == IsConv(l) /\ convs[l[2]].gen
Gone(l) == \/ IsConv(l) /\ convs[l[2]].gone
           \/ l[1] = "project" /\ l[2] # live.now

\* The last entry of a conversation with the given author, and its place.
Places(l, by) == {n \in DOMAIN Log(l) : Log(l)[n].by = by}
LatestAt(l, by) == Max(Places(l, by) \cup {0})

\* Sending the draft: on a conversation page it is the next message, on any
\* other page it opens a conversation there.
CanSubmit(p) == IsConv(page[p].at) \/ Len(convs) < MaxConversations
SentTo(p) == IF IsConv(page[p].at) THEN page[p].at ELSE Conv(Len(convs) + 1)
WithMessage(p, draft) ==
  LET entry == [by |-> "user", of |-> draft, for |-> NoMsg, kind |-> "text"] IN
  IF IsConv(page[p].at)
  THEN [convs EXCEPT ![page[p].at[2]].log = Append(@, entry), ![page[p].at[2]].gen = FALSE]
  ELSE Append(convs, [log |-> <<entry>>, gen |-> FALSE, gone |-> FALSE])
ClickSend(p) ==
  /\ CanSubmit(p)
  /\ convs' = WithMessage(p, page[p].draft)
  /\ page' = [page EXCEPT ![p] = [at |-> SentTo(p), draft |-> {}]]

-----------------------------------------------------------------------------
(* The journal, browser-command-state.ts: a record carries the conversation *)
(* of the frontend that is bound to it, and binds the task's SourceNerve    *)
(* conversation to it when the workspace has a project.                     *)

Record(s, t, l) ==
  IF IsConv(l) /\ s.project # 0
  THEN [s EXCEPT !.conv[logical[t]] = [project |-> s.project, conv |-> l[2]]] ELSE s
LatestProviderConversationId(t) ==
  IF store.project # 0 /\ store.conv[logical[t]].project = store.project
  THEN store.conv[logical[t]].conv ELSE 0
ClearProviderConversation(s, t) == [s EXCEPT !.conv[logical[t]] = [project |-> 0, conv |-> 0]]
RecordWorkspaceProject(s, k) ==
  [project |-> k,
   conv |-> IF s.project # 0 /\ s.project # k
            THEN [g \in Logicals |-> IF s.conv[g].project = k THEN s.conv[g]
                                     ELSE [project |-> 0, conv |-> 0]]
            ELSE s.conv]
ClearWorkspaceProject(s) == [s EXCEPT !.project = 0]

-----------------------------------------------------------------------------
(* What a snapshot of the page says about a submission:                     *)
(* chatgpt-review-response-ownership.ts and its copy in content.js.  The    *)
(* snapshot taken before the submission is a location and how many entries  *)
(* it showed; entries of another conversation have other turn ids.          *)

ShownBefore(e, l, n) == l = e.before[1] /\ n <= e.before[2]

SnapshotOwnsSubmittedUserTurn(e, l) ==
  LET u == LatestAt(l, "user") IN
  u # 0 /\ ~ShownBefore(e, l, u) /\ e.msg \in Log(l)[u].of

NewAssistantTurn(e, l) ==
  LET a == LatestAt(l, "assistant") IN a # 0 /\ ~ShownBefore(e, l, a)

\* A bug: any complete assistant text on the page will do.
AnyAssistantResponse(e, l) == e.accepted /\ LatestAt(l, "assistant") # 0

OwnedAssistantResponseCandidate(e, l) ==
  /\ e.accepted
  /\ NewAssistantTurn(e, l)
  /\ e.owned => LatestAt(l, "assistant") > LatestAt(l, "user")

AssistantSnapshot(l) == <<l, Len(Log(l))>>
ClearComposer(p) == page' = [page EXCEPT ![p].draft = {}]
InsertControlMessage(p, held, msg) == page' = [page EXCEPT ![p].draft = held \cup {msg}]
ComposerEmpty(p) == page[p].draft = {}

\* The app mention is typed first; when no option for it shows up the composer
\* is cleared, whatever it holds.
BindAppMention(p) == {page[p].draft, {}}

\* Acceptance: the message is on the page, a reply is being written, more is
\* shown than before, or the composer is empty.
MessageAccepted(e, p, l) ==
  \/ SnapshotOwnsSubmittedUserTurn(e, l)
  \/ Generating(l)
  \/ Len(Log(l)) > e.before[2]
  \/ ComposerEmpty(p)

StableResponse(e, l) ==
  /\ OwnedAssistantResponseCandidate(e, l)
  /\ ~Generating(l)

-----------------------------------------------------------------------------
(* The review loop. *)

Msg(t) == <<t, loop[t].i>>
Finish(l, t, pc) == [l EXCEPT ![t].pc = pc]

\* parseChatGptReviewControlMessage: a block of this task, of the iteration
\* its state calls for.
Expected(t) == IF Iterations[t] = 0 THEN {"done"} ELSE {"plan", "done"}
Matches(t, entry) == entry.kind \in Expected(t) /\ entry.for = Msg(t)

LoopAfter(t, entry) ==
  IF ~Matches(t, entry) THEN Finish(loop, t, "failed")
  ELSE [loop EXCEPT ![t] = [@ EXCEPT !.on = entry.for,
          !.pc = CASE entry.kind = "done" -> "done"
                   [] entry.kind = "plan" /\ loop[t].i = Iterations[t] -> "blocked"
                   [] OTHER -> "executing"]]

\* requireTaskBoundReply of the Chrome driver.
TaskBound(t, entry) == entry.kind \in {"plan", "done"} /\ entry.for[1] = t

\* What the driver returns, and whether it is the reply that was asked for.
Reply(t, r, entry) ==
  strays' = IF r \notin disturbed /\ Msg(t) \notin entry.of THEN strays \cup {t} ELSE strays

-----------------------------------------------------------------------------
(* Disturbance bookkeeping: r used the location l of its page. *)

Submitting(o) == exec[o].pc \in {"insert", "click", "poll"}
OthersAt(r, ls) == {o \in Runners \ {r} : Submitting(o) /\ page[PageOf(o)].at \in ls}
Disturbs(r, p, ls) == {o \in Runners \ {r} : Submitting(o) /\ PageOf(o) = p} \cup OthersAt(r, ls)

-----------------------------------------------------------------------------
(* The web driver. *)

\* begin: the task becomes the active one and any old cancellation is dropped.
WebBegin(t) ==
  /\ active' = t
  /\ cancelled' = cancelled \ {t}
  /\ exec' = [exec EXCEPT ![t] = [Idle EXCEPT !.pc = "locate", !.msg = <<t, 0>>]]
  /\ transport' = [transport EXCEPT ![t] = "web"]

\* What the bridge last heard from the extension: the tabs report where they
\* are on every change of the page and every five seconds; for half a minute
\* without a report, or with another protocol version, there is no extension.
Presence == {page[b].at : b \in Tabs}

\* ChromeExtensionBridge.sendCommand: the queued command keeps the bindings
\* the journal has now, and is recorded with the frontend last seen.
Bound(k) == cmds[k].stage \in {"queued", "active"}
SendCommand(t, msg, seen) ==
  /\ Len(cmds) < MaxCommands
  /\ cmds' = Append(cmds, [task |-> t, msg |-> msg, stage |-> "queued", out |-> FALSE,
                           wait |-> TRUE, project |-> store.project,
                           conv |-> LatestProviderConversationId(t)])
  /\ store' = Record(store, t, seen)

ChromeSend(t, i) == \E seen \in Presence : SendCommand(t, <<t, i>>, seen)

Begin(t) ==
  /\ loop[t].pc = "idle"
  /\ loop' = [loop EXCEPT ![t] = [pc |-> "asking", i |-> 0, on |-> NoMsg]]
  /\ \/ /\ WebBegin(t)
        /\ UNCHANGED <<cmds, store>>
     \/ /\ ChromeSend(t, 0)
        /\ transport' = [transport EXCEPT ![t] = "chrome"]
        /\ UNCHANGED <<active, cancelled, exec>>
  /\ UNCHANGED <<page, attempted, chat, env, strays, disturbed, resent>>

\* review of the web driver: only for the task that began last.
Asked(t) == [loop EXCEPT ![t] = [pc |-> "asking", i |-> @.i + 1, on |-> NoMsg]]
WebReview(t) ==
  \/ /\ active # t
     /\ loop' = Finish(loop, t, "failed")
     /\ UNCHANGED exec
  \/ /\ active = t
     /\ loop' = Asked(t)
     /\ exec' = [exec EXCEPT ![t] = [Idle EXCEPT !.pc = "compose", !.msg = <<t, loop[t].i + 1>>]]

\* The execution between two stages (Codex and verification) succeeds and the
\* loop asks for a review over the task's transport, or fails and ends it.
Review(t) ==
  /\ loop[t].pc = "executing"
  /\ \/ /\ Fault
        /\ loop' = Finish(loop, t, "failed")
        /\ UNCHANGED <<exec, cmds, store>>
     \/ /\ transport[t] # "chrome"
        /\ WebReview(t)
        /\ UNCHANGED <<cmds, store, faults>>
     \/ /\ transport[t] = "chrome"
        /\ loop' = Asked(t)
        /\ ChromeSend(t, loop[t].i + 1)
        /\ UNCHANGED <<exec, faults>>
  /\ UNCHANGED <<transport, active, cancelled, page, attempted, chat, logical, strays, disturbed, resent>>

\* ensureConversationWindow: the bound conversation when it still opens, else
\* the bound project, else the project of that name, else a new project.
FindProject == live.now
CreateProject == [now |-> live.made + 1, made |-> live.made + 1]
NextProject == IF FindProject # 0 THEN live ELSE CreateProject
EnsureWindow(l) == page' = [page EXCEPT ![Window] = [at |-> l, draft |-> {}]]
EnsureProjectWindow(s) ==
  \/ /\ s.project # 0
     /\ EnsureWindow(Project(s.project))
     /\ store' = s
     /\ UNCHANGED live
  \/ /\ s.project = 0
     /\ NextProject.made <= MaxProjects
     /\ live' = NextProject
     /\ EnsureWindow(Project(NextProject.now))
     /\ store' = RecordWorkspaceProject(s, NextProject.now)
EnsureConversationWindow(t) ==
  LET c == LatestProviderConversationId(t)
      s1 == IF c # 0 THEN ClearProviderConversation(store, t) ELSE store
      s2 == IF Gone(Project(s1.project)) THEN ClearWorkspaceProject(s1) ELSE s1 IN
  /\ exec[t].pc = "locate"
  /\ t \notin cancelled
  /\ \/ /\ c # 0 /\ ~Gone(Conv(c))
        /\ EnsureWindow(Conv(c))
        /\ UNCHANGED <<store, live>>
     \/ /\ c # 0 => Gone(Conv(c))
        /\ EnsureProjectWindow(s2)
  /\ exec' = [exec EXCEPT ![t].pc = "compose"]
  /\ disturbed' = disturbed \cup Disturbs(t, Window, {})
  /\ UNCHANGED <<loop, transport, active, cancelled, attempted, convs, cmds, env, strays, resent>>

-----------------------------------------------------------------------------
(* The extension's content script in tab b. *)

\* A bug: every command that has no result yet is handed out.
DeliverableWhileOpen(k) == Bound(k)

\* nextCommand: the oldest queued command that is not out, or went out more
\* than 15 seconds ago; a tab asks only while it is not busy.
Deliverable(k) ==
  /\ cmds[k].stage = "queued"
  /\ \A j \in 1..(k - 1) : cmds[j].stage = "queued" => cmds[j].out

Fetch(b) ==
  /\ exec[b].pc = "idle"
  /\ \E k \in DOMAIN cmds :
       /\ Deliverable(k)
       /\ cmds' = [cmds EXCEPT ![k].out = TRUE]
       /\ resent' = IF cmds[k].out /\ cmds[k].stage = "queued" THEN resent \cup {cmds[k].msg} ELSE resent
       /\ exec' = [exec EXCEPT ![b] = [Idle EXCEPT !.pc = "locate", !.cmd = k, !.msg = cmds[k].msg]]
  /\ UNCHANGED <<loop, transport, active, cancelled, page, attempted, chat, store, env, strays, disturbed>>

\* ensureCommandLocation: on the spot the script goes on; otherwise it hands
\* the command back (deferCommand, with what it learnt of the project or the
\* conversation) and leaves for where it should be, or notices that it was
\* sent elsewhere the last time.  The project url a tab remembers for its
\* session is taken to be the one the command carries.
Defer(b, project, conv, s, l, tried) ==
  /\ cmds' = [cmds EXCEPT ![exec[b].cmd] = [@ EXCEPT !.out = FALSE, !.project = project, !.conv = conv]]
  /\ store' = s
  /\ exec' = [exec EXCEPT ![b] = Idle]
  /\ attempted' = [attempted EXCEPT ![b] = tried]
  /\ \E at \in {l} \cup (IF Gone(l) THEN {Home} ELSE {}) :
       page' = [page EXCEPT ![b] = [at |-> at, draft |-> IF at = @.at THEN @.draft ELSE {}]]
KeepProject(k) == IF cmds[k].project = 0 THEN store ELSE RecordWorkspaceProject(store, cmds[k].project)

EnsureCommandLocation(b) ==
  LET k == exec[b].cmd
      c == cmds[k]
      t == c.task
      at == page[b].at
      target == IF c.conv # 0 THEN Conv(c.conv) ELSE Project(c.project) IN
  /\ exec[b].pc = "locate"
  /\ \/ /\ c.conv = 0 => c.project # 0
        /\ at = target /\ ~Gone(target)
        /\ exec' = [exec EXCEPT ![b].pc = "compose"]
        /\ attempted' = [attempted EXCEPT ![b] = NotTried]
        /\ UNCHANGED <<cmds, store, page, live>>
     \/ /\ c.conv # 0
        /\ at = target /\ Gone(target)
        /\ Defer(b, c.project, 0, ClearProviderConversation(KeepProject(k), t),
                 IF c.project # 0 THEN Project(c.project) ELSE Home, NotTried)
        /\ UNCHANGED live
     \/ /\ c.conv # 0
        /\ at # target /\ attempted[b] = <<k, target>>
        /\ Defer(b, c.project, 0, ClearProviderConversation(store, t), at, NotTried)
        /\ UNCHANGED live
     \/ /\ c.conv = 0 /\ c.project # 0
        /\ at = target => Gone(target)
        /\ at # target => attempted[b] = <<k, target>>
        /\ Defer(b, 0, 0, ClearWorkspaceProject(store), IF at = target THEN Home ELSE at, NotTried)
        /\ UNCHANGED live
     \/ /\ c.conv = 0 => c.project # 0
        /\ at # target /\ attempted[b] # <<k, target>>
        /\ Defer(b, c.project, c.conv, KeepProject(k), target, <<k, target>>)
        /\ UNCHANGED live
     \/ /\ c.conv = 0 /\ c.project = 0 /\ live.now # 0
        /\ Defer(b, live.now, 0, RecordWorkspaceProject(store, live.now), Project(live.now), NotTried)
        /\ UNCHANGED live
     \/ /\ c.conv = 0 /\ c.project = 0 /\ live.now = 0 /\ at # Home
        /\ Defer(b, 0, 0, store, Home, NotTried)
        /\ UNCHANGED live
     \/ /\ c.conv = 0 /\ c.project = 0 /\ live.now = 0 /\ at = Home
        /\ NextProject.made <= MaxProjects
        /\ live' = NextProject
        /\ cmds' = [cmds EXCEPT ![k].out = FALSE]
        /\ page' = [page EXCEPT ![b] = [at |-> Project(NextProject.now), draft |-> {}]]
        /\ exec' = [exec EXCEPT ![b] = Idle]
        /\ UNCHANGED <<store, attempted>>
  /\ UNCHANGED <<loop, transport, active, cancelled, convs, env, strays, disturbed, resent>>

\* A receipt of the content script, and ChromeExtensionBridge.complete: the
\* stage is stored whatever it was ("active" stands for inserted, clicked,
\* accepted and streaming), the project and the conversation of the page are
\* recorded; or the receipt does not arrive and nobody retries it.
Received(b, stage, at) ==
  LET k == exec[b].cmd IN
  /\ cmds' = [cmds EXCEPT ![k] = [@ EXCEPT !.stage = stage,
                                  !.wait = @ /\ stage \notin {"stable", "failed"}]]
  /\ store' = Record(KeepProject(k), cmds[k].task, at)
  /\ UNCHANGED faults
Receipt(b, stage, at) ==
  \/ Received(b, stage, at)
  \/ Fault /\ UNCHANGED <<cmds, store>>

\* A record of the web driver: a review does not name the SourceNerve
\* conversation, so it binds nothing.
WebRecord(t, l) == IF exec[t].msg[2] = 0 THEN Record(store, t, l) ELSE store

\* The step of a runner leaves a record: a task writes the journal itself.
Leaves(r, stage, at) ==
  \/ /\ r \in Tabs
     /\ Receipt(r, stage, at)
  \/ /\ r \in Tasks
     /\ store' = WebRecord(r, at)
     /\ UNCHANGED <<cmds, faults>>

AssertNotCancelled(r) == r \notin cancelled

-----------------------------------------------------------------------------
(* What every runner does with its page. *)

\* The conversation settles or two and a half seconds pass, the page is
\* remembered as it is, and the composer is cleared.
Compose(r) ==
  LET p == PageOf(r)
      at == page[p].at IN
  /\ exec[r].pc = "compose"
  /\ AssertNotCancelled(r)
  /\ exec' = [exec EXCEPT ![r] = [@ EXCEPT !.pc = "insert", !.before = AssistantSnapshot(at),
                                       !.bind = IF r \in Tasks THEN at ELSE Home]]
  /\ ClearComposer(p)
  /\ disturbed' = (disturbed \ {r}) \cup Disturbs(r, p, {at})
                     \cup (IF OthersAt(r, {at}) = {} THEN {} ELSE {r})
  /\ IF r \in Tasks
     THEN store' = WebRecord(r, at)
     ELSE UNCHANGED store
  /\ UNCHANGED <<loop, transport, active, cancelled, attempted, chat, cmds, env, strays, resent>>

\* The control message is inserted behind whatever the composer holds.
Insert(r) ==
  LET p == PageOf(r) IN
  /\ exec[r].pc = "insert"
  /\ AssertNotCancelled(r)
  /\ \E held \in BindAppMention(p) : InsertControlMessage(p, held, exec[r].msg)
  /\ exec' = [exec EXCEPT ![r].pc = "click"]
  /\ disturbed' = disturbed \cup Disturbs(r, p, {})
  /\ Leaves(r, "active", IF r \in Tasks THEN exec[r].bind ELSE page[p].at)
  /\ UNCHANGED <<loop, transport, active, cancelled, attempted, chat, logical, strays, resent>>

\* The send button, or ENTER: what the composer holds is sent.  An empty
\* composer counts as sent too.
Click(r) ==
  LET p == PageOf(r) IN
  /\ exec[r].pc = "click"
  /\ AssertNotCancelled(r)
  /\ IF ComposerEmpty(p)
     THEN UNCHANGED <<convs, page, disturbed>>
     ELSE /\ ClickSend(p)
          /\ disturbed' = disturbed \cup Disturbs(r, p, {page[p].at})
  /\ exec' = [exec EXCEPT ![r].pc = "poll"]
  /\ Leaves(r, "active", IF r \in Tasks THEN exec[r].bind ELSE page[p].at)
  /\ UNCHANGED <<loop, transport, active, cancelled, attempted, live, logical, strays, resent>>

Current(r) == [exec[r] EXCEPT !.owned = @ \/ SnapshotOwnsSubmittedUserTurn(exec[r], page[PageOf(r)].at)]
Polling(r) == exec[r].pc = "poll" /\ AssertNotCancelled(r)

\* A poll finds the message accepted, and whether its own user turn is the
\* latest on the page; the composer may be empty before the turn is shown.
Observe(r) ==
  LET at == page[PageOf(r)].at IN
  /\ Polling(r)
  /\ \/ /\ ~exec[r].accepted
        /\ MessageAccepted(exec[r], PageOf(r), at)
        /\ \E shown \in {Current(r)} \cup (IF ComposerEmpty(PageOf(r)) THEN {exec[r]} ELSE {}) :
             exec' = [exec EXCEPT ![r] = [shown EXCEPT !.accepted = TRUE,
                                          !.bind = IF r \in Tasks THEN at ELSE Home]]
        /\ Leaves(r, "active", at)
     \/ /\ exec[r].accepted
        /\ Current(r) # exec[r]
        /\ exec' = [exec EXCEPT ![r] = Current(r)]
        /\ UNCHANGED <<cmds, store, faults>>
  /\ UNCHANGED <<loop, transport, active, cancelled, page, attempted, chat, logical, strays, disturbed, resent>>

\* The tab reports the text of a reply that is still being written.
Streaming(b) ==
  LET at == page[b].at IN
  /\ Polling(b)
  /\ OwnedAssistantResponseCandidate(Current(b), at)
  /\ cmds[exec[b].cmd].stage # "active"
  /\ Received(b, "active", at)
  /\ UNCHANGED <<loop, transport, active, cancelled, exec, page, attempted, chat, logical, strays, disturbed, resent>>

\* Three polls show the same text: the task has its reply.
Stable(t) ==
  LET at == page[Window].at
      entry == Log(at)[LatestAt(at, "assistant")] IN
  /\ Polling(t)
  /\ Current(t) = exec[t]
  /\ StableResponse(exec[t], at)
  /\ entry.kind # "cut"
  /\ store' = WebRecord(t, at)
  /\ exec' = [exec EXCEPT ![t] = Idle]
  /\ Reply(t, t, entry)
  /\ loop' = IF loop[t].pc = "asking" THEN LoopAfter(t, entry) ELSE loop
  /\ active' = IF entry.kind = "done" /\ loop[t].i > 0 THEN "none" ELSE active
  /\ disturbed' = disturbed \ {t}
  /\ UNCHANGED <<transport, cancelled, page, attempted, chat, cmds, env, resent>>

\* The same in a tab: the receipt resolves the command its task waits for.
\* A reply to begin that is not bound to the task sends it to the window.
StableInTab(b) ==
  LET at == page[b].at
      k == exec[b].cmd
      t == cmds[k].task
      entry == Log(at)[LatestAt(at, "assistant")] IN
  /\ Polling(b)
  /\ Current(b) = exec[b]
  /\ StableResponse(exec[b], at)
  /\ Receipt(b, "stable", at)
  /\ \/ /\ faults' = faults => ~cmds[k].wait
        /\ exec' = [exec EXCEPT ![b] = Idle]
        /\ UNCHANGED <<loop, transport, active, cancelled, strays, resent>>
     \/ /\ faults' = faults /\ cmds[k].wait
        /\ loop[t].i = 0 => TaskBound(t, entry)
        /\ exec' = [exec EXCEPT ![b] = Idle]
        /\ Reply(t, b, entry)
        /\ loop' = LoopAfter(t, entry)
        /\ UNCHANGED <<transport, active, cancelled, resent>>
     \/ /\ faults' = faults /\ cmds[k].wait
        /\ ~TaskBound(t, entry) /\ loop[t].i = 0
        /\ Reply(t, b, entry)
        /\ active' = t
        /\ cancelled' = cancelled \ {t}
        /\ transport' = [transport EXCEPT ![t] = "web"]
        /\ exec' = [exec EXCEPT ![b] = Idle, ![t] = [Idle EXCEPT !.pc = "locate", !.msg = <<t, 0>>]]
        /\ resent' = resent \cup {<<t, 0>>}
        /\ UNCHANGED loop
  /\ disturbed' = disturbed \ {b}
  /\ UNCHANGED <<page, attempted, chat, logical>>

\* A script of the page is tried again, in other ways, until none is left.
ExecutionFails(t) == IF t \in cancelled THEN UNCHANGED faults ELSE Fault

\* A page that cannot be driven, a reply that does not come or stays cut off,
\* a cancellation noticed: the runner gives up and says so.
Fail(t) ==
  /\ exec[t].pc # "idle"
  /\ ExecutionFails(t)
  /\ store' = IF exec[t].pc \in {"locate", "compose"} THEN store ELSE WebRecord(t, exec[t].bind)
  /\ exec' = [exec EXCEPT ![t] = Idle]
  /\ loop' = IF loop[t].pc = "asking" THEN Finish(loop, t, "failed") ELSE loop
  /\ disturbed' = disturbed \ {t}
  /\ UNCHANGED <<transport, active, cancelled, page, attempted, chat, cmds, logical, strays, resent>>

FailInTab(b) ==
  LET k == exec[b].cmd IN
  /\ exec[b].pc # "idle"
  /\ Fault
  /\ cmds' = [cmds EXCEPT ![k] = [@ EXCEPT !.stage = "failed", !.wait = FALSE]]
  /\ store' = Record(store, cmds[k].task, page[b].at)
  /\ exec' = [exec EXCEPT ![b] = Idle]
  /\ loop' = IF cmds[k].wait THEN Finish(loop, cmds[k].task, "failed") ELSE loop
  /\ disturbed' = disturbed \ {b}
  /\ UNCHANGED <<transport, active, cancelled, page, attempted, chat, logical, strays, resent>>

\* withChatGptStageTimeout: the stage took 31 minutes; the driver is told to
\* cancel the task (ChromeExtensionBridge.cancelTask, and the mark of the web
\* driver) and the loop fails.
Watchdog(t) ==
  LET open == {k \in DOMAIN cmds : cmds[k].task = t /\ Bound(k)} IN
  /\ loop[t].pc = "asking"
  /\ Fault
  /\ loop' = Finish(loop, t, "failed")
  /\ transport' = [transport EXCEPT ![t] = "none"]
  /\ cancelled' = cancelled \cup {t}
  /\ active' = IF active = t THEN "none" ELSE active
  /\ cmds' = [k \in DOMAIN cmds |->
                IF k \in open THEN [cmds[k] EXCEPT !.stage = "cancelled", !.wait = FALSE] ELSE cmds[k]]
  /\ \E seen \in Presence : store' = IF open = {} THEN store ELSE Record(store, t, seen)
  /\ UNCHANGED <<exec, page, attempted, chat, logical, strays, disturbed, resent>>

\* commandTimeout: no receipt for 31 minutes.
CommandTimeout(k) ==
  /\ cmds[k].wait
  /\ Fault
  /\ cmds' = [cmds EXCEPT ![k].stage = "failed", ![k].wait = FALSE]
  /\ \E seen \in Presence : store' = Record(store, cmds[k].task, seen)
  /\ loop' = Finish(loop, cmds[k].task, "failed")
  /\ UNCHANGED <<transport, active, cancelled, exec, page, attempted, chat, logical, strays, disturbed, resent>>

-----------------------------------------------------------------------------
(* ChatGPT starts on the latest message of a conversation some time after  *)
(* it is shown, and answers it: with the block of a control message in it,  *)
(* or, by mistake, with none or with that of an earlier message.  The       *)
(* connection may break and the answer be completed later.                  *)

Last(c) == convs[c].log[Len(convs[c].log)]
Said(c, kind, for) ==
  LET entry == [by |-> "assistant", of |-> Last(c).of, for |-> for, kind |-> kind]
      log == convs[c].log IN
  IF Last(c).by = "user" THEN Append(log, entry) ELSE [log EXCEPT ![Len(log)] = entry]
Start(c) ==
  /\ Last(c).by = "user" /\ ~convs[c].gen
  /\ convs' = [convs EXCEPT ![c].gen = TRUE]
  /\ UNCHANGED <<live, faults>>
Earlier(c) == UNION {convs[c].log[n].of : n \in DOMAIN convs[c].log} \ Last(c).of
Answer(c) ==
  /\ ~convs[c].gen => Last(c).kind = "cut"
  /\ \E kind \in {"plan", "done", "bad"}, m \in Last(c).of \cup Earlier(c) \cup {NoMsg} :
       /\ kind = "bad" <=> m = NoMsg
       /\ convs' = [convs EXCEPT ![c] = [@ EXCEPT !.log = Said(c, kind, m), !.gen = FALSE]]
       /\ IF m \in Last(c).of \/ Last(c).of = {} THEN UNCHANGED faults ELSE Fault
  /\ UNCHANGED live
Cut(c) ==
  /\ Fault
  /\ convs[c].gen
  /\ convs' = [convs EXCEPT ![c] = [@ EXCEPT !.log = Said(c, "cut", NoMsg), !.gen = FALSE]]
  /\ UNCHANGED live
Forget ==
  /\ Fault
  /\ \/ \E c \in DOMAIN convs : ~convs[c].gone /\ convs' = [convs EXCEPT ![c].gone = TRUE] /\ UNCHANGED live
     \/ live.now # 0 /\ live' = [live EXCEPT !.now = 0] /\ UNCHANGED convs
ChatGpt ==
  /\ \/ \E c \in DOMAIN convs : Start(c) \/ Answer(c) \/ Cut(c)
     \/ Forget
  /\ UNCHANGED <<loop, transport, active, cancelled, exec, page, attempted, cmds, store, logical, strays,
                 disturbed, resent>>

\* The person in front of Chrome goes elsewhere in a tab, which ends the
\* script in it, or sends something in it.
Person(b) ==
  /\ Fault
  /\ \/ \E l \in {Home} \cup {Conv(c) : c \in DOMAIN convs} :
          /\ l # page[b].at
          /\ page' = [page EXCEPT ![b] = [at |-> l, draft |-> {}]]
          /\ exec' = [exec EXCEPT ![b] = Idle]
          /\ UNCHANGED <<convs, disturbed>>
     \/ /\ ClickSend(b)
        /\ disturbed' = disturbed \cup {b} \cup Disturbs(b, b, {page[b].at})
        /\ UNCHANGED exec
  /\ UNCHANGED <<loop, transport, active, cancelled, attempted, live, cmds, store, logical, strays, resent>>

-----------------------------------------------------------------------------
\* The tabs may show a conversation of the person's own, and the journal may
\* know the workspace's project from an earlier process.
Init ==
  /\ loop = [t \in Tasks |-> [pc |-> "idle", i |-> 0, on |-> NoMsg]]
  /\ transport = [t \in Tasks |-> "none"]
  /\ active = "none"
  /\ cancelled = {}
  /\ exec = [r \in Runners |-> Idle]
  /\ convs = <<[log |-> <<[by |-> "user", of |-> {}, for |-> NoMsg, kind |-> "text"],
                          [by |-> "assistant", of |-> {}, for |-> NoMsg, kind |-> "bad"]>>,
                gen |-> FALSE, gone |-> FALSE]>>
  /\ page = [p \in Pages |-> [at |-> IF p \in Tabs THEN Conv(1) ELSE Home, draft |-> {}]]
  /\ attempted = [b \in Tabs |-> NotTried]
  /\ \E k \in {0, 1} :
       /\ live = [now |-> k, made |-> k]
       /\ store = [project |-> k, conv |-> [g \in Logicals |-> [project |-> 0, conv |-> 0]]]
  /\ cmds = <<>>
  /\ logical \in [Tasks -> Logicals]
  /\ faults = 0
  /\ strays = {}
  /\ disturbed = {}
  /\ resent = {}

Next ==
  \/ \E t \in Tasks :
       \/ Begin(t) \/ Review(t) \/ EnsureConversationWindow(t)
       \/ Stable(t) \/ Fail(t) \/ Watchdog(t)
  \/ \E b \in Tabs :
       \/ Fetch(b) \/ EnsureCommandLocation(b) \/ Streaming(b)
       \/ StableInTab(b) \/ FailInTab(b) \/ Person(b)
  \/ \E r \in Runners : Compose(r) \/ Insert(r) \/ Click(r) \/ Observe(r)
  \/ \E k \in DOMAIN cmds : CommandTimeout(k)
  \/ ChatGpt

Spec == Init /\ [][Next]_vars

-----------------------------------------------------------------------------
\* The reply a driver returns to a task answers the very control message the
\* task asked with, whatever older replies the conversation shows, as long as
\* nobody else used the page or the conversation in between
\* (sendAndReceive and the content script's execute).
ReplyIsToTheQuestion == strays = {}

\* A control message reaches ChatGPT twice only through a redelivered command
\* whose receipt got lost or whose tab was slow or left, or through the fallback
\* to the window: what the task was told to do is not done twice.
Submissions(m) == {<<c, n>> \in (1..Len(convs)) \X (1..8) :
                     /\ n \in DOMAIN convs[c].log
                     /\ convs[c].log[n].by = "user" /\ m \in convs[c].log[n].of}
SubmittedOnce ==
  \A t \in Tasks : \A i \in 0..Iterations[t] :
    Cardinality(Submissions(<<t, i>>)) > 1 => <<t, i>> \in resent

\* Whoever else used the page, a loop goes on, or reports done, only on the
\* reply to the control message of its own current iteration
\* (parseChatGptReviewControlMessage).
ActsOnItsReply ==
  \A t \in Tasks : loop[t].pc \in {"executing", "done", "blocked"} => loop[t].on = Msg(t)

\* A loop acts on the reply to its own question, whoever used the page; and the reply a
\* driver returns is to the question it asked, unless somebody else did.
RepliesBelong == ReplyIsToTheQuestion /\ ActsOnItsReply
================================================================================
