------------------------ MODULE ConversationTimeline ------------------------
(***************************************************************************)
(* The execution timeline of a conversation: Codex server events become    *)
(* progress events (codex-ui-progress.ts), ConversationActivityStore logs  *)
(* them with the messages of ChatGPT and derives the activities            *)
(* (conversation-activity-store.ts), and the chat panel applies the same   *)
(* events while its prompt runs and is hydrated from the store             *)
(* (CodexChatPanel.tsx).                                                   *)
(*                                                                         *)
(* A text, an output or a diff is a sequence of chunks, so that appending  *)
(* and replacing can be told apart.  Labels, redaction, checks of shape    *)
(* and the limit of one field of an event (64 KiB) are left out, and       *)
(* notifications without a turn or an item, which are dropped.             *)
(***************************************************************************)
EXTENDS Naturals, Sequences, FiniteSets, SequencesExt

CONSTANTS
    Runs, Owner,        \* Owner[r]: the workspace of run r
    Notes,              \* the Codex notifications that may arrive, see Progress
    Replies,            \* the ChatGPT progress events that may arrive
    Messages,           \* the messages that a ChatGPT agent may record
    Files,              \* what an earlier version or start may have left on disk
    MaxEvents,          \* MAX_EVENTS: the length of the log
    MaxMessages,        \* 4_000: the messages that are kept
    MaxText,            \* MAX_TEXT_CHARS, in chunks
    MaxShown,           \* 12_000: the activities that the panel collects
    MaxShownText,       \* 120_000, boundedTraceText of the panel, in chunks
    MaxRecords,         \* bound: recorded events and messages
    MaxWrites,          \* bound: writes of the file
    MaxViews,           \* bound: what the user and the hydrations do in the panel
    MaxFaults,          \* bound: failing writes and restarts
    None

VARIABLES
    store,              \* events, activities, messages and nextPosition
    thread,             \* thread[r]: the run's context names its thread
    timer, queue, disk, \* flushTimer, writeQueue, the file
    channel,            \* from the main process to the renderer, in order
    panel,              \* the run that the panel is open on, and its active prompt
    view,               \* timelineActivities of the panel
    losses,             \* history: how often the activities lost something
    synced,             \* history: losses when the last hydration was answered
    stale,              \* history: the last write failed and was swallowed
    records, writes, views, faults

vars == <<store, thread, timer, queue, disk, channel, panel, view, losses, synced,
          stale, records, writes, views, faults>>
file == <<queue, disk, stale, writes>>
renderer == <<channel, panel, view, synced, views>>

Stages == <<"started", "streaming", "completed", "failed">>

-----------------------------------------------------------------------------
(* codexServerEventToRuntimeProgress.  A notification has a method, the    *)
(* type of its item, a body and whether the item failed; what carries no   *)
(* body is dropped, except for items that are shown for their state.  The  *)
(* ids of the turn and of the item are the parts of item.                  *)

P(x, kind, stage, text, out, diff) ==
    [src |-> "codex", run |-> x.run, item |-> x.item, kind |-> kind, stage |-> stage,
     text |-> text, out |-> out, diff |-> diff, tool |-> None, args |-> None]

ItemStage(x) ==
    IF x.method = "item/started" THEN "started"
    ELSE IF x.failed THEN "failed" ELSE "completed"

ItemProgress(x) ==
    CASE x.type \in {"reasoning", "plan"} ->
           IF x.body = <<>> THEN None
           ELSE P(x, "reasoning", IF x.method = "item/started" THEN "started" ELSE "completed",
                  x.body, <<>>, <<>>)
      [] x.type = "commandExecution" ->
           P(x, "command", ItemStage(x), <<>>, x.body, <<>>)
      [] x.type = "fileChange" -> P(x, "file", ItemStage(x), <<>>, <<>>, x.body)
      [] x.type \in {"mcpToolCall", "dynamicToolCall"} ->
           [P(x, "tool", ItemStage(x), <<>>, x.body, <<>>) EXCEPT !.tool = x.type, !.args = x.args]
      [] OTHER -> None

Progress(x) ==
    CASE x.method \in {"item/started", "item/completed"} -> ItemProgress(x)
      [] x.method = "item/fileChange/patchUpdated" ->
           P(x, "file", "streaming", <<>>, <<>>, x.body)
      [] x.body = <<>> -> None
      [] x.method = "agent-message-delta" -> P(x, "response", "streaming", x.body, <<>>, <<>>)
      [] x.method = "agent-message-completed" -> P(x, "response", "completed", x.body, <<>>, <<>>)
      [] x.method \in {"item/reasoning/summaryTextDelta", "item/plan/delta"} ->
           P(x, "reasoning", "streaming", x.body, <<>>, <<>>)
      [] x.method = "turn/plan/updated" ->
           P([x EXCEPT !.item = <<@[1], "turn-plan">>], "reasoning", "completed", x.body, <<>>, <<>>)
      [] x.method = "item/commandExecution/outputDelta" ->
           P(x, "command", "streaming", <<>>, x.body, <<>>)
      [] x.method = "item/fileChange/outputDelta" ->
           P(x, "file", "streaming", <<>>, x.body, <<>>)
      [] OTHER -> None

\* chatGptStage: what the words of a ChatGPT progress event mean.
ChatGptStage(x) ==
    IF x.kind = "response" THEN IF x.stage = "completed" THEN "completed" ELSE "streaming"
    ELSE IF x.stage # "" THEN x.stage
    ELSE IF x.kind = "diff" THEN "completed" ELSE "started"

\* normalizeProgressEvents: a diff of several files is one event per file.
NormalizeProgressEvents(e) ==
    IF e.kind \notin {"file", "diff"} \/ Len(e.diff) <= 1 THEN <<e>>
    ELSE [i \in 1..Len(e.diff) |->
            [e EXCEPT !.diff = <<e.diff[i]>>,
                      !.item = IF e.src = "codex" THEN Append(e.item, e.diff[i])
                               ELSE <<"diff-file", e.diff[i]>>]]

-----------------------------------------------------------------------------
(* Merging.                                                                *)

\* strongestActivityStage.
Strongest(a, b) ==
    CHOOSE s \in {a, b} : \A t \in {a, b} :
        SelectInSeq(Stages, LAMBDA u : u = t) <= SelectInSeq(Stages, LAMBDA u : u = s)

\* bounded and boundedTraceText: the end of a long text is kept, and marked.
CutTo(s, max) ==
    IF Len(s) <= max THEN s ELSE Append(SubSeq(s, Len(s) - max + 2, Len(s)), "...")
Bounded(s) == CutTo(s, MaxText)

Field(old, new, append) ==
    IF new = <<>> THEN old ELSE Bounded(IF append THEN old \o new ELSE new)

Merged(prev, inc, appendText, appendOut) ==
    [inc EXCEPT !.id = prev.id, !.position = prev.position,
        !.stage = Strongest(prev.stage, inc.stage),
        !.item = IF inc.item = <<>> THEN prev.item ELSE inc.item,
        !.thread = inc.thread \/ prev.thread,
        !.tool = IF inc.tool = None THEN prev.tool ELSE inc.tool,
        !.args = IF inc.args = None THEN prev.args ELSE inc.args,
        !.text = Field(prev.text, inc.text, appendText),
        !.out = Field(prev.out, inc.out, appendOut),
        !.diff = Field(prev.diff, inc.diff, FALSE)]

MergeActivity(prev, inc) ==
    LET append == inc.src = "codex" /\ inc.stage = "streaming"
    IN  Merged(prev, inc, append /\ inc.kind \in {"response", "reasoning"}, append)

\* A log event has a type and the activity it was logged with.
\* Mutation: a delta of a reply replaces what was replayed so far.
MergeReplace(prev, e) == Merged(prev, e.act, FALSE, e.type \in {"command_output_delta"})
MergeActivityFromLog(prev, e) ==
    Merged(prev, e.act,
           e.type \in {"assistant_text_delta", "reasoning_delta"} /\ e.act.stage = "streaming",
           e.type \in {"command_output_delta", "tool_call_output_delta"})

LogEventTypes(a) ==
    CASE a.kind = "response" -> <<"assistant_text_delta">>
      [] a.kind = "reasoning" -> <<"reasoning_delta">>
      [] a.kind = "command" ->
           IF a.stage = "started" THEN <<"command_started">>
           ELSE IF a.stage = "streaming" THEN <<"command_output_delta">>
           ELSE <<"command_finished">>
      [] a.kind = "file" -> IF a.diff # <<>> THEN <<"file_diff">> ELSE <<"file_changed">>
      [] a.stage = "streaming" -> <<"tool_call_output_delta">>
      [] a.stage = "started" ->
           <<"tool_call_started">> \o (IF a.args = None THEN <<>> ELSE <<"tool_call_args">>)
      [] OTHER -> (IF a.args = None THEN <<>> ELSE <<"tool_call_args">>) \o <<"tool_call_finished">>

LogEventsFromProgress(a) ==
    [i \in 1..Len(LogEventTypes(a)) |-> [type |-> LogEventTypes(a)[i], act |-> a]]

IndexOf(list, id) == SelectInSeq(list, LAMBDA a : a.id = id)

ApplyLogEvent(list, e) ==
    LET i == IndexOf(list, e.act.id)
    IN  IF i = 0 THEN Append(list, e.act)
        ELSE [list EXCEPT ![i] = MergeActivityFromLog(list[i], e)]

ReplayEvents(events) == FoldLeft(ApplyLogEvent, <<>>, events)

MaxPosition(list) == FoldLeft(LAMBDA m, a : IF a.position > m THEN a.position ELSE m, 0, list)
MaxEventPosition(events) == MaxPosition([i \in DOMAIN events |-> events[i].act])

-----------------------------------------------------------------------------
(* Recording.                                                              *)

Open(a) == a.stage \notin {"completed", "failed"}

Id(src, scope, kind, key, position) ==
    [src |-> src, scope |-> scope, kind |-> kind, key |-> key, position |-> position]
ItemId(e) == Id("chatgpt", <<e.run, e.task>>, e.kind, e.item, 0)

\* progressActivityId: the activity of a ChatGPT tool event is the one of its item;
\* the latest open call of that tool with its parameters; or an open call whose
\* parameters do not contradict.
ToolCandidate(acts, e) ==
    LET same(a) == /\ a.src = "chatgpt" /\ a.kind = "tool"
                   /\ a.run = e.run /\ a.task = e.task
        open(a) == same(a) /\ Open(a) /\ a.tool = e.tool
        byItem == SelectLastInSeq(acts, LAMBDA a : same(a) /\ a.item = e.item)
        byId == IndexOf(acts, ItemId(e))
        exact == SelectLastInSeq(acts, LAMBDA a : open(a) /\ a.args = e.args)
        compatible == SelectLastInSeq(acts, LAMBDA a : open(a) /\ None \in {e.args, a.args})
    IN  IF e.item # <<>> /\ byItem # 0 THEN byItem
        ELSE IF e.item # <<>> /\ byId # 0 THEN byId
        ELSE IF exact # 0 THEN exact ELSE compatible

ProgressActivityId(s, e) ==
    IF e.src = "codex"
      THEN Id("codex", <<e.run, thread[e.run]>>, e.kind, e.item, 0)
    ELSE IF e.kind = "tool"
      THEN LET i == ToolCandidate(s.acts, e)
           IN  IF i # 0 THEN s.acts[i].id
               ELSE IF e.item # <<>> THEN ItemId(e)
               ELSE Id("chatgpt", <<e.run, e.task>>, "tool", <<e.tool, e.args>>, s.nextPosition)
    ELSE IF e.kind = "diff" THEN Id("chatgpt", <<e.run, e.task>>, "diff", e.diff, 0)
    ELSE ItemId(e)

PositionFor(s, id) ==
    LET i == IndexOf(s.acts, id) IN IF i = 0 THEN s.nextPosition ELSE s.acts[i].position

ActivityFromEvent(s, e, id) ==
    [id |-> id, src |-> e.src, run |-> e.run, item |-> e.item,
     task |-> IF e.src = "codex" THEN None ELSE e.task,
     thread |-> e.src = "codex" /\ thread[e.run],
     kind |-> IF e.kind = "diff" THEN "file" ELSE e.kind,
     stage |-> IF e.src = "codex" THEN e.stage ELSE ChatGptStage(e),
     position |-> PositionFor(s, id), tool |-> e.tool, args |-> e.args,
     text |-> Bounded(e.text), out |-> Bounded(e.out), diff |-> Bounded(e.diff)]

UpsertActivity(acts, a) ==
    LET i == IndexOf(acts, a.id)
    IN  IF i = 0 THEN Append(acts, a) ELSE [acts EXCEPT ![i] = MergeActivity(acts[i], a)]

LastOf(list, max) == IF Len(list) <= max THEN list ELSE SubSeq(list, Len(list) - max + 1, Len(list))
TrimEvents(events) == LastOf(events, MaxEvents)

\* recordProgress; r carries the store, what is sent to the window, and
\* whether trimming the log changed what the activities show.
RecordProgress(r, e) ==
    LET s == r.store
        a == ActivityFromEvent(s, e, ProgressActivityId(s, e))
        all == s.log \o LogEventsFromProgress(a)
        events == TrimEvents(all)
        live == UpsertActivity(s.acts, a)
        acts == IF events = all THEN live ELSE ReplayEvents(events)
    IN  [store |-> [s EXCEPT !.log = events, !.acts = acts,
                             !.nextPosition = IF IndexOf(s.acts, a.id) = 0 THEN @ + 1 ELSE @],
         sent |-> Append(r.sent, [event |-> a]), same |-> r.same /\ acts = live]

ScheduleFlush == timer' = TRUE

\* publishMainRuntimeEvent sends to the window, if there is one.
Publish(sent) == channel' = IF panel.run = None THEN channel ELSE channel \o sent

\* record: every part of a progress event, then they go to the window.  What ChatGPT
\* reasons is passed on, and shown nowhere.
Record(e) ==
    /\ records < MaxRecords
    /\ ~(e.src = "chatgpt" /\ e.kind = "reasoning")
    /\ records' = records + 1
    /\ \E r \in {FoldLeft(RecordProgress, [store |-> store, sent |-> <<>>, same |-> TRUE],
                          NormalizeProgressEvents(e))} :
         /\ store' = r.store
         /\ Publish(r.sent)
         /\ losses' = IF r.same THEN losses ELSE losses + 1
    /\ ScheduleFlush
    /\ UNCHANGED <<thread, file, panel, view, synced, views, faults>>

RecordCodex(x) == \E e \in {Progress(x)} \ {None} : Record(e)

\* recordMessage: a message takes the place of the one with its id.
RecordMessage(m) ==
    LET i == IndexOf(store.messages, m.id)
    IN  /\ records < MaxRecords
        /\ records' = records + 1
        /\ store' = [store EXCEPT !.messages =
              LastOf(IF i = 0 THEN Append(@, m) ELSE [@ EXCEPT ![i] = m], MaxMessages)]
        /\ ScheduleFlush
        /\ UNCHANGED <<thread, file, renderer, losses, faults>>

\* The context of a run names its thread from now on: the host is attached and the
\* binding is written (runtimeFor).
NameThread(r) ==
    /\ ~thread[r]
    /\ thread' = [thread EXCEPT ![r] = TRUE]
    /\ UNCHANGED <<store, timer, file, renderer, losses, records, faults>>

Replayed(events) == [store EXCEPT !.log = events, !.acts = ReplayEvents(events)]

Shown(a) == <<a.id, a.text, a.out, a.diff, a.position>>
ShownAll(acts) == {Shown(acts[i]) : i \in DOMAIN acts}

\* attachThread: the logged events of the run get the thread.
AttachThread(r) ==
    LET events == [i \in DOMAIN store.log |->
                     IF store.log[i].act.src = "codex" /\ store.log[i].act.run = r
                       THEN [store.log[i] EXCEPT !.act.thread = TRUE] ELSE store.log[i]]
    IN  /\ thread[r] /\ events # store.log
        /\ store' = Replayed(events)
        /\ losses' = IF ShownAll(store'.acts) = ShownAll(store.acts) THEN losses ELSE losses + 1
        /\ ScheduleFlush
        /\ UNCHANGED <<thread, file, renderer, records, faults>>

\* clearWorkspace.
ClearWorkspace(w) ==
    LET kept == SelectSeq(store.log, LAMBDA e : Owner[e.act.run] # w)
        messages == SelectSeq(store.messages, LAMBDA m : Owner[m.run] # w)
    IN  /\ kept # store.log \/ messages # store.messages
        /\ store' = [Replayed(kept) EXCEPT !.messages = messages]
        /\ losses' = losses + 1
        /\ ScheduleFlush
        /\ UNCHANGED <<thread, file, renderer, records, faults>>

-----------------------------------------------------------------------------
(* The file.                                                               *)

Snapshot == [legacy |-> FALSE, log |-> store.log, acts |-> <<>>,
             messages |-> store.messages, nextPosition |-> store.nextPosition]

\* The timer fires, or flush() cuts it short: enqueueWrite.
EnqueueWrite ==
    /\ timer
    /\ writes < MaxWrites
    /\ writes' = writes + 1
    /\ timer' = FALSE
    /\ queue' = Append(queue, Snapshot)
    /\ UNCHANGED <<store, thread, disk, stale, renderer, losses, records, faults>>

\* The head of the writeQueue is written and renamed into place, or the
\* error is swallowed.
Write ==
    /\ queue # <<>>
    /\ queue' = Tail(queue)
    /\ \/ /\ disk' = Head(queue) /\ stale' = FALSE
          /\ UNCHANGED faults
       \/ /\ faults < MaxFaults /\ faults' = faults + 1
          /\ stale' = TRUE /\ UNCHANGED disk
    /\ UNCHANGED <<store, thread, timer, writes, renderer, losses, records>>

\* snapshotActivityEvent: an activity of the first version of the file becomes one event.
SnapshotActivityEvent(a) ==
    LET done == ~Open(a)
    IN  [act |-> a,
         type |-> CASE a.kind = "response" -> "assistant_text_delta"
                    [] a.kind = "reasoning" -> "reasoning_delta"
                    [] a.kind = "command" -> IF done THEN "command_finished" ELSE "command_started"
                    [] a.kind = "file" -> IF a.diff # <<>> THEN "file_diff" ELSE "file_changed"
                    [] OTHER -> IF done THEN "tool_call_finished" ELSE "tool_call_started"]

\* initialize: the log is replayed, or made of the activities of a legacy file; the
\* next position is above all of it.
Initialize(d) ==
    LET acts == LastOf(d.acts, MaxEvents)
        events == IF d.legacy THEN [i \in DOMAIN acts |-> SnapshotActivityEvent(acts[i])]
                  ELSE TrimEvents(d.log)
        above == MaxEventPosition(events) + 1
    IN  [log |-> events, acts |-> IF d.legacy THEN acts ELSE ReplayEvents(events),
         messages |-> IF d.legacy THEN <<>> ELSE LastOf(d.messages, MaxMessages),
         nextPosition |-> IF d.nextPosition > above THEN d.nextPosition ELSE above]

NoPanel == [run |-> None, prompt |-> FALSE, task |-> None]

\* The process ends; what it had not written is lost.
Restart ==
    /\ faults < MaxFaults
    /\ faults' = faults + 1
    /\ store' = Initialize(disk)
    /\ thread' = [r \in Runs |-> FALSE]
    /\ timer' = FALSE /\ queue' = <<>> /\ stale' = FALSE
    /\ channel' = <<>> /\ panel' = NoPanel /\ view' = {} /\ synced' = None
    /\ UNCHANGED <<losses, disk, records, writes, views>>

-----------------------------------------------------------------------------
(* The panel.                                                              *)

\* What the user and the timers do in the panel.
Act == views < MaxViews /\ views' = views + 1
main == <<store, thread, timer, file, losses, records, faults>>

\* The panel is opened on a run, after a start, a reload or in another workspace:
\* nothing is shown and no prompt is active.
OpenPanel(r) ==
    /\ Act
    /\ panel.run # r
    /\ panel' = [NoPanel EXCEPT !.run = r]
    /\ view' = {} /\ synced' = None
    /\ channel' = IF panel.run = None THEN <<>> ELSE channel
    /\ UNCHANGED main

\* executePrompt: the run of the prompt becomes the active one; the events of a run are
\* applied while it is.
BeginPrompt ==
    /\ Act
    /\ panel.run # None /\ ~panel.prompt
    /\ panel' = [panel EXCEPT !.prompt = TRUE, !.task = None]
    /\ UNCHANGED <<channel, view, synced, main>>
EndPrompt ==
    /\ panel.prompt
    /\ panel' = [panel EXCEPT !.prompt = FALSE, !.task = None]
    /\ UNCHANGED <<channel, view, synced, views, main>>

\* list: the activities of the run.
ListOf(r) == {store.acts[i] : i \in {j \in DOMAIN store.acts : store.acts[j].run = r}}

\* getHarnessCodexConversation answers with the store's activities; answers
\* and events keep their order on the way to the renderer.
Hydrate ==
    /\ Act
    /\ panel.run # None
    /\ channel' = Append(channel, [list |-> ListOf(panel.run), run |-> panel.run, at |-> losses])
    /\ UNCHANGED <<panel, view, synced, main>>

\* The activities in the order of their positions; the panel keeps the last ones.
Latest(acts) == {a \in acts : Cardinality({b \in acts : b.position > a.position}) < MaxShown}

\* The panel shows the newest stage, and cuts only what it appends to.
ViewMerged(prev, inc) ==
    LET append == inc.src = "codex" /\ inc.stage = "streaming"
        joined(old, new) == CutTo(old \o new, MaxShownText)
        m == Merged(prev, inc, FALSE, FALSE)
    IN  [m EXCEPT !.stage = inc.stage,
            !.text = IF append /\ inc.text # <<>> /\ inc.kind \in {"response", "reasoning"}
                     THEN joined(prev.text, inc.text) ELSE m.text,
            !.out = IF append /\ inc.out # <<>> THEN joined(prev.out, inc.out) ELSE m.out]

\* applyRuntimeActivityEvent.
ApplyRuntimeActivityEvent(a) ==
    IF \E b \in view : b.id = a.id
      THEN {IF b.id = a.id THEN ViewMerged(b, a) ELSE b : b \in view}
      ELSE Latest(view \cup {a})

\* The event is of the active prompt: of its run and, once a task of ChatGPT is known,
\* of its task.
OfPrompt(a) ==
    /\ panel.prompt /\ a.run = panel.run
    /\ a.src = "chatgpt" => panel.task \in {None, a.task}

\* An event is applied if it is of the prompt.
ReceiveEvent ==
    LET a == Head(channel).event
    IN  /\ channel # <<>> /\ "event" \in DOMAIN Head(channel)
        /\ channel' = Tail(channel)
        /\ IF OfPrompt(a)
             THEN /\ view' = ApplyRuntimeActivityEvent(a)
                  /\ panel' = IF a.src = "chatgpt" THEN [panel EXCEPT !.task = a.task] ELSE panel
                  /\ UNCHANGED synced
             ELSE /\ synced' = IF a.run = panel.run THEN None ELSE synced
                  /\ UNCHANGED <<view, panel>>
        /\ UNCHANGED <<views, main>>

\* An answer replaces what is shown, unless it is for another run or the effect that
\* asked was stopped.
ReceiveAnswer ==
    LET m == Head(channel)
    IN  /\ channel # <<>> /\ "list" \in DOMAIN m
        /\ channel' = Tail(channel)
        /\ \/ /\ m.run = panel.run
              /\ view' = m.list /\ synced' = m.at
           \/ UNCHANGED <<view, synced>>
        /\ UNCHANGED <<panel, views, main>>

-----------------------------------------------------------------------------
Init ==
    /\ disk \in Files
    /\ store = Initialize(disk)
    /\ thread = [r \in Runs |-> FALSE]
    /\ timer = FALSE /\ queue = <<>>
    /\ channel = <<>> /\ panel = NoPanel /\ view = {} /\ losses = 0 /\ synced = None
    /\ stale = FALSE
    /\ records = 0 /\ writes = 0 /\ views = 0 /\ faults = 0

Next ==
    \/ \E x \in Notes : RecordCodex(x)
    \/ \E e \in Replies : Record(e)
    \/ \E m \in Messages : RecordMessage(m)
    \/ \E r \in Runs : NameThread(r) \/ AttachThread(r) \/ OpenPanel(r)
    \/ \E r \in Runs : ClearWorkspace(Owner[r])
    \/ EnqueueWrite \/ Write \/ Restart
    \/ BeginPrompt \/ EndPrompt \/ Hydrate \/ ReceiveEvent \/ ReceiveAnswer

Spec == Init /\ [][Next]_vars

-----------------------------------------------------------------------------
(* Properties.                                                             *)

\* What a restart would rebuild from the log is what streamed live, for all
\* that Codex reports but the output of a file change: replayEvents and
\* mergeActivity agree however events, trimming, attaching a thread and
\* clearing interleave.
ReplayAgrees ==
    \A a \in ToSet(store.acts) :
        a.src = "codex" /\ a.kind # "file" => a \in ToSet(ReplayEvents(store.log))

\* Once the timer has fired and the queue has drained, the file holds the log and the
\* messages, unless the last write failed (enqueueWrite swallows that) or nothing was
\* changed since a start.
FileConverges ==
    ~timer /\ queue = <<>> /\ ~stale => Initialize(disk) = Initialize(Snapshot)

\* With nothing under way to it, the panel shows what the store holds since
\* the hydration that followed the last loss of the store or of the panel, though it
\* applies every event on its own: no delta is lost or applied twice.  The panel cuts a
\* text that grows beyond MaxShownText, the store only beyond MaxText.
ShownAs(a, b) ==
    /\ a.id = b.id /\ a.position = b.position /\ a.diff = b.diff
    /\ a.text = b.text \/ Len(b.text) > MaxShownText
    /\ a.out = b.out \/ Len(b.out) > MaxShownText
PanelFollows ==
    panel.run # None /\ channel = <<>> /\ synced = losses =>
        /\ \A a \in view : \E b \in ListOf(panel.run) : ShownAs(a, b)
        /\ \A b \in Latest(ListOf(panel.run)) : \E a \in view : ShownAs(a, b)

\* The activity log replays to the timeline that was shown, in memory and from the
\* file.
LogSurvives == ReplayAgrees /\ FileConverges

\* The timeline of a conversation is one and the same in the store, in its file, in
\* its log and in the panel.
TimelineIsKept == LogSurvives /\ PanelFollows
=============================================================================
