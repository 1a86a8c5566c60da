# SourceNerve: TLA+ models, model checking and proofs

SourceNerve lets people and language-model agents change a Git repository under
guards. A Rust service (`src/src`) keeps tasks, patches, delivery and callbacks
in one SQLite database, next to the working tree of each workspace, the Git
remote and the provider (GitHub or GitLab); several service processes may share
one database (`docs/distributed-coordination.md`). An Electron application
(`src/desktop`) starts that service, drives Codex and ChatGPT, manages MCP
extensions, plugins and skills, and shows all of it.

This project models the parts that decide whether a change is made, recorded,
reported and shown correctly: the transactional core of the service, and the
managers and stateful screens of the application. `PROJECT.json` lists every
component with its sources and status, the line every definition translates,
the hazards with the line where they bite, the runs, the deliberate errors
that the properties were tried on, and the theorems.

## 1. The system

### The service

| component | state | operations | module |
|---|---|---|---|
| mutation lease (`coordination.rs`) | a row of `mutation_leases` per workspace: owner, lease id, fencing token, expiry | acquire, renew task, `assert_current`, release on drop | `MutationLease` |
| guarded patch (`service.rs`) | working tree, `changesets` | `validate_patch`, `apply_patch_locked`, `record_patch_applied` | `MutationLease`, `TaskTransactions` |
| task transactions (`task_transactions.rs`) | `tasks`, `task_proposals`, `task_events` | begin, get, cancel, propose, apply | `TaskTransactions` |
| task delivery (`task_lifecycle.rs`, `workflow.rs`, `git_provider.rs`, `ops.rs`) | `task_lifecycle`, `idempotency_records`, branches, remote, change requests | branch, review, commit, push, issue, change request, merge, sync | `TaskLifecycle` |
| callback outbox (`callback.rs`, migration 0010) | `callback_outbox`, `callback_runtime_state` | reserve (trigger), startup recovery, claim, attempt, outcome, explicit retry | `CallbackOutbox` |

### The application

| component (`src/desktop/src`) | state | what happens to it | module |
|---|---|---|---|
| Codex runtime pool, thread store | bindings of runs to threads, warm hosts, the registry file and its queue of writes | turns, cancellation, eviction, clear, shutdown | `CodexRuntime` |
| Codex app-server host, JSON-RPC | child process, pending requests, turns, skill roots | spawn, initialize, answers, crash, shutdown | `CodexTransport` |
| daemon, workspaces, migration, crash marker | daemon process and plan, workspace registry, grants | start, attach, stop, restart, quit, register, import with compensation | `DesktopRuntime` |
| updates | updater state, what is downloaded and installed | check, download, restart to update | `DesktopUpdates` |
| preferences | preference file, login item, window | save, undo, close, start | `DesktopSettings` |
| runtime log | bounded log, rotated files | record, rotate, restart | `RuntimeLog` |
| diagnostics | previews, latest backup | preview, export, back up, restart | `DesktopDiagnostics` |
| agent turns and task registry | runs, worker families, idempotency keys, registry | begin, prepare, finish, cancel, poll | `AgentTurns` |
| MCP extensions, governance, OAuth | installed versions, evidence, tokens, the daemon's enabled set | install, update, roll back, enable, remove, verify, log in, refresh | `McpExtensions` |
| extension and plugin screens | copies of the above, the busy button | requests, answers in any order, edits | `ExtensionScreens` |
| npm skills and skill cache | CLI home, lock file, pinned skills | search, choose, install, import, activate | `NpmSkills` |
| plugin hub | plugin registry, marketplace cache, skill policies | install, update, remove, enable, materialize, resolve for a turn | `PluginHub` |
| plugin domain verification | challenge token, secret store, launch plan | set, probe, clear | `PluginVerification` |
| public MCP route | route, credential, tunnel process | enroll, rotate, revoke, repair, crash | `PublicMcp` |
| conversation activity | event log, derived activities, the panel's copy | record, persist, replay, hydrate, merge | `ConversationTimeline` |
| chat panel and harness screen | selected workspace and run, permissions, calls in flight | prompts, approvals, clears, switches | `HarnessPanel` |
| application shell | setup signals, route, Codex CLI | refresh, events, login, navigation | `AppShell` |
| desktop control | permissions, portal helper, MCP server, gateway entry | permit, probe, inject, revoke, time out | `DesktopControl` |
| ChatGPT review window, extension bridge, loop | pages, commands and receipts, conversations | submit, wait, own a reply, redeliver, fall back | `ReviewBrowser` |
| provider pull requests | CLI session, list, filter, selection | load, merge, close | `ProviderPulls` |

### How the components interact

A task is begun on a snapshot of the repository. A proposal is validated and
stored; applying it takes the process's `mutation_lock`, checks the snapshot,
takes the lease, validates, runs `git apply` between two fence assertions,
records a changeset, and closes proposal and task in one transaction. A trigger
moves the task's lifecycle row to `patched`. The client then drives branch,
review, commit, push, change request, merge and sync; each of these reads
without a lock, makes one locked call, writes the row and inserts an event. A
trigger on the events reserves a callback row, which a worker delivers.

In the application the renderer's screens call the main process over IPC; the
managers there call the daemon, child processes and files. Everything is one
JavaScript thread per process: code between two awaits is atomic, and every
await lets another handler in. A call's answer can therefore meet a state that
is not the one it was asked in; a step of a sequence can fail with or without
its effect; a child process can die between a request and its answer; and the
application can be killed between two writes. The interactions across modules
are the calls: `AgentTurns` sees the Codex pool and the ChatGPT driver as an
environment, `PluginHub` has the skills preflight of `NpmSkills` as one step,
`ExtensionScreens` sees `McpExtensions` and `PluginHub` through their answers.

### What is hard, and the properties that answer it

* **Leases across processes**: expiry, late renewals and releases, the token
  read after the upsert, `git apply` outside any transaction - `LeaseSafety`
  (`FencingOrder`, `ExclusiveWhenTimely`), `LeaseActions` (`LostStaysLost`,
  `NoForeignRelease`), `AbandonedBecomesFree`.
* **A patch that is in, and a transaction that is not**: crash or lost lease
  after `git apply`, two processes, editors - `TasksAgree`, `OneAgrees`,
  `ReviewedContentOnly`, `LeaseGivenBack`.
* **At-least-once delivery over crashes**: an attempt is counted before it is
  made, its outcome is written by id only - `OutboxSafety`, `AloneSafety`,
  `EndsForGood`.
* **Multi-step delivery without a transaction**: interleaved requests,
  interruptions after an external effect, other people's pushes and merges -
  `DeliveryClaims`, `DeliverySteps`, `Completes`.
* **Overlapping handlers over processes that die** in the application:
  `TurnOwnsItsThread`, `StoreConverges`, `NobodyWaitsInVain`, `TurnIsAsAsked`,
  `DaemonIsAccounted`, `RegistryIsServed`, `RunsAreAccounted`,
  `BegunOnceShownOnce`, `ControlFollowsChoice`, `SubmittedOnce`.
* **Sequences with a failing step, and files written between crashes**:
  `SettingsTakeEffect`, `SupportDataKept`, `NothingHalfDone`,
  `OnlyGovernedRuns`, `SkillsAreAsChosen`, `RegistryIsFollowed`,
  `TurnsGetSafeSkills`, `ChallengeIsKept`, `RouteIsAccounted`, `TimelineIsKept`.
* **Answers that arrive late, for a screen that moved on**:
  `ScreensAreTruthful`, `PromptsRunAsAsked`, `WorkspacesStayApart`,
  `ShellIsTruthful`, `RepliesBelong`, `PullsAsConfirmed`.

## 2. The modules

Every module has one type invariant at most, one action per operation or per
step of an operation, its specification, and its properties at the end, where
a comment says what each part is about. The header comment of a module says
what is one step, what is left out, and what the environment may do.
Definitions whose comment starts with "Mutation:", "Mutant:" or "A bug:" are
deliberately wrong versions of the definition that follows; `PROJECT.json`
pairs each with the property that must notice it, and they are part of no
specification. History variables (what was delivered, crossed, lost, observed)
are marked as such where they are declared; no guard of the code's own steps
reads them.

### MutationLease

State: the `mutation_leases` row of one workspace (rows of different keys never
meet), the position of `apply_patch_locked` in every process, the
`MutationLease` value it owns, whether its renew task runs, and the release
statements that `Drop` spawned and that have not run. Every comparison of the
SQL is between `expires_at` and `unixepoch()`, so the row keeps the seconds left
and there is no clock. `Acquire` is the upsert, `ReadToken` the SELECT after
it; `Renew`/`RenewStops` the renew task; `AssertBefore`, `GitApply`,
`AssertAfter`, `Record` the body of `apply_patch_locked`; `AssertLost` and
`Abandon` its early returns; `Release` the spawned statement; `Crash` and
`Tick` the world. With `Timely = TRUE` a renewal succeeds and is never later
than `LEASE_RENEW_SECONDS`; this is the assumption under which the lease is a
lock, and the properties that need it say so.

### TaskTransactions (composes MutationLease)

State: the repository (HEAD and the content of each path), `tasks`,
`task_proposals`, `changesets`, `patch_applied` events, the request that each
process serves, and the lease's variables. `Lease == INSTANCE MutationLease`:
the steps of `apply_patch_locked` are conjunctions of a lease step and what it
does to the tasks and the repository. `LeaseGivenBack` says that none of its many
ways out - early return, failed step, cut-off request, success - forgets the lease
or lets its renew task run on: a lease that the row names has a running request, or
a release under way, or (history variable `lost`) a request that died or never read
its token. A step ends where another
process or an editor can make a difference: after the snapshot check, after
each lease statement, after `git apply`, after the changeset.

### TaskLifecycle

State: the lifecycle row, its events, the checked-out branch and what the
working tree adds to HEAD, local, remote and default branch heads, the
provider's issues and change requests, the idempotency records, the
`mutation_lock` and the open requests of one process. A request goes through
the stages *loaded*, (*checked*,) (*created*,) *done*, *saved*; a stage ends
where the code awaits something that another request, an interruption or the
outside can get ahead of. `LoadX` stands for the reads and early returns of
operation X, `X` for the locked call, `StoreX` for `idempotency_store`,
`PersistX` for the UPDATE, `RecordEvent` for the event. Returns that change
nothing (a replay that only answers) are left out. A commit is named by what it
adds to its parent, so the reviewed diff and the commit of it have one name.

Abstractions: the fingerprint of a repeated request is the same (a different
one is refused and changes nothing); the checks of checkout, push and change
request are one step with the Git or provider command they guard (only the
commit is split, because editors change files all the time and branches
rarely); the task is begun on a clean default branch; all clients are served
by one process.

### CallbackOutbox (with its limits in CallbackLimits)

State: outbox rows (status, attempts, seconds until due), the enabled flag, the
delivery each worker has in hand, and, as an observer, the set of events the
receiver took. `Start` is `configure_runtime`, `ClaimDue` and `ReadBack` are
`claim_due`, `Attempt` stands for `event_envelope` and `attempt`,
`PersistOutcome` for `persist_outcome`; `StatementFails` is a failing read-back
or UPDATE. The receiver may take an event whose answer is lost or whose worker
dies.

### The application's modules

The twenty modules of the application share one way of describing
JavaScript: a call in flight is a record with the steps it still awaits (a
stack of frames in `DesktopRuntime`, a script `todo` in `PluginHub`,
`McpExtensions`, `HarnessPanel` and `PublicMcp`, a phase elsewhere), and an
action runs one call from an await to the next. What a rejected promise sets
off belongs to the step that rejected it. Daemon, files, child processes, npm,
the provider and ChatGPT are environments that answer, refuse, answer late, or
carry a request out and lose the answer. Text is a model value or a short
sequence of chunks where appending and replacing must be told apart.

## 3. The runs

Each run asks the questions of one group of components. Where several modules,
or several bounds of one module, are asked together, the MC module has an
instance for each over one set of variables, and a variable (`watch`, `alone`,
`timely`) chosen in the initial state says which of them moves; the others are
off. A property names the instances it is about. `MCCodex`, `MCHub` and `MCControl`
extend a module that has a proof (`CodexTransport`, `PluginVerification`,
`ProviderPulls`), so that the runs check the very property of the theorem; its
variables stand at their initial values while another module moves. `MCCodex`
checks the properties of `CodexRuntime`, which has one too, on three instances.

| run | instances | what it shows |
|---|---|---|
| `database` | lease: 2 processes, 3 lease ids, TTL 3, renewal 1; renewals that may be late, and in time. Callbacks: 2 processes, 2 events, failing statements; 1 process, 3 attempts, 3 starts, 1 explicit retry | tokens order the holders, the lease is a lock while renewals are in time, lost stays lost, no late release frees a running request, an abandoned lease becomes free; 'delivered' is true; one process gives up only after its attempts, strands nothing, and every row settles for good |
| `patches` | 2 processes on one file with an editor; the same with timely renewals and no editor; 1 process, 2 files, 2 commits, 2 edits | 'applied' is real and an active task is open; one process keeps task, proposals and events consistent; `git apply` meets the reviewed content; every way out gives the lease back |
| `delivery` | 2 clients, 2 branches, 1 outside change, 1 interruption | the row never claims what did not happen, no head of somebody else is taken for the merge, one issue |
| `delivery_one` | 1 client, 2 outside changes, 2 interruptions, fairness | the phase moves forward, the commit starts on the reviewed diff, the merged head is the pushed commit, the task completes or is in a named dead end |
| `codex` | pool: 2 requests, runs, threads and hosts, 1 warm runtime (4 calls; 3 calls and a fault; 2 calls, 2 faults and 2 open approvals); host: 2 calls, 2 processes, 2 skill configurations | one writer per thread, a registry that converges, answers to who asked, turns as configured |
| `main` | daemon (3 calls of any kind with 1 process; 2 with 3 processes, and 3 commands with 2, each quit included, whoever owns the port; 4 commands with 2), updates, preferences (3 saves; 2 with 3 faults), log (2 and 3 rotations), diagnostics (4 previews or backups), agent turns (agents, prepared turns, workers, begins, the monitor: up to 3 calls, 3 runs) | daemon, registry, updates, log and runs are accounted for |
| `extensions` | manager, screens, skills; policy changes and failing steps | only what is governed and verified is enabled, nothing stays half done, screens are truthful, skills are as chosen |
| `hub` | plugin hub, challenge, public route; overlapping operations, crashes | registry, daemon, credential and tunnel agree at rest; turns get safe skills |
| `conversation` | timeline (2 writes, a legacy file and a fault; 3 records seen by a panel), panel with 2 workspaces, shell (3 refreshes with 2 workspace commands, or with one and a step of the daemon; a fault; setup; 2 changes of screen) | the timeline is kept, prompts run as asked where they were asked, the shell is truthful |
| `control` | desktop control (3 calls; 2 calls with 2 failures), review conversations (agents, loop, both), pull requests | what is done outside the application is what was chosen, asked and confirmed |
| `quit` | the daemon of `main` alone | **violated**: a daemon of the application's own is alive after it quit (section 6) |
| `transport` | 1 host, a crash, a respawn by `configureSkills` | **violated**: a turn is started in a process that never resumed its thread (section 6) |

**Bounds.** Two processes are enough for every race of the lease and of the
tasks, since each is between one holder and one other; three lease ids let a
process acquire, lose the lease to the other and acquire again. TTL 3 with
renewal 1 gives expiry before, at and after a renewal. Three attempts and three
starts reach a failure after a crash in the last attempt, and a delay that
meets its ceiling. Two proposals allow a second one of the same task, and one
applied over the other. In the delivery runs one interruption and one outside
change already hit every gap between two steps. In the application's modules
two overlapping calls are a race, and a third is there where a call that began
earlier must still be under way; a module with two instances gets the longer
histories in one (no faults) and more failing steps in the other. Unbounded
things (UUIDs, events, starts, retries, edits, faults, calls) are capped by
constants named as bounds where they are declared. Symmetry is used only for
names a module treats alike, and only in runs without liveness.

**Deadlock** is not checked: the systems may stop: all
events delivered, all tasks closed, bounds used up.

**Fairness.** `MutationLease`: only time is fair; a request may hang, a process
may die, a release may never run. `CallbackOutbox`: the worker's loop is fair,
since curl runs with `--max-time` and the loop never exits, and time is; nothing
is promised about starts. `TaskLifecycle!FairSpec`: an open request goes on (weak
fairness of its steps), and the client asks again for each operation whenever it
keeps becoming possible (strong fairness of the requests), which is the retry
that `docs/task-lifecycle.md` asks of a client; nothing is promised about
interruptions, except that there are finitely many.

## 4. The proofs

`MutationLeaseProofs` proves, for any processes, lease ids and any TTL greater
than the renewal period, `LeaseSafety` (`TypeOK`, `FencingOrder`,
`ExclusiveWhenTimely`) and `LeaseActions` (`LostStaysLost`, `NoForeignRelease`).
None of them is inductive alone. The invariant `IInv` adds: *Ownership* - a lease
id in the row or in a grant was handed out, and at most one request or pending
release holds it; *TokenOrder* - no grant has a token above the row's, and a
grant with the row's token is the row's; *KeptUp* - with timely renewals the row
of a live holder has more than `TTL - Renewal - 1` seconds left.

`CallbackOutboxProofs` proves `OutboxSafety`: `TypeOK` and `DeliveredIsReal` for
any number of processes and failing statements, and, with `Alone` (one process),
`FailedMeansExhausted`, `AttemptsBounded` and `NoStrandedRow`; `DeliveredForGood`
proves that one process never sends a delivered row again. The invariant ties the
job of the worker to the row: a worker with a job holds a 'delivering' row whose
attempts are those it read, a 'delivered' answer means that the receiver took the
event, and a row nobody holds is not 'delivering' unless a statement failed or the
process is down.

`TaskTransactionsProofs` is about the patch path for any number of processes,
tasks, proposals, files, commits and edits.

* `GivenBack`: `Spec => []LeaseGivenBack`. Lemma `DropGivesBack` says that the end
  of a request puts its grant where a release will find it, `NextGivenBack` goes
  through the actions: which of them end a request, and what each leaves behind. The
  variables of the lease are those of `MutationLease`, so lemma `LeaseMoves` lets its
  inductive invariant (an instance of `MutationLeaseProofs`) be used here and below.
* `Agreement`: `Spec => []TasksAgree`. Two additions make it inductive: *Linked*,
  tasks and proposals of a request exist and belong together, and *Evidence*, a request past
  `git apply` has its proposal among the patched ones, and past its changeset
  among the changesets.
* `ReviewedContent`: `Spec => AppliesReviewedContent`, on an instance the property
  `ReviewedContentOnly`. Between the check of the content and `git apply` lies the
  whole race of two processes; that nobody else writes the file there follows
  from the lease's `Ownership` and `KeptUp`, which make the holder of a timely
  lease the only one in its critical steps (`OneHolder`).
* `OneProcess`: `Spec => []AloneAgrees`, on an instance the property `OneAgrees`.
  With one process what a request read of its task and proposal is still so when
  its transaction is committed.

`TaskLifecycleProofs` is about the delivery of a task for any number of clients,
branches, outside changes and interruptions.

* `ClaimsKept`: `Spec => []DeliveryClaims`. The row and the events alone are not
  inductive, since a request writes what it brought along. *Asked*: the columns
  that let a request in are filled. *Results*: what a request is about to write
  has been seen by the remote or the provider. *Records*: what the idempotency
  records and the provider have. *Locked*: a call that has acted and not returned
  holds the `mutation_lock`, so its record is not there yet. *IssueRecorded*:
  without interruptions an issue is recorded, or about to be, by one request.
  Lemma `NextGrows` says once what no step takes back (a filled column, a
  record, what the remote and the provider have), and `Waits` derives from it
  that requests which take no step keep their part.
* `OneClientDelivers`: with one client `Spec => DeliverySteps`. `ReadHolds` says
  that what an open request read of the row is still so when it writes, and
  `MergeHolds` that a merge request is about the commit the row has as pushed.
  With two clients neither holds (section 6).

`PluginVerificationProofs` (`ChallengeKept`: `Spec => []ChallengeIsKept`) is about
the domain challenge for any number of calls, tokens, failing steps and secrets
of other components. `NoSecretLost` rests on the queue of the secret store:
*Queue* says that only its first mutation has read the file and that nobody wrote
since, and ties each mutation of the challenge to the one call that waits for it.
`VerifiedIsStored` speaks of rest only; *Stages* and *Sure* say what it rests on
while a call is open: the call is alone, a challenge that is being changed is not
called verified, and the token about to be compared is the stored one.

`ProviderPullsProofs` (`PullsKept`: `Spec => []PullsAsConfirmed`) is about the pull
request list for any number of workspaces, refreshes and operations under way.
*Lists*: refreshes are numbered in the order they begin, the latest is under way
while the list loads, and, unless the filter changed during an operation, it and
every operation know the chosen filter. *Links*: a merge without the daemon is
begun only for a pull request that is not linked to a task.

`CodexTransportProofs` (`NobodyWaits`: `Spec => []NobodyWaitsInVain`) is about the
host of the Codex app-server for any number of calls, processes, turns and
faults. `AnswersMatch` and `WaitIsNotInVain` are inductive only together with the
way of a request from its line to its answer. *Connections*: an id is in one place
at a time, on the wire or among the lines that came back, and stays registered for
the one call that waits for it, which waits for nothing else; and the end of a
turn is never before the answer that names the turn. *Life*: only a live process
has an open connection. *Stages*: one turn at a time, and what began has a process
that was spawned. *Turning*: the turn of a call is worked on, or its end is on its
way, or the end came before the answer to `turn/start` and is kept. The lemmas
about one connection (`AnswerTaken`, `NoticeTaken`, `RequestSent`,
`RequestAnswered`, `NoticeSaid`, `Closed`) say what a line does to it; the lemmas
`ProcessStep`, `SendStep`, `EndStep`, `CloseStep` and `RejectStep` lift them to the
whole state, and each action is an instance of one of them. The theorem assumes that the absent
process (`None`, the code's `null`) is not a process.

`TurnsAsAsked` (`Spec => []TurnIsAsAsked`) needs three more invariants. *Skilled*
reads the wire as a log: of the requests that set skill roots before a prompt, the
last one is for the configuration of its call, or there is none and the process has
these roots already; whenever the host counts the roots as applied, or a call is
about to, this holds for what the host wants. *Numbered*: a turn has a number that
no other has, is named by one process only, and by nobody after its end. *Followed*:
in the lines about the turn that a call follows, a completed item comes after the
last delta before the turn ends well, or the text of the host is whole already; once
the call was told, it is. `Lasts` is the shape common to both logs, and `LastsRest`,
`LastsMore` and `LastsGood` say what handling the first entry and adding one do to
it. The number of turns is any natural number.

`CodexRuntimeProofs` is about the pool of runtimes and the store of bindings, for any
number of calls, runs, threads, hosts, warm runtimes, approvals and faults.

* `TurnsOwnThreads`: `Spec => []TurnOwnsItsThread`. Five additions make it
  inductive. *Shapes*: what a call has in hand at each of its stages. *Owned*: a host
  belongs to one run, and one that is being attached is known to its call alone.
  *Busy*: a busy host has exactly one turn at work, and only a second call of a run
  meets it. *Sure*: the turn of a run whose calls never overlapped holds the writer of
  its thread and works on the registered runtime. *Overlaps*: the history
  `overlapped` has every run of which two calls are open. Most actions change the
  pool in one of six ways (`Releases`, `Fresh`, `Enters`, `Stays`, `Reads`, `Begins`),
  one lemma each.
* `StoreKept`: `Spec => []StoreConverges`, over the queue of writes.

Both assume that `null` is no run, thread or host, and that the bounds are natural
numbers.

All these inductive invariants were checked by TLC on the instances of the runs
before they were proved. The only assumptions are the named ones on the constants
(`LeaseAssumption`, `LeaseConstants`, `TaskAssumption`, `LifecycleAssumption`,
`OutboxAssumption`), which the code's own constants satisfy and TLC
evaluates on the runs, and `Alone`, `OneClient`, `None \notin Procs`, `NoneIsNone` and
`Bounds` where a theorem says so.

**Only model-checked**: liveness (`AbandonedBecomesFree`, `Settles` within
`EndsForGood`, `Completes`) and `ENABLED` are out of the prover's reach; so is
induction over data, and with it what the folds and recursive functions of the
application's modules compute. The properties of the application's modules other
than `ChallengeIsKept`, `PullsAsConfirmed`, `NobodyWaitsInVain`, `TurnIsAsAsked`,
`TurnOwnsItsThread` and `StoreConverges` are checked on the instances above.

## 5. Not modelled, and the plan

Not modelled: text (titles, diffs, envelopes, wording, redaction rules), hashing
and signatures, the address policy of callbacks, HTTP routing, metrics, audit
rows, backup of the state database, sandboxing, process plugins. Of the service,
job ingress, the GitHub webhook with `pull_get`, the harness (approvals, jobs,
kernel, tool pipeline) and the MCP gateway have no module. Of the application,
launching native applications, media control, the presentational components,
and `WorkspaceManagerScreen`, `OverviewDashboard` and `RuntimeLogPanel`, which
`App.tsx` does not mount. npx, cloudflared, the provider's command line, ChatGPT
and the receiver of callbacks are environments.

Order of further work:

1. Proofs about the application's modules whose safety does not rest on folds:
   `PublicMcp` and `DesktopControl`.
2. `JobIngress` (reserve, begin under the job's key, link) and `GithubWebhook`
   (dedup, binding by `pull_head_sha`), with `pull_get` added to
   `TaskLifecycle`.
3. `HarnessApproval`: an approval is consumed once, by the request it was given
   for, and not after expiry; `HarnessJob`: claims, cancellation, recovery.

## 6. Observations

**Findings.**

* Run `transport`, property `PromptFindsItsThread`. After an app-server crash,
  `configureSkills` spawns a new process before `ensureAttachedThreadReady` looks;
  the latter then sees a live process and skips `thread/resume`, which the host's
  own test expects before the next turn.
* Run `quit`, property `QuitStopsManagedChild`. `docs/desktop-daemon-lifecycle.md:103`
  promises "application quit -> graceful shutdown of managed child before Electron
  exits". `before-quit` stops the child the manager has by then; a `start()` that
  found no child and is still probing the port spawns its daemon afterwards, and the
  application exits without it (`main.ts:868-897`, `daemon-manager.ts:111-156`).

Places where the models follow the code and a document, a comment or an
expectation says more; the properties are stated so as to be true of the code:

* Two calls of one run (a turn and a resumption, or two turns) that overlap can each
  start a runtime; the second takes the place of the first in the map, and when
  either ends or is evicted the writer of the thread is released although the other
  still works, since `releaseThreadWriter` looks at the run only
  (`codex-runtime-pool.ts:506`; the comment at 106 says "One Harness run maps to one
  Codex thread and at most one warm app-server"). `TurnExclusion` leaves out the runs
  whose calls overlapped.
* A warm host whose process died starts another one for `conversation` and does not
  resume the thread in it; an answer that the thread is not there makes the pool
  discard a binding that is still good (`codex-runtime-pool.ts:259-277`).
* An applied task becomes cancelled. `cancel` of a second process checks the
  status and then runs an UPDATE whose WHERE names the id only
  (`task_transactions.rs:597-605`); an apply that finishes in between is
  overwritten. `OneAgrees` is therefore about one process.
* `git apply` may run although the repository drifted after the snapshot check:
  `validate_patch` looks at HEAD and the patched files only
  (`docs/production-operations.md:40` says more). `ReviewedContentOnly` speaks of the patched
  file.
* A callback may be attempted more than five times, once more per restart, since
  recovery puts a row with an attempt under way back to pending
  (`callback.rs:366`; `docs/outbound-callbacks.md:129`).
* With two clients the delivery phase can go backwards: each writes the phase
  that follows what it read (`task_lifecycle.rs:269`), and a late push request may
  write another commit over the one that was merged. `DeliverySteps` is stated for
  one; `DeliveryClaims` is what any number of them keep.
* The recovery of `commit` takes any clean HEAD whose first parent is the base,
  whatever its content (`docs/task-lifecycle.md:83`).
* The output of a file change is appended while it streams and replaced when the
  log is replayed, so a rebuilt activity can differ from the one that was shown
  (`conversation-activity-store.ts:565-572` and `603-609`, against the comment at
  89-92). `TimelineIsKept` leaves out file changes here.
* Store and panel cut a long text at different lengths, 160,000 and 120,000
  characters (`conversation-activity-store.ts:894-897`, `CodexChatPanel.tsx:3484`),
  and the panel cuts only what it appends to; a reply between the two is shown in
  full or not, depending on the last hydration. `TimelineIsKept` compares a text only
  up to the panel's length.
* When the restoration after a failed evidence write fails too, evidence of
  another version than the running one can remain
  (`docs/mcp-artifact-verification.md:62`).
* The close event of an old portal helper resets the child of the bridge even if
  a new helper has been started, so two can be alive
  (`desktop-control-wayland-portal.ts:202-208`, comment at 46-50).
* The broker changes the tunnel's secret before the Desktop has stored the new
  one; a crash in between leaves the old credential, which no longer works, until
  the route is repaired (`docs/desktop-updates.md:69` says that the old one is
  revoked only afterwards).
* An operation that asks the provider's client while the account is being removed
  enters the account again (`requireConnected`, `provider-manager.ts:236-255`).

### What the properties leave out

Many properties are about every behaviour but those in which the code does what one
would not wish; a history variable, or a condition of the property, names them. The
comment of a property states its exceptions; a hazard whose own case is among them
says so in its note.

* `DaemonIsAccounted` (`procs[p].met`: what was under way when a process was
  spawned). `NoStrayDaemon` leaves out a process spawned beside another `start()`
  that was past its check: one replaces the other as the child.
  `QuitLeavesNoDaemon` leaves out, process by process, one that was spawned beside
  another start, an attach, the stop of an older process or the quit (the run `quit`
  shows that case), one that survived SIGKILL, and the daemon of a bootstrap that
  failed, whose manager `main.ts` drops. `CleanExitIsRemembered` is about a quit at
  rest during which nothing else runs: a handler that changes the daemon's state in
  between writes the marker again (`main.ts:200-222`).
* `RegistryIsServed`: an import that failed is compensated from its backup; if the
  registry was changed meanwhile, that change is overwritten
  (`migration-manager.ts:408-425`). `FailedImportIsUndone` is about an import that
  was alone and no later change, and one into a state directory that existed.
* `RunsAreAccounted`: `ActiveIsTheAgent` is about runs that are running. A second
  cancel deletes the entry of the agent that is active by then
  (`task-manager.ts:492`); the run is not running any more.
* `BegunOnceShownOnce` (`dropped`, `crossed`): a begin that is repeated after its key
  was evicted, deleted or forgotten begins a second task (`task-manager.ts:1028`); of
  two that are remembered at once the slower one wins.
* `NobodyWaitsInVain`: `WaitIsNotInVain` is about connections that are open. A
  malformed line, or a call that gives up a process it could not initialize, ends the
  connection, and nobody rejects the turn that waits on it (`codex-jsonrpc.ts:195`).
* `NothingHalfDone` (`leaky`): a clean-up or compensation step that fails, or that
  the policy refuses, is swallowed, and an extension that is not registered keeps a
  secret, a backup or evidence (`mcp-extension-manager.ts:634`).
* `ScreensAreTruthful` (`disturbed`): what a screen shows is checked for operations
  that succeeded one after the other. Answers to refreshes are not numbered, so the
  older one may stay (`McpExtensionsScreen.tsx:73`). What is typed is checked always.
* `SkillsAreAsChosen` (`mixed`): two turns that install or import one name at the
  same time, from two sources, may take over each other's content
  (`npm-skills-manager.ts:164`).
* `RegistryIsFollowed` (`raced`, `unremoved`, `lost`, `unapplied`): two operations
  that overlap write a registry each of them read before (`plugin-manager.ts:288`);
  a removal that fails after the skills are gone restores a plugin without skills
  (`plugin-manager.ts:426-469`); a roll-back may fail too; and a policy that was
  stored is not in effect if what follows fails. The check is made at rest, after
  behaviours without these.
* `TurnsGetSafeSkills` (`restaged`, `raced`): a package that the marketplace changes
  between judgement and installation is installed unjudged (`plugin-manager.ts:777`),
  and a selected skill may be gone when other operations run before the activation.
  One candidate is considered per pass, the code goes on until two are installed.
* `ChallengeIsKept` (`unsure`): an operation beside a verification, or one that
  failed half-way, leaves the verdict in doubt until the next check that is alone
  (`plugin-verification-manager.ts:203`). `NoSecretLost` has no exception.
* `WorkspacesStayApart` (`mixed`): a handler that was begun before the user switched
  the workspace writes its messages and thread into the panel of the other one
  (`CodexChatPanel.tsx:2004`). `ThreadStaysInWorkspace` has no exception.
* `ControlFollowsChoice` (`overlap`, `missed`, `dropped`, `again`). The portal clears
  its restore token before the stored one is deleted
  (`desktop-control-wayland-portal.ts:92-96`): if the store refuses, the bridge puts
  the permissions back, the next switch-off returns early, and the stored grant
  survives with input off. An update whose session was granted, and whose token could
  not be stored or whose answer came too late, is undone with the session alive. A
  failing write of the preferences leaves the bridge with the new choice and the file
  with the old one (`ipc.ts:255-256`, `main.ts:798`). A failed update beside a newer
  one restores the older choice (`desktop-control-bridge.ts:166-169`), and a tool
  beside an update may be given a session after input was switched off. A launch
  that gets the port of one that crashed, while the daemon runs on, keeps that one's
  credential, which it does not accept (`desktop-control-mcp-server.ts:328`).
* `SubmittedOnce` (`resent`): a command is delivered again after 15 s although its tab
  may have carried it out, and the fallback to the window submits it too
  (`chrome-extension-bridge.ts:241`). The instances have one tab.
* `RepliesBelong` (`disturbed`): the reply a driver returns is checked unless another
  runner used its page or its conversation while it submitted or waited. That a loop
  acts on its own reply only has no exception.
* `PullsAsConfirmed` (`stale`): a load asked for by an operation keeps the filter of
  its beginning (`ProviderPullBrowser.tsx:126`); a list after a change of filter
  during an operation is left out.
* Elsewhere: a check beside a download or an installation (`crossed`), commands or an
  import that overlapped and the selected workspace (`overlapped`), two backups at
  once or one that could not be stored (`unsure`), operations on the public route
  that overlapped or that the broker did by half (`crossed`, `half`).
* `AloneSafety`, `OneAgrees` and `DeliverySteps` are about one process or one client.
  With two, a late outcome overwrites a callback's row by id, so that its status and
  attempts go back (`callback.rs:366`, `480`); the others are described above.
* A request that is cut off leaves its `git apply` running (`git.rs:257-278`): the
  model ends the command with the request, so `ReviewedContentOnly` says nothing of a
  command that outlives it.
