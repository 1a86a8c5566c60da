--------------------------- MODULE CallbackOutbox ---------------------------
(***************************************************************************)
(* The durable callback outbox of src/src/callback.rs and of the triggers  *)
(* in migrations 0010 and 0024.                                            *)
(*                                                                         *)
(* A source event (a row of task_events, job_events or                     *)
(* github_webhook_deliveries) reserves an outbox row in its own            *)
(* transaction.  One worker per process claims due rows in id order, posts *)
(* them with curl and writes the outcome back.  Nothing but the row        *)
(* survives a crash; at startup every 'delivering' row is made 'pending'.  *)
(*                                                                         *)
(* Time.  next_attempt_at is only compared with unixepoch(), so a row      *)
(* keeps the seconds until it is due.                                      *)
(***************************************************************************)
EXTENDS CallbackLimits

CONSTANT
    Instances   \* service processes on the state database

\* Source events, numbered by the ids their outbox rows get.
Events == 1..NumEvents

VARIABLES
    outbox,    \* callback_outbox
    enabled,   \* callback_runtime_state.enabled
    emitted,   \* source events so far
    proc,      \* "down", or up with callbacks "on" or "off"
    job,       \* the delivery each worker has in hand
    accepted,  \* events the receiver took, whatever the worker saw of it
    starts,    \* process starts so far
    retries    \* explicit retries so far

vars == <<outbox, enabled, emitted, proc, job, accepted, starts, retries>>

Statuses == {"none", "pending", "delivering", "delivered", "failed"}

(***************************************************************************)
(* A worker's stages: "idle"; "claimed": the claim is committed, the row   *)
(* not read back; "loaded": the row is read, the request is being made;    *)
(* "answered": the outcome is known and not written.                       *)
(***************************************************************************)
Stages == {"idle", "claimed", "loaded", "answered"}

Answers == {"none", "delivered", "retryable"}

Rows == [status : Statuses, attempts : Nat, wait : 0..MaxDelay]
Jobs == [stage : Stages, event : Nat, attempts : Nat, answer : Answers]

Idle == [stage |-> "idle", event |-> 0, attempts |-> 0, answer |-> "none"]

Holding(e) == [stage |-> "claimed", event |-> e, attempts |-> 0, answer |-> "none"]

TypeOK ==
    /\ outbox \in [Events -> Rows]
    /\ enabled \in {"on", "off"}
    /\ emitted \in 0..NumEvents
    /\ proc \in [Instances -> {"down", "off", "on"}]
    /\ job \in [Instances -> Jobs]
    /\ \A i \in Instances : job[i].stage # "idle" => job[i].event \in Events
    /\ accepted \in SUBSET Events
    /\ starts \in Nat
    /\ retries \in Nat

Init ==
    /\ outbox = [e \in Events |-> [status |-> "none", attempts |-> 0, wait |-> 0]]
    /\ enabled = "off"
    /\ emitted = 0
    /\ proc = [i \in Instances |-> "down"]
    /\ job = [i \in Instances |-> Idle]
    /\ accepted = {}
    /\ starts = 0
    /\ retries = 0

(***************************************************************************)
(* A source event commits.  The trigger reserves a row if the runtime      *)
(* state says enabled; an event of a disabled deployment never gets one.   *)
(***************************************************************************)
SourceEvent ==
    /\ \E i \in Instances : proc[i] # "down"
    /\ emitted < NumEvents
    /\ emitted' = emitted + 1
    /\ outbox' = IF enabled = "on"
                 THEN [outbox EXCEPT ![emitted + 1].status = "pending"]
                 ELSE outbox
    /\ UNCHANGED <<enabled, proc, job, accepted, starts, retries>>

\* A claimed row made due again, its attempts kept.
Requeue(r) == [status |-> "pending", attempts |-> r.attempts, wait |-> 0]

(***************************************************************************)
(* A process starts: configure_runtime, in one transaction and before the  *)
(* listener is bound, then run_worker if callbacks are configured.         *)
(***************************************************************************)
Start(i, setting) ==
    /\ proc[i] = "down"
    /\ starts < MaxStarts
    /\ starts' = starts + 1
    /\ outbox' = [e \in Events |->
                    IF outbox[e].status = "delivering"
                    THEN Requeue(outbox[e])
                    ELSE outbox[e]]
    /\ enabled' = setting
    /\ proc' = [proc EXCEPT ![i] = setting]
    /\ UNCHANGED <<emitted, job, accepted, retries>>

Due(e) == outbox[e].status = "pending" /\ outbox[e].wait = 0

Claimed(r) == [status |-> "delivering", attempts |-> r.attempts + 1, wait |-> r.wait]

\* Mutation: the claim does not count the attempt.
ClaimUncounted(i) ==
    /\ proc[i] = "on"
    /\ job[i].stage = "idle"
    /\ \E e \in Events :
          /\ Due(e)
          /\ \A f \in Events : Due(f) => e <= f
          /\ outbox' = [outbox EXCEPT ![e].status = "delivering"]
          /\ job' = [job EXCEPT ![i] = Holding(e)]
    /\ UNCHANGED <<enabled, emitted, proc, accepted, starts, retries>>

(***************************************************************************)
(* claim_due: one transaction takes the first due row; a second statement, *)
(* outside it, reads the row back.                                         *)
(***************************************************************************)
ClaimDue(i) ==
    /\ proc[i] = "on"
    /\ job[i].stage = "idle"
    /\ \E e \in Events :
          /\ Due(e)
          /\ \A f \in Events : Due(f) => e <= f
          /\ outbox' = [outbox EXCEPT ![e] = Claimed(@)]
          /\ job' = [job EXCEPT ![i] = Holding(e)]
    /\ UNCHANGED <<enabled, emitted, proc, accepted, starts, retries>>

ReadBack(i) ==
    /\ job[i].stage = "claimed"
    /\ job' = [job EXCEPT ![i].stage = "loaded",
                          ![i].attempts = outbox[job[i].event].attempts]
    /\ UNCHANGED <<outbox, enabled, emitted, proc, accepted, starts, retries>>

\* Mutation: a request whose answer is lost counts as delivered.
AttemptTrusting(i) ==
    /\ job[i].stage = "loaded"
    /\ job' = [job EXCEPT ![i].stage = "answered", ![i].answer = "delivered"]
    /\ accepted' \in {accepted, accepted \cup {job[i].event}}
    /\ UNCHANGED <<outbox, enabled, emitted, proc, starts, retries>>

(***************************************************************************)
(* event_envelope and attempt.  A 2xx answer is a delivery; a failure to   *)
(* build the envelope, to resolve, connect or read, and any other status   *)
(* is Retryable, and then the receiver may have taken the event or not.    *)
(***************************************************************************)
Attempt(i) ==
    /\ job[i].stage = "loaded"
    /\ \E answer \in {"delivered", "retryable"} :
          /\ job' = [job EXCEPT ![i].stage = "answered", ![i].answer = answer]
          /\ \/ accepted' = accepted \cup {job[i].event}
             \/ answer = "retryable" /\ accepted' = accepted
    /\ UNCHANGED <<outbox, enabled, emitted, proc, starts, retries>>

\* retry_delay: exponential in the attempts, the exponent clamped to 0..8.
Powers == <<1, 2, 4, 8, 16, 32, 64, 128, 256>>

RetryDelay(n) ==
    LET exponent == IF n <= 1 THEN 0 ELSE IF n - 1 > 8 THEN 8 ELSE n - 1
        delay    == BaseDelay * Powers[exponent + 1]
    IN  IF delay < MaxDelay THEN delay ELSE MaxDelay

\* Mutation: the last attempt is off by one.
OutcomeTooEarly(j, r) ==
    IF j.answer = "delivered" THEN [r EXCEPT !.status = "delivered"]
    ELSE IF j.attempts >= MaxAttempts - 1 THEN [r EXCEPT !.status = "failed"]
    ELSE [r EXCEPT !.status = "pending", !.wait = RetryDelay(j.attempts)]

\* persist_outcome on row r: it decides from the attempts of the row the
\* worker read, and its WHERE names the id only.
Outcome(j, r) ==
    IF j.answer = "delivered" THEN [r EXCEPT !.status = "delivered"]
    ELSE IF j.attempts >= MaxAttempts THEN [r EXCEPT !.status = "failed"]
    ELSE [r EXCEPT !.status = "pending", !.wait = RetryDelay(j.attempts)]

PersistOutcome(i) ==
    /\ job[i].stage = "answered"
    /\ outbox' = [outbox EXCEPT ![job[i].event] = Outcome(job[i], @)]
    /\ job' = [job EXCEPT ![i] = Idle]
    /\ UNCHANGED <<enabled, emitted, proc, accepted, starts, retries>>

\* The read-back or the final UPDATE fails: the worker logs it and goes on,
\* and the row stays 'delivering'.
StatementFails(i) ==
    /\ DbErrors
    /\ job[i].stage \in {"claimed", "answered"}
    /\ job' = [job EXCEPT ![i] = Idle]
    /\ UNCHANGED <<outbox, enabled, emitted, proc, accepted, starts, retries>>

\* retry_failed, whose route is mounted while callbacks are configured.
RetryFailed(e) ==
    /\ \E i \in Instances : proc[i] = "on"
    /\ retries < MaxRetries
    /\ retries' = retries + 1
    /\ outbox[e].status = "failed"
    /\ outbox' = [outbox EXCEPT ![e] = [status |-> "pending", attempts |-> 0, wait |-> 0]]
    /\ UNCHANGED <<enabled, emitted, proc, job, accepted, starts>>

\* A process dies.  The request its curl child was making may still arrive.
Crash(i) ==
    /\ proc[i] # "down"
    /\ proc' = [proc EXCEPT ![i] = "down"]
    /\ job' = [job EXCEPT ![i] = Idle]
    /\ \/ accepted' = accepted
       \/ job[i].stage = "loaded" /\ accepted' = accepted \cup {job[i].event}
    /\ UNCHANGED <<outbox, enabled, emitted, starts, retries>>

\* One second passes.
Sooner(r) == IF r.wait = 0 THEN r ELSE [r EXCEPT !.wait = @ - 1]

Tick ==
    /\ \E e \in Events : outbox[e].wait > 0
    /\ outbox' = [e \in Events |-> Sooner(outbox[e])]
    /\ UNCHANGED <<enabled, emitted, proc, job, accepted, starts, retries>>

Work(i) == ClaimDue(i) \/ ReadBack(i) \/ Attempt(i) \/ PersistOutcome(i)

Next ==
    \/ SourceEvent
    \/ \E i \in Instances :
          \/ \E setting \in Configured : Start(i, setting)
          \/ Work(i)
          \/ StatementFails(i)
          \/ Crash(i)
    \/ \E e \in Events : RetryFailed(e)
    \/ Tick

(***************************************************************************)
(* The worker's loop never blocks for good (curl runs with --max-time) and *)
(* time passes.  Nothing is promised about starts, crashes, events.        *)
(***************************************************************************)
Spec == /\ Init /\ [][Next]_vars
        /\ \A i \in Instances : WF_vars(Work(i))
        /\ WF_vars(Tick)

-----------------------------------------------------------------------------
(***************************************************************************)
(* Properties.                                                             *)
(***************************************************************************)

\* A row is 'delivered' only if the receiver took the event, however crashes,
\* restarts, lost answers and a second process interleave.
DeliveredIsReal ==
    \A e \in Events : outbox[e].status = "delivered" => e \in accepted

\* A delivered row is never sent again: the status is final.  (One process.)
DeliveredStays ==
    \A e \in Events : outbox[e].status = "delivered" => outbox'[e].status = "delivered"
DeliveredIsFinal == [][DeliveredStays]_vars

\* The worker gives up on a row only after MAX_ATTEMPTS claims since the row
\* was reserved or explicitly retried.  (One process.)
FailedMeansExhausted ==
    \A e \in Events : outbox[e].status = "failed" => outbox[e].attempts >= MaxAttempts

\* A row is never tried more than MAX_ATTEMPTS times, plus once for every
\* restart: an interrupted attempt is counted but not charged to the limit.
AttemptsBounded ==
    \A e \in Events : outbox[e].attempts > 0
                         => outbox[e].attempts < MaxAttempts + starts

\* While the worker runs, a row that is 'delivering' is the one it has in
\* hand, unless a statement failed; no row is stranded by a crash.  (One
\* process.)
NoStrandedRow ==
    ~DbErrors => \A e \in Events, i \in Instances :
        outbox[e].status = "delivering" /\ proc[i] # "down"
            => job[i].stage # "idle" /\ job[i].event = e

\* Every reserved delivery settles, delivered or failed, once some process
\* with callbacks configured stays up.
Settles ==
    <>[](\E i \in Instances : proc[i] = "on")
       => \A e \in Events :
             outbox[e].status \in {"pending", "delivering"}
                ~> outbox[e].status \in {"delivered", "failed"}

\* The documented deployment: one process on the state database.
Alone == \A i, j \in Instances : i = j

\* One process gives up, repeats and strands no delivery without cause
\* (claim_due, persist_outcome, configure_runtime).
OutboxAlone == FailedMeansExhausted /\ AttemptsBounded /\ NoStrandedRow

\* What the outbox promises in every state: no delivery is claimed that did not
\* happen, however many processes share it, and OutboxAlone for one process.
OutboxSafety == TypeOK /\ DeliveredIsReal /\ (Alone => OutboxAlone)
=============================================================================
