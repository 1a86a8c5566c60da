----------------------------- MODULE MCDatabase -----------------------------
(* What service processes share through the state database.  The lease: two  *)
(* processes, and lease ids enough for a takeover of a takeover; the same    *)
(* with renewals in time.  The callback outbox, with its own variables: two  *)
(* processes whose statements may fail; and the documented deployment, one   *)
(* process over its crashes and restarts.                                    *)
EXTENDS MutationLease, CallbackLimits

CONSTANTS p, q

VARIABLE watch   \* which of them; the variables of the others keep their first values
VARIABLES
    callbackOutbox, callbackEnabled, callbackEmitted, callbackProc, callbackJob,
    callbackAccepted, callbackStarts, callbackRetries

callbackVars ==
    <<callbackOutbox, callbackEnabled, callbackEmitted, callbackProc, callbackJob,
      callbackAccepted, callbackStarts, callbackRetries>>

TwoProcesses == {p, q}

InTime == INSTANCE MutationLease WITH Timely <- TRUE

Shared == INSTANCE CallbackOutbox WITH
    outbox <- callbackOutbox, enabled <- callbackEnabled, emitted <- callbackEmitted,
    proc <- callbackProc, job <- callbackJob, accepted <- callbackAccepted,
    starts <- callbackStarts, retries <- callbackRetries

\* The other process never starts.
One == INSTANCE CallbackOutbox WITH
    Instances <- {p}, MaxAttempts <- 3, MaxRetries <- 1, DbErrors <- FALSE,
    outbox <- callbackOutbox, enabled <- callbackEnabled, emitted <- callbackEmitted,
    proc <- callbackProc, job <- callbackJob, accepted <- callbackAccepted,
    starts <- callbackStarts, retries <- callbackRetries

MCInit ==
    /\ watch \in {"lease", "timely", "shared", "one"}
    /\ Init /\ Shared!Init

LeaseSteps ==
    /\ \/ watch = "lease" /\ Next
       \/ watch = "timely" /\ InTime!Next
    /\ UNCHANGED <<watch, callbackVars>>
CallbackSteps ==
    /\ \/ watch = "shared" /\ Shared!Next
       \/ watch = "one" /\ One!Next
    /\ UNCHANGED <<watch, vars>>

allVars == <<watch, vars, callbackVars>>

\* Of the lease time passes; of the outbox, one process works and time passes.
LeaseTick ==
    /\ \/ watch = "lease" /\ Tick
       \/ watch = "timely" /\ InTime!Tick
    /\ UNCHANGED <<watch, callbackVars>>
CallbackWork == watch = "one" /\ One!Work(p) /\ UNCHANGED <<watch, vars>>
CallbackTick == watch = "one" /\ One!Tick /\ UNCHANGED <<watch, vars>>

MCSpec ==
    /\ MCInit /\ [][LeaseSteps \/ CallbackSteps]_allVars
    /\ WF_allVars(LeaseTick)
    /\ WF_allVars(CallbackWork) /\ WF_allVars(CallbackTick)

\* While renewals keep up, the holder of the lease is alone from its first fence
\* assertion to its return (ExclusiveWhenTimely), and all the rest holds too.
TimelyLeaseSafety == watch = "timely" => InTime!LeaseSafety

\* 'delivered' is never claimed of an event that the receiver did not take,
\* whatever two processes and failing statements do (callback.rs).
OutboxSafety == Shared!OutboxSafety

\* One process gives up, repeats and strands no delivery without cause.
AloneSafety == watch = "one" => One!OutboxAlone

\* A delivery of one process ends for good: the row settles, and a delivered one
\* is never sent again.
EndsForGood ==
    /\ [][watch = "one" => One!DeliveredStays]_callbackVars
    /\ watch = "one" => One!Settles
=============================================================================
