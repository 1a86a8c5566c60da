--------------------------- MODULE CallbackLimits ---------------------------
(* The limits of src/src/callback.rs, and the bounds of a run of the outbox. *)
EXTENDS Naturals

CONSTANTS
    NumEvents,    \* bound: source events of a run
    MaxAttempts,  \* MAX_ATTEMPTS
    BaseDelay,    \* BASE_DELAY_SECONDS
    MaxDelay,     \* MAX_DELAY_SECONDS
    Configured,   \* settings a start may meet: callbacks "on" or "off"
    MaxStarts,    \* bound: process starts
    MaxRetries,   \* bound: explicit retries
    DbErrors      \* TRUE: a worker's statement may fail

ASSUME OutboxAssumption ==
    /\ NumEvents \in Nat
    /\ MaxAttempts \in Nat \ {0}
    /\ BaseDelay \in Nat
    /\ MaxDelay \in Nat
    /\ Configured \subseteq {"on", "off"}
    /\ MaxStarts \in Nat
    /\ MaxRetries \in Nat
    /\ DbErrors \in BOOLEAN
=============================================================================
