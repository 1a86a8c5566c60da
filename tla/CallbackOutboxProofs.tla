------------------------ MODULE CallbackOutboxProofs ------------------------
(***************************************************************************)
(* Proofs about CallbackOutbox, for any number of events and any limits.   *)
(*                                                                         *)
(* RealInv is inductive for any number of processes.  The other properties *)
(* need a single process: then nobody else writes the row a worker has in  *)
(* hand (InHand), which is what AloneInv says.                             *)
(***************************************************************************)
EXTENDS CallbackOutbox, TLAPS

\* A worker that saw a 2xx answer has a receiver that took the event.
AnswerIsReal ==
    \A i \in Instances : job[i].stage = "answered" /\ job[i].answer = "delivered" => job[i].event \in accepted

RealInv == TypeOK /\ DeliveredIsReal /\ AnswerIsReal

\* Only a process with callbacks on has work; its row is 'delivering' and the
\* attempts it read are the row's.
InHand ==
    \A i \in Instances :
        /\ job[i].stage # "idle" => proc[i] = "on" /\ outbox[job[i].event].status = "delivering"
        /\ job[i].stage \in {"loaded", "answered"}
              => job[i].attempts = outbox[job[i].event].attempts

\* Events without a row: the ones to come, and those of a disabled deployment.
NoRowYet ==
    \A e \in Events : /\ e > emitted => outbox[e].status = "none"
                      /\ outbox[e].status = "none" => outbox[e].attempts = 0

\* A pending row has an attempt left, counting one for every start.
AttemptsLeft ==
    /\ \A i \in Instances : proc[i] # "down" => starts > 0
    /\ \A e \in Events :
          /\ outbox[e].status = "pending" => outbox[e].attempts + 1 < MaxAttempts + starts
          /\ outbox[e].status # "none" => outbox[e].attempts < MaxAttempts + starts

AloneInv ==
    /\ TypeOK
    /\ InHand
    /\ NoRowYet
    /\ AttemptsLeft
    /\ FailedMeansExhausted
    /\ NoStrandedRow

-----------------------------------------------------------------------------
(***************************************************************************)
(* Operators.                                                              *)
(***************************************************************************)

\* The back-off of a retry stays within MAX_DELAY_SECONDS.
LEMMA RetryDelayType == \A n \in Nat : RetryDelay(n) \in 0..MaxDelay
<1> SUFFICES ASSUME NEW n \in Nat PROVE RetryDelay(n) \in 0..MaxDelay
  OBVIOUS
<1> DEFINE exponent == IF n <= 1 THEN 0 ELSE IF n - 1 > 8 THEN 8 ELSE n - 1
<1>1. exponent \in 0..8
  OBVIOUS
<1>2. Powers[exponent + 1] \in Nat
  BY <1>1 DEF Powers
<1> DEFINE delay == BaseDelay * Powers[exponent + 1]
<1>3. delay \in Nat
  BY <1>2, OutboxAssumption
<1>4. RetryDelay(n) = IF delay < MaxDelay THEN delay ELSE MaxDelay
  BY DEF RetryDelay
<1> HIDE DEF delay
<1>5. QED
  BY <1>3, <1>4, OutboxAssumption

\* persist_outcome turns a row into a row, and what it decides.
LEMMA OutcomeRow ==
    ASSUME NEW j \in Jobs, NEW r \in Rows
    PROVE  /\ Outcome(j, r) \in Rows
           /\ Outcome(j, r).attempts = r.attempts
           /\ Outcome(j, r).status = IF j.answer = "delivered" THEN "delivered"
                                     ELSE IF j.attempts >= MaxAttempts THEN "failed"
                                     ELSE "pending"
<1>1. j.attempts \in Nat
  BY DEF Jobs
<1>2. RetryDelay(j.attempts) \in 0..MaxDelay
  BY <1>1, RetryDelayType
<1>3. QED
  BY <1>2 DEF Outcome, Rows, Statuses

-----------------------------------------------------------------------------
(***************************************************************************)
(* Types.                                                                  *)
(***************************************************************************)

\* Every initial state is well typed.
LEMMA InitType == Init => TypeOK
  BY OutboxAssumption DEF Init, TypeOK, Rows, Jobs, Idle, Statuses, Stages, Answers, Events

\* Every step keeps the types.
LEMMA NextType == TypeOK /\ [Next]_vars => TypeOK'
<1> SUFFICES ASSUME TypeOK, [Next]_vars PROVE TypeOK'
  OBVIOUS
<1> USE OutboxAssumption
<1> USE DEF TypeOK, Rows, Jobs, Statuses, Stages, Answers
<1>1. CASE SourceEvent
  <2>1. emitted + 1 \in Events
    BY <1>1 DEF SourceEvent, Events
  <2>2. [outbox[emitted + 1] EXCEPT !.status = "pending"] \in Rows
    BY <2>1
  <2>3. outbox' \in [Events -> Rows]
    BY <1>1, <2>1, <2>2 DEF SourceEvent
  <2>4. emitted' \in 0..NumEvents
    BY <1>1 DEF SourceEvent
  <2>5. QED
    BY <1>1, <2>3, <2>4 DEF SourceEvent
<1>2. ASSUME NEW i \in Instances, NEW s \in Configured, Start(i, s) PROVE TypeOK'
  <2>1. s \in {"on", "off"}
    OBVIOUS
  <2>2. ASSUME NEW e \in Events PROVE Requeue(outbox[e]) \in Rows
    BY DEF Requeue
  <2>3. outbox' \in [Events -> Rows]
    BY <1>2, <2>2 DEF Start
  <2>4. enabled' \in {"on", "off"} /\ starts' \in Nat
    BY <1>2, <2>1 DEF Start
  <2>5. proc' \in [Instances -> {"down", "off", "on"}]
    BY <1>2, <2>1 DEF Start
  <2>6. QED
    BY <1>2, <2>3, <2>4, <2>5 DEF Start
<1>3. ASSUME NEW i \in Instances, ClaimDue(i) PROVE TypeOK'
  <2>1. PICK e \in Events :
           /\ outbox' = [outbox EXCEPT ![e] = Claimed(outbox[e])]
           /\ job' = [job EXCEPT ![i] = Holding(e)]
    BY <1>3 DEF ClaimDue
  <2>2. Claimed(outbox[e]) \in Rows
    BY DEF Claimed
  <2>3. outbox' \in [Events -> Rows]
    BY <2>1, <2>2
  <2>4. e \in Nat
    BY DEF Events
  <2>5. /\ job' \in [Instances -> Jobs]
        /\ \A k \in Instances : job'[k].stage # "idle" => job'[k].event \in Events
    BY <2>1, <2>4 DEF Holding
  <2>6. QED
    BY <1>3, <2>3, <2>5 DEF ClaimDue
<1>4. ASSUME NEW i \in Instances, ReadBack(i) PROVE TypeOK'
  BY <1>4, ZenonT(30) DEF ReadBack
<1>5. ASSUME NEW i \in Instances, Attempt(i) PROVE TypeOK'
  <2>1. PICK a \in {"delivered", "retryable"} :
           job' = [job EXCEPT ![i].stage = "answered", ![i].answer = a]
    BY <1>5 DEF Attempt
  <2>2. ASSUME NEW k \in Instances
        PROVE  job'[k] \in Jobs /\ job'[k].event = job[k].event
    BY <2>1, ZenonT(30)
  <2>3. accepted' \in SUBSET Events
    BY <1>5 DEF Attempt
  <2>4. job' \in [Instances -> Jobs]
    BY <2>1, <2>2
  <2>5. \A k \in Instances : job'[k].stage # "idle" => job'[k].event \in Events
    BY <1>5, <2>1, <2>2 DEF Attempt
  <2>6. QED
    BY <1>5, <2>3, <2>4, <2>5 DEF Attempt
<1>6. ASSUME NEW i \in Instances, PersistOutcome(i) PROVE TypeOK'
  <2>1. job[i].event \in Events /\ job[i] \in Jobs /\ outbox[job[i].event] \in Rows
    BY <1>6 DEF PersistOutcome
  <2>2. Outcome(job[i], outbox[job[i].event]) \in Rows
    BY <2>1, OutcomeRow
  <2>3. outbox' \in [Events -> Rows]
    BY <1>6, <2>1, <2>2 DEF PersistOutcome
  <2>4. QED
    BY <1>6, <2>3 DEF PersistOutcome, Idle
<1>7. ASSUME NEW i \in Instances, StatementFails(i) PROVE TypeOK'
  BY <1>7 DEF StatementFails, Idle
<1>8. ASSUME NEW i \in Instances, Crash(i) PROVE TypeOK'
  BY <1>8 DEF Crash, Idle
<1>9. ASSUME NEW e \in Events, RetryFailed(e) PROVE TypeOK'
  BY <1>9 DEF RetryFailed
<1>10. CASE Tick
  <2>1. ASSUME NEW e \in Events
        PROVE  Sooner(outbox[e]) \in Rows
    <3>1. outbox[e] \in Rows /\ outbox[e].wait \in 0..MaxDelay
      OBVIOUS
    <3>2. CASE outbox[e].wait = 0
      BY <3>1, <3>2 DEF Sooner
    <3>3. CASE outbox[e].wait # 0
      <4>1. outbox[e].wait - 1 \in 0..MaxDelay
        BY <3>1, <3>3
      <4>2. QED
        BY <3>1, <3>3, <4>1 DEF Sooner
    <3>4. QED
      BY <3>2, <3>3
  <2>2. outbox' \in [Events -> Rows]
    BY <1>10, <2>1 DEF Tick
  <2>3. QED
    BY <1>10, <2>2 DEF Tick
<1>11. CASE UNCHANGED vars
  BY <1>11 DEF vars
<1>12. QED
  BY <1>1, <1>2, <1>3, <1>4, <1>5, <1>6, <1>7, <1>8, <1>9, <1>10, <1>11 DEF Next, Work

-----------------------------------------------------------------------------
(***************************************************************************)
(* Any number of processes.                                                *)
(***************************************************************************)

\* RealInv is inductive.
LEMMA NextReal == RealInv /\ [Next]_vars => RealInv'
<1> SUFFICES ASSUME RealInv, [Next]_vars PROVE RealInv'
  OBVIOUS
<1>t. TypeOK /\ TypeOK'
  BY NextType DEF RealInv
<1> SUFFICES (DeliveredIsReal /\ AnswerIsReal)'
  BY <1>t DEF RealInv
<1> USE OutboxAssumption, <1>t
<1> USE DEF RealInv, TypeOK, DeliveredIsReal, AnswerIsReal, Rows, Jobs
<1>1. CASE SourceEvent
  BY <1>1 DEF SourceEvent, Events
<1>2. ASSUME NEW i \in Instances, NEW s \in Configured, Start(i, s)
      PROVE (DeliveredIsReal /\ AnswerIsReal)'
  <2>1. \A e \in Events : outbox'[e].status = "delivered" => outbox[e].status = "delivered"
    BY <1>2 DEF Start, Requeue
  <2>2. QED
    BY <1>2, <2>1 DEF Start
<1>3. ASSUME NEW i \in Instances, ClaimDue(i) PROVE (DeliveredIsReal /\ AnswerIsReal)'
  BY <1>3 DEF ClaimDue, Claimed, Holding
<1>4. ASSUME NEW i \in Instances, ReadBack(i) PROVE (DeliveredIsReal /\ AnswerIsReal)'
  BY <1>4 DEF ReadBack
<1>5. ASSUME NEW i \in Instances, Attempt(i) PROVE (DeliveredIsReal /\ AnswerIsReal)'
  BY <1>5 DEF Attempt
<1>6. ASSUME NEW i \in Instances, PersistOutcome(i)
      PROVE (DeliveredIsReal /\ AnswerIsReal)'
  <2>1. job[i].event \in Events /\ job[i] \in Jobs /\ outbox[job[i].event] \in Rows
    BY <1>6 DEF PersistOutcome
  <2>2. Outcome(job[i], outbox[job[i].event]).status = "delivered" => job[i].answer = "delivered"
    BY <2>1, OutcomeRow
  <2>3. outbox' = [outbox EXCEPT ![job[i].event] = Outcome(job[i], outbox[job[i].event])]
    BY <1>6 DEF PersistOutcome
  <2>4. DeliveredIsReal'
    BY <1>6, <2>1, <2>2, <2>3 DEF PersistOutcome
  <2>5. AnswerIsReal'
    BY <1>6 DEF PersistOutcome, Idle
  <2>6. QED
    BY <2>4, <2>5
<1>7. ASSUME NEW i \in Instances, StatementFails(i) PROVE (DeliveredIsReal /\ AnswerIsReal)'
  BY <1>7 DEF StatementFails, Idle
<1>8. ASSUME NEW i \in Instances, Crash(i) PROVE (DeliveredIsReal /\ AnswerIsReal)'
  BY <1>8 DEF Crash, Idle
<1>9. ASSUME NEW e \in Events, RetryFailed(e) PROVE (DeliveredIsReal /\ AnswerIsReal)'
  BY <1>9 DEF RetryFailed
<1>10. CASE Tick
  BY <1>10 DEF Tick, Sooner
<1>11. CASE UNCHANGED vars
  BY <1>11 DEF vars
<1>12. QED
  BY <1>1, <1>2, <1>3, <1>4, <1>5, <1>6, <1>7, <1>8, <1>9, <1>10, <1>11 DEF Next, Work

\* Type correctness of the outbox.
THEOREM TypeCorrect == Spec => []TypeOK
  BY InitType, NextType, PTL DEF Spec

\* A delivered row was taken by the receiver, for any number of processes.
THEOREM NoFalseDelivery == Spec => []DeliveredIsReal
<1>1. Init => RealInv
  BY InitType DEF Init, RealInv, DeliveredIsReal, AnswerIsReal, Idle
<1>2. RealInv => DeliveredIsReal
  BY DEF RealInv
<1>3. QED
  BY <1>1, <1>2, NextReal, PTL DEF Spec

-----------------------------------------------------------------------------
(***************************************************************************)
(* One process.                                                            *)
(***************************************************************************)

\* The initial state satisfies AloneInv.
LEMMA InitAlone == Init => AloneInv
<1> SUFFICES ASSUME Init PROVE AloneInv
  OBVIOUS
<1>1. TypeOK
  BY InitType
<1>2. InHand /\ NoRowYet /\ AttemptsLeft /\ FailedMeansExhausted /\ NoStrandedRow
  BY OutboxAssumption
     DEF Init, Idle, InHand, NoRowYet, AttemptsLeft, FailedMeansExhausted, NoStrandedRow
<1>3. QED
  BY <1>1, <1>2 DEF AloneInv

\* Every step of a single process keeps AloneInv.
LEMMA NextAlone == ASSUME Alone PROVE AloneInv /\ [Next]_vars => AloneInv'
<1> SUFFICES ASSUME AloneInv, [Next]_vars PROVE AloneInv'
  OBVIOUS
<1>t. TypeOK /\ TypeOK'
  BY NextType DEF AloneInv
<1> DEFINE Goal == InHand /\ NoRowYet /\ AttemptsLeft /\ FailedMeansExhausted /\ NoStrandedRow
<1>s. Goal
  BY DEF AloneInv
<1> SUFFICES Goal'
  BY <1>t DEF AloneInv
<1> USE OutboxAssumption, <1>t, <1>s
<1> USE DEF TypeOK, Rows, Jobs, InHand, NoRowYet, AttemptsLeft, FailedMeansExhausted,
            NoStrandedRow
<1>1. CASE SourceEvent
  <2>1. emitted + 1 \in Events /\ \E i \in Instances : proc[i] # "down"
    BY <1>1 DEF SourceEvent, Events
  <2>2. outbox[emitted + 1].status = "none" /\ outbox[emitted + 1].attempts = 0
    BY <2>1
  <2>3. \A e \in Events : /\ outbox'[e].attempts = outbox[e].attempts
                          /\ \/ outbox'[e].status = outbox[e].status
                             \/ e = emitted + 1 /\ outbox'[e].status = "pending"
    BY <1>1, <2>1 DEF SourceEvent
  <2>4. starts > 0
    BY <2>1
  <2>5. \A e \in Events : e \in Nat
    BY DEF Events
  <2>6. emitted' = emitted + 1 /\ starts' = starts /\ proc' = proc
    BY <1>1 DEF SourceEvent
  <2>7. NoRowYet'
    BY <2>3, <2>5, <2>6
  <2>8. AttemptsLeft'
    BY <2>2, <2>3, <2>4, <2>6
  <2>9. InHand' /\ FailedMeansExhausted' /\ NoStrandedRow'
    BY <1>1, <2>2, <2>3 DEF SourceEvent
  <2>10. QED
    BY <2>7, <2>8, <2>9
<1>2. ASSUME NEW i \in Instances, NEW s \in Configured, Start(i, s) PROVE Goal'
  BY <1>2 DEF Start, Requeue, Alone
<1>3. ASSUME NEW i \in Instances, ClaimDue(i) PROVE Goal'
  BY <1>3 DEF ClaimDue, Claimed, Holding, Due, Alone
<1>4. ASSUME NEW i \in Instances, ReadBack(i) PROVE Goal'
  BY <1>4 DEF ReadBack
<1>5. ASSUME NEW i \in Instances, Attempt(i) PROVE Goal'
  BY <1>5 DEF Attempt
<1>6. ASSUME NEW i \in Instances, PersistOutcome(i) PROVE Goal'
  <2>1. job[i].event \in Events /\ job[i] \in Jobs /\ outbox[job[i].event] \in Rows
    BY <1>6 DEF PersistOutcome
  <2> DEFINE r == Outcome(job[i], outbox[job[i].event])
  <2>2. /\ r.attempts = outbox[job[i].event].attempts
        /\ r.status = IF job[i].answer = "delivered" THEN "delivered"
                      ELSE IF job[i].attempts >= MaxAttempts THEN "failed" ELSE "pending"
    BY <2>1, OutcomeRow
  <2>3. outbox' = [outbox EXCEPT ![job[i].event] = r] /\ job' = [job EXCEPT ![i] = Idle]
    BY <1>6 DEF PersistOutcome
  <2> HIDE DEF r
  <2>4. /\ outbox[job[i].event].status = "delivering"
        /\ job[i].attempts = outbox[job[i].event].attempts
        /\ starts > 0
    BY <1>6 DEF PersistOutcome
  <2>5. /\ \A e \in Events \ {job[i].event} : outbox'[e] = outbox[e]
        /\ outbox'[job[i].event] = r
    BY <2>1, <2>3
  <2>6. InHand' /\ NoStrandedRow'
    BY <1>6, <2>1, <2>2, <2>3, <2>5 DEF PersistOutcome, Idle, Alone
  <2>7. NoRowYet' /\ FailedMeansExhausted'
    BY <1>6, <2>1, <2>2, <2>4, <2>5 DEF PersistOutcome
  <2>8. AttemptsLeft'
    BY <1>6, <2>1, <2>2, <2>4, <2>5 DEF PersistOutcome
  <2>9. QED
    BY <2>6, <2>7, <2>8
<1>7. ASSUME NEW i \in Instances, StatementFails(i) PROVE Goal'
  BY <1>7 DEF StatementFails, Idle
<1>8. ASSUME NEW i \in Instances, Crash(i) PROVE Goal'
  BY <1>8 DEF Crash, Idle, Alone
<1>9. ASSUME NEW e \in Events, RetryFailed(e) PROVE Goal'
  BY <1>9 DEF RetryFailed
<1>10. CASE Tick
  BY <1>10 DEF Tick, Sooner
<1>11. CASE UNCHANGED vars
  BY <1>11 DEF vars
<1>12. QED
  BY <1>1, <1>2, <1>3, <1>4, <1>5, <1>6, <1>7, <1>8, <1>9, <1>10, <1>11 DEF Next, Work

\* AloneInv holds throughout.
LEMMA AlwaysAlone == ASSUME Alone PROVE Spec => []AloneInv
  BY InitAlone, NextAlone, PTL DEF Spec

\* The worker gives up only after MAX_ATTEMPTS claims.
THEOREM NeverGivesUpEarly == ASSUME Alone PROVE Spec => []FailedMeansExhausted
<1>1. AloneInv => FailedMeansExhausted
  BY DEF AloneInv
<1>2. QED
  BY <1>1, AlwaysAlone, PTL

\* The attempts of a row exceed MAX_ATTEMPTS by less than the starts.
THEOREM AttemptsAreBounded == ASSUME Alone PROVE Spec => []AttemptsBounded
<1>1. AloneInv => AttemptsBounded
  BY OutboxAssumption DEF AloneInv, TypeOK, Rows, NoRowYet, AttemptsLeft, AttemptsBounded
<1>2. QED
  BY <1>1, AlwaysAlone, PTL

\* No crash strands a row while the worker runs.
THEOREM NothingStranded == ASSUME Alone PROVE Spec => []NoStrandedRow
<1>1. AloneInv => NoStrandedRow
  BY DEF AloneInv
<1>2. QED
  BY <1>1, AlwaysAlone, PTL

\* A delivered row is never sent again.
THEOREM DeliveredForGood == ASSUME Alone PROVE Spec => DeliveredIsFinal
<1>1. AloneInv /\ [Next]_vars => [DeliveredStays]_vars
  <2> SUFFICES ASSUME AloneInv, [Next]_vars, NEW e \in Events,
                      outbox[e].status = "delivered"
               PROVE  outbox'[e].status = "delivered"
    BY DEF DeliveredStays
  <2> USE OutboxAssumption
  <2> USE DEF AloneInv, TypeOK, Rows, Jobs
  <2>1. CASE SourceEvent
    <3>1. emitted + 1 \in Events
      BY <2>1, SMTT(30) DEF SourceEvent, Events
    <3>2. outbox[emitted + 1].status = "none"
      BY <3>1 DEF NoRowYet
    <3>3. QED
      BY <2>1, <3>1, <3>2 DEF SourceEvent
  <2>2. ASSUME NEW i \in Instances, NEW s \in Configured, Start(i, s)
        PROVE  outbox'[e].status = "delivered"
    BY <2>2 DEF Start
  <2>3. ASSUME NEW i \in Instances, Work(i) PROVE outbox'[e].status = "delivered"
    BY <2>3 DEF Work, ClaimDue, ReadBack, Attempt, PersistOutcome, Due, InHand
  <2>4. ASSUME NEW i \in Instances, StatementFails(i) \/ Crash(i)
        PROVE  outbox'[e].status = "delivered"
    BY <2>4 DEF StatementFails, Crash
  <2>5. ASSUME NEW f \in Events, RetryFailed(f) PROVE outbox'[e].status = "delivered"
    BY <2>5 DEF RetryFailed
  <2>6. CASE Tick
    BY <2>6 DEF Tick, Sooner
  <2>7. CASE UNCHANGED vars
    BY <2>7 DEF vars
  <2>8. QED
    BY <2>1, <2>2, <2>3, <2>4, <2>5, <2>6, <2>7 DEF Next
<1>2. QED
  BY <1>1, AlwaysAlone, PTL DEF Spec, DeliveredIsFinal

\* The outbox keeps its promise: with any number of processes and any failure
\* nothing is called delivered that the receiver did not take, and one process
\* gives up, repeats and strands nothing without cause.
THEOREM OutboxKept == Spec => []OutboxSafety
<1>1. CASE Alone
  <2>1. /\ Spec => []FailedMeansExhausted
        /\ Spec => []AttemptsBounded
        /\ Spec => []NoStrandedRow
    BY <1>1, NeverGivesUpEarly, AttemptsAreBounded, NothingStranded
  <2>2. TypeOK /\ DeliveredIsReal /\ FailedMeansExhausted /\ AttemptsBounded
           /\ NoStrandedRow => OutboxSafety
    BY DEF OutboxSafety, OutboxAlone
  <2>3. QED
    BY <2>1, <2>2, TypeCorrect, NoFalseDelivery, PTL
<1>2. CASE ~Alone
  <2>1. TypeOK /\ DeliveredIsReal => OutboxSafety
    BY <1>2 DEF OutboxSafety
  <2>2. QED
    BY <2>1, TypeCorrect, NoFalseDelivery, PTL
<1>3. QED
  BY <1>1, <1>2
=============================================================================
