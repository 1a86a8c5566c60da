------------------------ MODULE MutationLeaseProofs ------------------------
(***************************************************************************)
(* Proofs about the fenced lease of src/src/coordination.rs, for any       *)
(* number of processes and of lease ids, and any TTL and renewal interval. *)
(*                                                                         *)
(* FencingOrder is not inductive: it speaks of requests that have read     *)
(* their token, and says nothing of the window between the upsert and that *)
(* read, nor of the release statements still under way.  Ownership adds    *)
(* both: lease ids in hand, in a spawned release, or in neither are        *)
(* disjoint, so a release cannot hit a live lease and the SELECT after the *)
(* upsert returns the token that the upsert wrote.                         *)
(***************************************************************************)
EXTENDS MutationLease, TLAPS

\* Lease ids: who may name which.
Ownership ==
    /\ row.lease \in used \cup {NoLease}
    /\ row.lease = NoLease => row.owner = NoOne
    /\ row.lease # NoLease => row.token > 0
    /\ \A i \in Instances :
          /\ my[i].owner = i
          /\ pc[i] = "idle" => my[i].lease = NoLease
          /\ pc[i] # "idle" => my[i].lease \in used
          /\ pc[i] # "idle" /\ row.lease = my[i].lease => row.owner = i
    /\ \A i, j \in Instances :
          i # j /\ pc[i] # "idle" /\ pc[j] # "idle" => my[i].lease # my[j].lease
    /\ \A g \in cleanups :
          /\ g.lease \in used
          /\ \A i \in Instances : pc[i] # "idle" => g.lease # my[i].lease

\* Tokens of the requests that have read theirs.
TokenOrder ==
    \A i \in Instances : pc[i] \in Holding =>
        /\ my[i].token \in 1..row.token
        /\ my[i].token = row.token => row.lease = my[i].lease
        /\ row.lease = my[i].lease => my[i].token = row.token
        /\ \A j \in Instances \ {i} :
               pc[j] \in Holding => my[i].token # my[j].token

\* With timely renewals every request past the upsert holds the live row.
KeptUp ==
    Timely => \A i \in Instances :
                 pc[i] # "idle" => row.lease = my[i].lease /\ row.left > 0

IInv == TypeOK /\ Ownership /\ TokenOrder /\ KeptUp

USE LeaseAssumption DEF Phases, Holding, Critical, LeaseRow, Grant, NoGrant

\* The initial state: an unused row and no request.
LEMMA InitIInv == Init => IInv
  BY DEF Init, IInv, TypeOK, Ownership, TokenOrder, KeptUp

\* The upsert: a fresh lease id and a higher token, on a row nobody holds.
LEMMA AcquireIInv ==
  ASSUME IInv, NEW i \in Instances, Acquire(i)
  PROVE  IInv'
<1>1. PICK l \in LeaseIds \ used :
         /\ row' = [owner |-> i, lease |-> l, token |-> row.token + 1, left |-> TTL]
         /\ used' = used \cup {l}
         /\ my' = [my EXCEPT ![i] = [owner |-> i, lease |-> l, token |-> 0]]
  BY DEF Acquire
<1>2. TypeOK'
  BY <1>1 DEF Acquire, IInv, TypeOK
<1>3. Ownership'
  BY <1>1 DEF Acquire, IInv, TypeOK, Ownership
<1>4. TokenOrder'
  BY <1>1 DEF Acquire, IInv, TypeOK, Ownership, TokenOrder
<1>5. KeptUp'
  BY <1>1 DEF Acquire, Free, IInv, TypeOK, Ownership, KeptUp
<1>6. QED
  BY <1>2, <1>3, <1>4, <1>5 DEF IInv

\* Drop and crash: the request's lease moves to a release statement or is lost.
LEMMA EndIInv ==
  ASSUME IInv, NEW i \in Instances,
         UNCHANGED <<row, used>>,
         pc' = [pc EXCEPT ![i] = "idle"],
         my' = [my EXCEPT ![i] = NoGrant(i)],
         renewing' \in [Instances -> BOOLEAN],
         \/ cleanups' \in SUBSET cleanups
         \/ pc[i] # "idle" /\ cleanups' = cleanups \cup {my[i]}
  PROVE  IInv'
<1>1. TypeOK'
  <2>1. cleanups' \in SUBSET Grant
    <3>1. my[i] \in Grant
      BY DEF IInv, TypeOK
    <3>2. QED
      BY <3>1 DEF IInv, TypeOK
  <2>2. row' \in LeaseRow /\ used' \in SUBSET LeaseIds
    BY DEF IInv, TypeOK
  <2>3. pc' \in [Instances -> Phases] /\ my' \in [Instances -> Grant]
    BY DEF IInv, TypeOK
  <2>4. QED
    BY <2>1, <2>2, <2>3 DEF TypeOK
<1>2. Ownership'
  BY DEF IInv, TypeOK, Ownership
<1>3. TokenOrder'
  BY DEF IInv, TypeOK, TokenOrder
<1>4. KeptUp'
  BY DEF IInv, TypeOK, KeptUp
<1>5. QED
  BY <1>1, <1>2, <1>3, <1>4 DEF IInv

\* The release statement: it names no live lease, so it frees none.
LEMMA ReleaseIInv ==
  ASSUME IInv, NEW g \in cleanups, Release(g)
  PROVE  IInv'
<1>1. TypeOK'
  <2>1. row' \in LeaseRow
    <3>1. row \in LeaseRow /\ 0 \in 0..TTL
      BY DEF IInv, TypeOK
    <3>2. [row EXCEPT !.owner = NoOne, !.lease = NoLease, !.left = 0] \in LeaseRow
      BY <3>1
    <3>3. QED
      BY <3>1, <3>2, Zenon DEF Release
  <2>2. cleanups' \in SUBSET Grant
    BY DEF Release, IInv, TypeOK
  <2>3. QED
    BY <2>1, <2>2 DEF Release, IInv, TypeOK
<1>2. Ownership'
  BY DEF Release, Matches, IInv, TypeOK, Ownership
<1>3. TokenOrder'
  BY DEF Release, Matches, IInv, TypeOK, Ownership, TokenOrder
<1>4. KeptUp'
  BY DEF Release, Matches, IInv, TypeOK, Ownership, KeptUp
<1>5. QED
  BY <1>1, <1>2, <1>3, <1>4 DEF IInv

\* Every step preserves the inductive invariant.
LEMMA NextIInv == IInv /\ [Next]_vars => IInv'
<1> SUFFICES ASSUME IInv, [Next]_vars PROVE IInv'
  OBVIOUS
<1>1. ASSUME NEW i \in Instances, Acquire(i) PROVE IInv'
  BY <1>1, AcquireIInv
<1>2. ASSUME NEW i \in Instances, ReadToken(i) PROVE IInv'
  <2>1. TypeOK' /\ Ownership'
    BY <1>2 DEF ReadToken, IInv, TypeOK, Ownership
  <2>2. row.token \in Nat \ {0}
    BY <1>2 DEF ReadToken, IInv, TypeOK, Ownership
  <2>3. TokenOrder'
    BY <1>2, <2>2 DEF ReadToken, IInv, TypeOK, Ownership, TokenOrder
  <2>4. KeptUp'
    BY <1>2 DEF ReadToken, IInv, TypeOK, KeptUp
  <2>5. QED
    BY <2>1, <2>3, <2>4 DEF IInv
<1>3. ASSUME NEW i \in Instances, ReadTokenFails(i) PROVE IInv'
  BY <1>3, EndIInv DEF ReadTokenFails, IInv, TypeOK
<1>4. ASSUME NEW i \in Instances, Renew(i) PROVE IInv'
  BY <1>4 DEF Renew, IInv, TypeOK, Ownership, TokenOrder, KeptUp
<1>5. ASSUME NEW i \in Instances, RenewStops(i) PROVE IInv'
  BY <1>5 DEF RenewStops, IInv, TypeOK, Ownership, TokenOrder, KeptUp
<1>6. ASSUME NEW i \in Instances, AssertBefore(i) \/ GitApply(i) \/ AssertAfter(i)
      PROVE  IInv'
  BY <1>6 DEF AssertBefore, GitApply, AssertAfter, Proceed,
              IInv, TypeOK, Ownership, TokenOrder, KeptUp
<1>7. ASSUME NEW i \in Instances, AssertLost(i) \/ Abandon(i) \/ Record(i)
      PROVE  IInv'
  <2>1. Drop(i) /\ pc[i] # "idle"
    BY <1>7 DEF AssertLost, Abandon, Record
  <2>2. renewing' \in [Instances -> BOOLEAN]
    BY <2>1 DEF Drop, IInv, TypeOK
  <2>3. QED
    BY <2>1, <2>2, EndIInv DEF Drop
<1>8. ASSUME NEW i \in Instances, Crash(i) PROVE IInv'
  <2>1. cleanups' \in SUBSET cleanups /\ renewing' \in [Instances -> BOOLEAN]
    BY <1>8 DEF Crash, IInv, TypeOK
  <2>2. QED
    BY <1>8, <2>1, EndIInv DEF Crash
<1>9. ASSUME NEW g \in cleanups, Release(g) PROVE IInv'
  BY <1>9, ReleaseIInv
<1>10. CASE Tick
  <2>1. TypeOK' /\ Ownership' /\ TokenOrder'
    BY <1>10 DEF Tick, IInv, TypeOK, Ownership, TokenOrder
  <2>2. KeptUp'
    BY <1>10 DEF Tick, LiveHolder, IInv, TypeOK, KeptUp
  <2>3. QED
    BY <2>1, <2>2 DEF IInv
<1>11. CASE UNCHANGED vars
  BY <1>11 DEF vars, IInv, TypeOK, Ownership, TokenOrder, KeptUp
<1>12. QED
  BY <1>1, <1>2, <1>3, <1>4, <1>5, <1>6, <1>7, <1>8, <1>9, <1>10, <1>11 DEF Next

\* IInv holds in every reachable state.
THEOREM Inductive == Spec => []IInv
  BY InitIInv, NextIInv, PTL DEF Spec

\* The state of the lease protocol keeps its types.
THEOREM TypeCorrect == Spec => []TypeOK
  BY Inductive, PTL DEF IInv

\* Fencing tokens order the holders of coordination.rs leases: no two requests
\* hold the same token, and the newest token belongs to the holder in the row.
THEOREM Fencing == Spec => []FencingOrder
<1>1. IInv => FencingOrder
  BY DEF IInv, TypeOK, Ownership, TokenOrder, FencingOrder, Matches
<1>2. QED
  BY <1>1, Inductive, PTL

\* With timely renewals a request that passed its fence assertion holds the
\* live lease until it returns: the lease is then a lock around git apply.
THEOREM Exclusion == Spec => []ExclusiveWhenTimely
<1>1. IInv => ExclusiveWhenTimely
  BY DEF IInv, TypeOK, Ownership, TokenOrder, KeptUp, ExclusiveWhenTimely,
         Current, Matches
<1>2. QED
  BY <1>1, Inductive, PTL

\* A lease that was lost is never regained by the request that lost it.
THEOREM LostForGood == Spec => LostStaysLost
<1>1. IInv /\ [Next]_vars =>
        [\A i \in Instances :
            pc[i] \in Holding /\ ~Current(my[i]) /\ pc'[i] \in Holding
               => ~Current(my[i])']_vars
  <2> SUFFICES ASSUME IInv, Next, NEW k \in Instances,
                      pc[k] \in Holding, ~Current(my[k]), pc'[k] \in Holding
               PROVE  ~Current(my[k])'
    OBVIOUS
  <2> USE DEF Current, Matches, IInv, TypeOK, Ownership, TokenOrder
  <2>1. ASSUME NEW i \in Instances, Acquire(i) PROVE ~Current(my[k])'
    BY <2>1 DEF Acquire
  <2>2. ASSUME NEW i \in Instances, ReadToken(i) PROVE ~Current(my[k])'
    BY <2>2 DEF ReadToken
  <2>3. ASSUME NEW i \in Instances, Renew(i) PROVE ~Current(my[k])'
    BY <2>3 DEF Renew
  <2>4. ASSUME NEW i \in Instances,
               \/ ReadTokenFails(i) \/ RenewStops(i) \/ AssertBefore(i)
               \/ GitApply(i) \/ AssertAfter(i) \/ AssertLost(i)
               \/ Abandon(i) \/ Record(i) \/ Crash(i)
        PROVE  ~Current(my[k])'
    BY <2>4 DEF ReadTokenFails, RenewStops, AssertBefore, GitApply, AssertAfter,
                Proceed, AssertLost, Abandon, Record, Drop, Crash
  <2>5. ASSUME NEW g \in cleanups, Release(g) PROVE ~Current(my[k])'
    BY <2>5 DEF Release
  <2>6. CASE Tick
    BY <2>6 DEF Tick
  <2>7. QED
    BY <2>1, <2>2, <2>3, <2>4, <2>5, <2>6 DEF Next
<1>2. QED
  BY <1>1, Inductive, PTL DEF Spec, LostStaysLost

\* A late release statement never frees the lease of a running request.
THEOREM ReleaseOwnOnly == Spec => NoForeignRelease
<1>1. IInv /\ [Next]_vars =>
        [row.lease # NoLease /\ row'.lease = NoLease
            => \A i \in Instances : ~LiveHolder(i)]_vars
  <2> SUFFICES ASSUME IInv, Next, NEW k \in Instances, LiveHolder(k),
                      row.lease # NoLease, row'.lease = NoLease
               PROVE  FALSE
    OBVIOUS
  <2> USE DEF LiveHolder, IInv, TypeOK, Ownership
  <2>1. ASSUME NEW i \in Instances, Acquire(i) PROVE FALSE
    BY <2>1 DEF Acquire
  <2>2. ASSUME NEW i \in Instances, Renew(i) PROVE FALSE
    BY <2>2 DEF Renew
  <2>3. ASSUME NEW i \in Instances,
               \/ ReadToken(i) \/ ReadTokenFails(i) \/ RenewStops(i)
               \/ AssertBefore(i) \/ GitApply(i) \/ AssertAfter(i)
               \/ AssertLost(i) \/ Abandon(i) \/ Record(i) \/ Crash(i)
        PROVE  FALSE
    BY <2>3 DEF ReadToken, ReadTokenFails, RenewStops, AssertBefore, GitApply,
                AssertAfter, Proceed, AssertLost, Abandon, Record, Drop, Crash
  <2>4. ASSUME NEW g \in cleanups, Release(g) PROVE FALSE
    BY <2>4 DEF Release, Matches
  <2>5. CASE Tick
    BY <2>5 DEF Tick
  <2>6. QED
    BY <2>1, <2>2, <2>3, <2>4, <2>5 DEF Next
<1>2. QED
  BY <1>1, Inductive, PTL DEF Spec, NoForeignRelease

\* What coordination.rs promises in every state, for any number of processes:
\* tokens that order the holders, and a lock while renewals keep up.
THEOREM LeaseKept == Spec => []LeaseSafety
<1>1. TypeOK /\ FencingOrder /\ ExclusiveWhenTimely => LeaseSafety
  BY DEF LeaseSafety
<1>2. QED
  BY <1>1, TypeCorrect, Fencing, Exclusion, PTL

\* What no statement of coordination.rs does, however late it runs: give a lost
\* lease back, or take a live one away.
THEOREM LeaseStepsKept == Spec => LeaseActions
  BY LostForGood, ReleaseOwnOnly, PTL DEF LeaseActions
=============================================================================
