---------------------- MODULE PluginVerificationProofs ----------------------
(***************************************************************************)
(* Proofs about the domain challenge (plugin-verification-manager.ts,      *)
(* secure-store.ts) for any number of calls, tokens and failing steps.     *)
(*                                                                         *)
(* NoSecretLost rests on the queue of the secret store: only its first     *)
(* mutation has read the file, and nobody wrote since.  VerifiedIsStored   *)
(* speaks of rest; while a call is open, what it rests on is that the call *)
(* is alone, that a challenge which is being changed is not called         *)
(* verified, and that the token to be compared is the stored one.          *)
(***************************************************************************)
EXTENDS PluginVerification, SequenceTheorems, TLAPS

Values == Tokens \cup {None}
Caller == CHOOSE c \in Calls : TRUE

Call == [op : {None, "set", "remove", "verify-challenge", "verify", "state"},
         at : {None, "store", "throw", "probe", "read", "reload", "restart", "fetch"},
         value : Values, token : Values, ahead : Nat]

Mutation == [call : Calls \cup {Caller}, key : Keys, value : Values, read : BOOLEAN,
             found : [Keys -> Values]]

View == [configured : BOOLEAN, verified : BOOLEAN, checks : {None, "ready", "attention"}]

TypeOK ==
    /\ records \in [Keys -> Values] /\ acked \in [Keys -> Values]
    /\ plan \in Values /\ served \in Values
    /\ external \in BOOLEAN /\ verified \in BOOLEAN /\ unsure \in BOOLEAN
    /\ calls \in [Calls -> Call]
    /\ mutations \in Seq(Mutation)
    /\ checks \in {None, "ready", "attention"}
    /\ view \in View

\* Only the first mutation has read the file, which is still as it was read; the
\* call of a challenge's mutation waits for it and for no other.
Queue ==
    /\ \A i \in 1..Len(mutations) :
          mutations[i].read => i = 1 /\ mutations[i].found = records
    /\ \A i \in 1..Len(mutations) : mutations[i].key = "challenge" =>
          /\ mutations[i].call \in Calls
          /\ calls[mutations[i].call].op \in Challenge
          /\ calls[mutations[i].call].at = "store"
    /\ \A i, j \in 1..Len(mutations) :
          /\ mutations[i].key = "challenge" /\ mutations[j].key = "challenge"
          /\ mutations[i].call = mutations[j].call
          => i = j

\* The stages of a call.
Stages ==
    \A c \in Calls :
       /\ calls[c].op = None <=> calls[c].at = None
       /\ calls[c].at \in {"store", "throw", "reload", "restart"} => calls[c].op \in Challenge
       /\ calls[c].at = "fetch" => /\ calls[c].op \in {"set", "verify-challenge"}
                                   /\ calls[c].token # None

\* The challenge is stored, and its call has not come back.
Changing(c) ==
    calls[c].op \in Challenge /\ calls[c].at \in {"reload", "restart", "read", "fetch"}

\* Without doubt: one call at most, nothing is verified that is being changed, and
\* what is verified or about to be compared is the stored token.
Sure ==
    /\ \A c, d \in Calls : calls[c].op # None /\ calls[d].op # None => c = d
    /\ verified => records["challenge"] # None /\ served = records["challenge"]
    /\ \A c \in Calls : Changing(c) => ~verified
    /\ \A c \in Calls : calls[c].at = "fetch" => calls[c].token = records["challenge"]
    /\ (\A c \in Calls : ~Changing(c)) =>
          /\ view.verified => verified
          /\ view.configured => records["challenge"] # None

IInv == TypeOK /\ Queue /\ Stages /\ NoSecretLost /\ (~unsure => Sure)

-----------------------------------------------------------------------------
\* The queue without its first mutation.
LEMMA WithoutFirst ==
  ASSUME NEW S, NEW s \in Seq(S), s # <<>>
  PROVE  /\ Without(s, 1) \in Seq(S)
         /\ Len(Without(s, 1)) = Len(s) - 1
         /\ \A j \in 1..(Len(s) - 1) : Without(s, 1)[j] = s[j + 1]
<1>1. Len(s) \in Nat /\ Len(s) >= 1
  OBVIOUS
<1>2. SubSeq(s, 1, 0) = <<>>
  OBVIOUS
<1>3. /\ SubSeq(s, 2, Len(s)) \in Seq(S) /\ Len(SubSeq(s, 2, Len(s))) = Len(s) - 1
      /\ \A j \in 1..(Len(s) - 1) : SubSeq(s, 2, Len(s))[j] = s[j + 1]
  BY <1>1, HeadTailProperties, TailIsSubSeq
<1>4. Without(s, 1) = SubSeq(s, 2, Len(s))
  BY <1>2, <1>3 DEF Without
<1>5. QED
  BY <1>3, <1>4

\* A call keeps its kind when a mutation it may wait for is done.
LEMMA SettledCalls ==
  ASSUME TypeOK
  PROVE  /\ Settled(1) \in [Calls -> Call]
         /\ \A c \in Calls : /\ Settled(1)[c].op = calls[c].op /\ Settled(1)[c].at = calls[c].at
                             /\ Settled(1)[c].token = calls[c].token
BY SMTT(30) DEF Settled, TypeOK, Call

\* The store of the secrets: a mutation that writes, writes over what it read.
LEMMA StepWrites ==
  ASSUME TypeOK, Queue, NoSecretLost, MutationWrites(1), mutations # <<>>
  PROVE  /\ mutations[1] \in Mutation
         /\ records' = [records EXCEPT ![mutations[1].key] = mutations[1].value]
         /\ NoSecretLost'
<1>1. 1 \in 1..Len(mutations) /\ mutations[1] \in Mutation
  BY DEF TypeOK
<1>2. mutations[1].found = records
  BY <1>1 DEF MutationWrites, Queue
<1>3. QED
  BY <1>1, <1>2 DEF MutationWrites, NoSecretLost

-----------------------------------------------------------------------------
\* Types.
LEMMA NextType ==
  ASSUME TypeOK, Queue, [Next]_vars
  PROVE  TypeOK'
<1>1. /\ records \in [Keys -> Values] /\ acked \in [Keys -> Values]
      /\ calls \in [Calls -> Call] /\ mutations \in Seq(Mutation)
      /\ view \in View
      /\ checks \in {None, "ready", "attention"}
      /\ Len(mutations) \in Nat
  BY DEF TypeOK
<1>2. None \in Values /\ "challenge" \in Keys /\ "other" \in Keys /\ NoCall \in Call
  BY DEF Values, Keys, NoCall, Call
<1>3. ASSUME NEW c \in Calls, NEW shown, Shown(c, shown),
             shown \in View
      PROVE  calls' \in [Calls -> Call] /\ view' = shown
  BY <1>1, <1>2, <1>3 DEF Shown
<1>4. ASSUME NEW configured \in BOOLEAN, NEW isVerified \in BOOLEAN
      PROVE  Challenged(configured, isVerified) \in View
  BY <1>1 DEF Challenged, View
<1>5. ASSUME NEW i \in DOMAIN mutations, MutationReads(i) PROVE TypeOK'
  <2>1. mutations[i] \in Mutation
    BY <1>1, <1>5
  <2>2. [mutations[i] EXCEPT !.read = TRUE, !.found = records] \in Mutation
    BY <1>1, <2>1 DEF Mutation
  <2>3. mutations' \in Seq(Mutation)
    BY <1>1, <1>5, <2>2, ExceptSeq DEF MutationReads
  <2>4. QED
    BY <1>5, <2>3 DEF MutationReads, TypeOK, managerVars, panelVars, boundVars
<1>6. ASSUME NEW i \in DOMAIN mutations, MutationWrites(i) PROVE TypeOK'
  <2>1. i = 1 /\ mutations # <<>> /\ mutations[1] \in Mutation
    BY <1>1, <1>6 DEF MutationWrites, Running
  <2>2. mutations' \in Seq(Mutation)
    BY <1>1, <1>6, <2>1, WithoutFirst DEF MutationWrites
  <2>3. /\ records' \in [Keys -> Values] /\ acked' \in [Keys -> Values]
    BY <1>1, <1>6, <2>1 DEF MutationWrites, Mutation
  <2>4. calls' \in [Calls -> Call]
    <3>1. Len(mutations) - 1 \in Nat
      BY <1>1, <2>1
    <3>2. CASE mutations[1].key = "challenge"
      <4>1. mutations[1].call \in Calls
        BY <1>1, <2>1, <3>2 DEF Queue
      <4>2. [Settled(1)[mutations[1].call] EXCEPT !.at = "reload", !.ahead = Len(mutations) - 1]
               \in Call
        <5>1. Settled(1)[mutations[1].call] \in Call
          BY <4>1, SettledCalls
        <5>2. QED
          BY <3>1, <5>1 DEF Call
      <4>3. QED
        BY <1>6, <2>1, <3>2, <4>2, SettledCalls DEF MutationWrites
    <3>3. CASE mutations[1].key # "challenge"
      BY <1>6, <2>1, <3>3, SettledCalls DEF MutationWrites
    <3>4. QED
      BY <3>2, <3>3
  <2>5. verified' \in BOOLEAN
    BY <1>6 DEF MutationWrites
  <2>6. QED
    BY <1>6, <2>2, <2>3, <2>4, <2>5 DEF MutationWrites, TypeOK, panelVars, boundVars
<1>7. ASSUME NEW t \in Tokens, SetOther(t) PROVE TypeOK'
  <2>1. mutations' \in Seq(Mutation)
    BY <1>1, <1>2, <1>7 DEF SetOther, Enqueue, Mutation, Caller, Values
  <2>2. QED
    BY <1>7, <2>1 DEF SetOther, TypeOK, managerVars, panelVars
<1>8. ASSUME NEW c \in Calls, NEW value \in Values,
             NEW op \in {"set", "remove", "verify-challenge", "verify", "state"},
             Invoke(c, op, value)
      PROVE  TypeOK'
  <2>1. mutations' \in Seq(Mutation)
    <3>1. [call |-> c, key |-> "challenge", value |-> value, read |-> FALSE,
           found |-> records] \in Mutation
      BY <1>1, <1>2, <1>8 DEF Mutation
    <3>2. CASE op \in Challenge /\ ~external
      <4>1. mutations' = Append(mutations, [call |-> c, key |-> "challenge", value |-> value,
                                            read |-> FALSE, found |-> records])
        BY <1>8, <3>2 DEF Invoke, Enqueue
      <4>2. QED
        BY <1>1, <3>1, <4>1, AppendProperties
    <3>3. CASE ~(op \in Challenge /\ ~external)
      BY <1>1, <1>8, <3>3 DEF Invoke
    <3>4. QED
      BY <3>2, <3>3
  <2>2. calls' \in [Calls -> Call]
    BY <1>1, <1>2, <1>8 DEF Invoke, Call, Challenge
  <2>3. unsure' \in BOOLEAN
    BY <1>8 DEF Invoke
  <2>4. QED
    BY <1>8, <2>1, <2>2, <2>3 DEF Invoke, TypeOK, managerVars
<1>9. ASSUME NEW c \in Calls,
             \/ SetChallenge(c) \/ RemoveChallenge(c) \/ VerifyChallenge(c)
             \/ Verify(c) \/ Refresh(c)
      PROVE  TypeOK'
  BY <1>2, <1>8, <1>9 DEF SetChallenge, RemoveChallenge, VerifyChallenge, Verify, Refresh, Values
<1>10. ASSUME NEW c \in Calls, Throws(c) PROVE TypeOK'
  <2>1. calls' \in [Calls -> Call]
    BY <1>1, <1>2, <1>10 DEF Throws
  <2>2. QED
    BY <1>10, <2>1 DEF Throws, TypeOK, storeVars, managerVars, boundVars
<1>11. ASSUME NEW c \in Calls, ReloadPlans(c) \/ ReloadFails(c) PROVE TypeOK'
  <2>1. calls' \in [Calls -> Call]
    <3>1. CASE At(c, "restart")
      BY <1>1, <3>1 DEF At, Call
    <3>2. CASE At(c, "throw")
      BY <1>1, <3>2 DEF At, Call
    <3>3. QED
      BY <1>11, <3>1, <3>2 DEF ReloadPlans, ReloadFails
  <2>2. plan' \in Values /\ served' \in Values
    BY <1>1, <1>2, <1>11 DEF ReloadPlans, ReloadFails, TypeOK, managerVars
  <2>3. unsure' \in BOOLEAN
    BY <1>11 DEF ReloadPlans, ReloadFails, TypeOK, boundVars
  <2>4. QED
    BY <1>11, <2>1, <2>2, <2>3 DEF ReloadPlans, ReloadFails, TypeOK, storeVars, managerVars,
       panelVars
<1>12. ASSUME NEW c \in Calls, DaemonRestarted(c) PROVE TypeOK'
  <2>1. /\ calls' \in [Calls -> Call]
        /\ view' \in View
    <3>1. CASE calls[c].op # "set"
      <4>1. Challenged(FALSE, FALSE) \in View
        BY <1>4
      <4>2. QED
        BY <1>3, <1>12, <3>1, <4>1 DEF DaemonRestarted
    <3>2. CASE calls[c].op = "set"
      <4>1. [calls[c] EXCEPT !.at = "read", !.ahead = Len(mutations)] \in Call
        BY <1>1 DEF Call
      <4>2. QED
        BY <1>1, <1>12, <3>2, <4>1 DEF DaemonRestarted, panelVars
    <3>3. QED
      BY <3>1, <3>2
  <2>2. QED
    BY <1>12, <2>1 DEF DaemonRestarted, TypeOK, storeVars, boundVars
<1>13. ASSUME NEW c \in Calls, StateRead(c) PROVE TypeOK'
  <2>1. /\ calls' \in [Calls -> Call]
        /\ view' \in View
    <3>1. [configured |-> records["challenge"] # None,
           verified |-> records["challenge"] # None /\ verified, checks |-> checks] \in View
      BY <1>1 DEF View
    <3>2. QED
      BY <1>3, <1>13, <3>1 DEF StateRead
  <2>2. QED
    BY <1>13, <2>1 DEF StateRead, TypeOK, storeVars, managerVars, boundVars
<1>14. ASSUME NEW c \in Calls, TokenRead(c) PROVE TypeOK'
  <2>1. /\ calls' \in [Calls -> Call]
        /\ view' \in View
    <3>1. CASE records["challenge"] = None
      <4>1. Challenged(FALSE, FALSE) \in View
        BY <1>4
      <4>2. QED
        BY <1>3, <1>14, <3>1, <4>1 DEF TokenRead
    <3>2. CASE records["challenge"] # None
      <4>1. [calls[c] EXCEPT !.at = "fetch", !.token = records["challenge"]] \in Call
        BY <1>1, <1>2 DEF Call
      <4>2. QED
        BY <1>1, <1>14, <3>2, <4>1 DEF TokenRead, panelVars
    <3>3. QED
      BY <3>1, <3>2
  <2>2. QED
    BY <1>14, <2>1 DEF TokenRead, TypeOK, storeVars, managerVars, boundVars
<1>15. ASSUME NEW c \in Calls, NoHostname(c) \/ Fetched(c) \/ FetchFails(c) PROVE TypeOK'
  <2>1. /\ calls' \in [Calls -> Call] /\ verified' \in BOOLEAN
        /\ view' \in View
    <3>1. CASE NoHostname(c)
      BY <1>3, <1>4, <3>1 DEF NoHostname, managerVars, TypeOK
    <3>2. CASE Fetched(c)
      BY <1>3, <1>4, <3>2 DEF Fetched
    <3>3. CASE FetchFails(c)
      BY <1>3, <1>4, <3>3 DEF FetchFails
    <3>4. QED
      BY <1>15, <3>1, <3>2, <3>3
  <2>2. unsure' \in BOOLEAN
    BY <1>15 DEF NoHostname, Fetched, FetchFails, TypeOK
  <2>3. QED
    BY <1>15, <2>1, <2>2 DEF NoHostname, Fetched, FetchFails, TypeOK, storeVars, managerVars
<1>16. ASSUME NEW c \in Calls, Checked(c) PROVE TypeOK'
  <2>1. calls' \in [Calls -> Call]
    BY <1>1, <1>16 DEF Checked, Call
  <2>2. QED
    BY <1>16, <2>1 DEF Checked, TypeOK, storeVars, panelVars, boundVars
<1>17. CASE UNCHANGED vars
  BY <1>17 DEF TypeOK, vars, storeVars, managerVars, panelVars, boundVars
<1>18. QED
  BY <1>5, <1>6, <1>7, <1>9, <1>10, <1>11, <1>12, <1>13, <1>14, <1>15, <1>16, <1>17 DEF Next

-----------------------------------------------------------------------------
(* What the steps do to the calls.                                         *)

Ops == {"set", "remove", "verify-challenge", "verify", "state"}

\* The store has the new challenge: its call goes on, and nothing is verified.
LEMMA WrittenCalls ==
  ASSUME TypeOK, Queue, mutations # <<>>, MutationWrites(1), mutations[1].key = "challenge"
  PROVE  /\ mutations[1].call \in Calls
         /\ calls[mutations[1].call].op \in Challenge
         /\ \A d \in Calls : calls'[d].op = calls[d].op
         /\ \A d \in Calls \ {mutations[1].call} : calls'[d] = Settled(1)[d]
         /\ calls'[mutations[1].call].at = "reload"
         /\ ~verified'
<1>1. /\ mutations[1].call \in Calls /\ calls[mutations[1].call].op \in Challenge
  BY DEF Queue, TypeOK
<1>2. Settled(1) \in [Calls -> Call] /\ Settled(1)[mutations[1].call] \in Call
  BY <1>1, SettledCalls
<1>3. calls' = [Settled(1) EXCEPT ![mutations[1].call] =
                  [Settled(1)[mutations[1].call] EXCEPT
                      !.at = "reload", !.ahead = Len(mutations) - 1]]
  BY DEF MutationWrites
<1>4. /\ \A d \in Calls \ {mutations[1].call} : calls'[d] = Settled(1)[d]
      /\ calls'[mutations[1].call].op = Settled(1)[mutations[1].call].op
      /\ calls'[mutations[1].call].at = "reload"
  BY <1>1, <1>2, <1>3 DEF Call
<1>5. \A d \in Calls : calls'[d].op = calls[d].op
  BY <1>1, <1>4, SettledCalls
<1>6. ~verified'
  BY DEF MutationWrites, Forgets
<1>7. QED
  BY <1>1, <1>4, <1>5, <1>6

\* A call is begun: one that changes the challenge waits for the store, or fails.
LEMMA CallBegins ==
  ASSUME TypeOK, NEW c \in Calls, NEW op \in Ops, NEW value \in Values, Invoke(c, op, value)
  PROVE  /\ calls[c] = NoCall
         /\ \A d \in Calls \ {c} : calls'[d] = calls[d]
         /\ calls'[c].op = op
         /\ op \in Challenge => calls'[c].at = IF external THEN "throw" ELSE "store"
         /\ op \notin Challenge => calls'[c].at \in {"probe", "read"}
BY DEF Invoke, TypeOK

Ends(c) ==
    \/ Throws(c) \/ ReloadPlans(c) \/ DaemonRestarted(c) \/ ReloadFails(c)
    \/ StateRead(c) \/ TokenRead(c) \/ NoHostname(c) \/ Fetched(c)
    \/ FetchFails(c) \/ Checked(c)

\* A call moves on or ends: the store and the other calls stay as they are.
LEMMA CallMoves ==
  ASSUME TypeOK, NEW c \in Calls, Ends(c)
  PROVE  /\ UNCHANGED <<records, mutations, acked>>
         /\ calls[c].at \in {"throw", "reload", "restart", "read", "probe", "fetch"}
         /\ \A d \in Calls \ {c} : calls'[d] = calls[d]
         /\ \/ calls'[c] = NoCall
            \/ /\ calls'[c].op = calls[c].op
               /\ calls[c].at \in {"reload", "restart"} /\ calls'[c].at \in {"throw", "restart"}
            \/ /\ calls'[c].op = calls[c].op
               /\ calls[c].at \in {"restart", "probe"} /\ calls'[c].at = "read"
            \/ /\ calls'[c].op = calls[c].op /\ calls[c].op \in {"set", "verify-challenge"}
               /\ calls[c].at = "read" /\ calls'[c].at = "fetch"
               /\ calls'[c].token = records["challenge"] /\ records["challenge"] # None
<1>1. calls \in [Calls -> Call]
  BY DEF TypeOK
<1>2. CASE Throws(c)
  BY <1>1, <1>2 DEF Throws, storeVars
<1>3. CASE ReloadPlans(c)
  BY <1>1, <1>3 DEF ReloadPlans, At, storeVars, Call
<1>4. CASE DaemonRestarted(c)
  BY <1>1, <1>4 DEF DaemonRestarted, Shown, storeVars, Call
<1>5. CASE ReloadFails(c)
  BY <1>1, <1>5 DEF ReloadFails, At, storeVars, Call
<1>6. CASE StateRead(c)
  BY <1>1, <1>6 DEF StateRead, Shown, storeVars
<1>7. CASE TokenRead(c)
  BY <1>1, <1>7 DEF TokenRead, Shown, storeVars, Call
<1>8. CASE NoHostname(c) \/ Fetched(c) \/ FetchFails(c)
  BY <1>1, <1>8 DEF NoHostname, Fetched, FetchFails, Shown, storeVars
<1>9. CASE Checked(c)
  BY <1>1, <1>9 DEF Checked, storeVars, Call
<1>10. QED
  BY <1>2, <1>3, <1>4, <1>5, <1>6, <1>7, <1>8, <1>9 DEF Ends

\* The steps, by what they do to the queue and to the calls.
LEMMA Steps ==
  ASSUME TypeOK, Next
  PROVE  \/ mutations # <<>> /\ MutationReads(1)
         \/ mutations # <<>> /\ MutationWrites(1)
         \/ \E t \in Tokens : SetOther(t)
         \/ \E c \in Calls, op \in Ops, value \in Values : Invoke(c, op, value)
         \/ \E c \in Calls : Ends(c)
<1>1. ASSUME NEW i \in DOMAIN mutations, MutationReads(i) \/ MutationWrites(i)
      PROVE  i = 1 /\ mutations # <<>>
  BY <1>1 DEF MutationReads, MutationWrites, Running, TypeOK
<1>2. ASSUME NEW c \in Calls,
             \/ SetChallenge(c) \/ RemoveChallenge(c) \/ VerifyChallenge(c)
             \/ Verify(c) \/ Refresh(c)
      PROVE  \E op \in Ops, value \in Values : Invoke(c, op, value)
  BY <1>2 DEF SetChallenge, RemoveChallenge, VerifyChallenge, Verify, Refresh, Values, Ops
<1>3. QED
  BY <1>1, <1>2 DEF Next, Ends

\* The queue of the secret store.
LEMMA NextQueue ==
  ASSUME TypeOK, Queue, Stages, NoSecretLost, Next
  PROVE  Queue'
<1>1. /\ calls \in [Calls -> Call] /\ mutations \in Seq(Mutation) /\ Len(mutations) \in Nat
      /\ \A i \in 1..Len(mutations) : mutations[i] \in Mutation
  BY DEF TypeOK
<1>2. CASE mutations # <<>> /\ MutationReads(1)
  <2>1. 1 \in 1..Len(mutations) /\ mutations[1] \in Mutation
    BY <1>1, <1>2
  <2>2. /\ Len(mutations') = Len(mutations)
        /\ \A i \in 1..Len(mutations) :
              /\ mutations'[i].key = mutations[i].key /\ mutations'[i].call = mutations[i].call
              /\ mutations'[i].read => i = 1 /\ mutations'[i].found = records
    BY <1>1, <1>2, <2>1 DEF MutationReads, Mutation, Queue
  <2>3. UNCHANGED <<calls, records>>
    BY <1>2 DEF MutationReads
  <2>4. QED
    BY <2>2, <2>3 DEF Queue
<1>3. CASE mutations # <<>> /\ MutationWrites(1)
  <2>1. 1 \in 1..Len(mutations) /\ mutations[1] \in Mutation
    BY <1>1, <1>3
  <2>2. /\ Len(mutations') = Len(mutations) - 1
        /\ \A j \in 1..(Len(mutations) - 1) : mutations'[j] = mutations[j + 1]
    BY <1>1, <1>3, WithoutFirst DEF MutationWrites
  <2>3. \A j \in 1..Len(mutations') :
           /\ j + 1 \in 1..Len(mutations) /\ j + 1 # 1 /\ mutations'[j] = mutations[j + 1]
    BY <1>1, <2>1, <2>2
  <2>4. \A j \in 1..Len(mutations') : ~mutations'[j].read
    BY <2>3 DEF Queue
  <2>5. ASSUME NEW j \in 1..Len(mutations'), mutations'[j].key = "challenge"
        PROVE  /\ mutations'[j].call \in Calls
               /\ calls'[mutations'[j].call].op \in Challenge
               /\ calls'[mutations'[j].call].at = "store"
    <3>1. /\ mutations'[j].call \in Calls
          /\ calls[mutations'[j].call].op \in Challenge
          /\ calls[mutations'[j].call].at = "store"
      BY <2>3, <2>5 DEF Queue
    <3>2. mutations[1].key = "challenge" => mutations'[j].call # mutations[1].call
      BY <2>1, <2>3, <2>5 DEF Queue
    <3>3. calls'[mutations'[j].call] = Settled(1)[mutations'[j].call]
      <4>1. CASE mutations[1].key = "challenge"
        BY <1>3, <3>1, <3>2, <4>1, SettledCalls DEF MutationWrites
      <4>2. CASE mutations[1].key # "challenge"
        BY <1>3, <4>2 DEF MutationWrites
      <4>3. QED
        BY <4>1, <4>2
    <3>4. QED
      BY <3>1, <3>3, SettledCalls
  <2>6. ASSUME NEW i \in 1..Len(mutations'), NEW j \in 1..Len(mutations'),
               mutations'[i].key = "challenge", mutations'[j].key = "challenge",
               mutations'[i].call = mutations'[j].call
        PROVE  i = j
    <3>1. i + 1 = j + 1
      BY <2>3, <2>6, SMTT(30) DEF Queue
    <3>2. QED
      BY <1>1, <2>1, <2>2, <3>1
  <2>7. QED
    BY <2>4, <2>5, <2>6 DEF Queue
<1>4. ASSUME NEW m \in Mutation, mutations' = Append(mutations, m), ~m.read,
             records' = records,
             m.key = "challenge" =>
                /\ m.call \in Calls /\ calls[m.call].at # "store"
                /\ calls'[m.call].op \in Challenge /\ calls'[m.call].at = "store",
             \A d \in Calls : calls[d].at = "store" => calls'[d] = calls[d]
      PROVE  Queue'
  <2>1. /\ Len(mutations') = Len(mutations) + 1
        /\ \A i \in 1..Len(mutations) : mutations'[i] = mutations[i]
        /\ mutations'[Len(mutations) + 1] = m
    BY <1>1, <1>4, AppendProperties
  <2>2. \A i \in 1..Len(mutations') : i \in 1..Len(mutations) \/ i = Len(mutations) + 1
    BY <1>1, <2>1
  <2>3. \A i \in 1..Len(mutations') :
           mutations'[i].read => i = 1 /\ mutations'[i].found = records'
    BY <1>4, <2>1, <2>2 DEF Queue
  <2>4. \A i \in 1..Len(mutations) : mutations[i].key = "challenge" =>
           /\ mutations[i].call \in Calls /\ calls[mutations[i].call].at = "store"
           /\ calls'[mutations[i].call] = calls[mutations[i].call]
           /\ calls[mutations[i].call].op \in Challenge
    BY <1>4 DEF Queue
  <2>5. \A i \in 1..Len(mutations') : mutations'[i].key = "challenge" =>
           /\ mutations'[i].call \in Calls
           /\ calls'[mutations'[i].call].op \in Challenge
           /\ calls'[mutations'[i].call].at = "store"
    BY <1>4, <2>1, <2>2, <2>4
  <2>6. \A i, j \in 1..Len(mutations') :
           /\ mutations'[i].key = "challenge" /\ mutations'[j].key = "challenge"
           /\ mutations'[i].call = mutations'[j].call
           => i = j
    <3>1. \A i \in 1..Len(mutations) :
             m.key = "challenge" /\ mutations[i].key = "challenge" => mutations[i].call # m.call
      BY <1>4, <2>4
    <3>2. QED
      BY <2>1, <2>2, <3>1 DEF Queue
  <2>7. QED
    BY <2>3, <2>5, <2>6 DEF Queue
<1>5. ASSUME NEW t \in Tokens, SetOther(t) PROVE Queue'
  <2>1. [call |-> Caller, key |-> "other", value |-> t, read |-> FALSE, found |-> records]
           \in Mutation
    BY DEF Mutation, Keys, Values, TypeOK
  <2>2. /\ mutations' = Append(mutations, [call |-> Caller, key |-> "other", value |-> t,
                                           read |-> FALSE, found |-> records])
        /\ UNCHANGED <<records, calls>>
    BY <1>5 DEF SetOther, Enqueue, Caller
  <2>3. QED
    BY <1>4, <2>1, <2>2
<1>6. ASSUME \A d \in Calls : calls[d].at = "store" => calls'[d] = calls[d],
             UNCHANGED <<records, mutations>>
      PROVE  Queue'
  BY <1>6 DEF Queue
<1>7. ASSUME NEW c \in Calls, NEW op \in Ops, NEW value \in Values, Invoke(c, op, value)
      PROVE  Queue'
  <2>1. calls[c].at # "store" /\ \A d \in Calls : calls[d].at = "store" => calls'[d] = calls[d]
    BY <1>7, CallBegins DEF NoCall, None
  <2>2. records' = records
    BY <1>7 DEF Invoke
  <2>3. CASE op \in Challenge /\ ~external
    <3>1. [call |-> c, key |-> "challenge", value |-> value, read |-> FALSE, found |-> records]
             \in Mutation
      BY DEF Mutation, Keys, TypeOK
    <3>2. mutations' = Append(mutations, [call |-> c, key |-> "challenge", value |-> value,
                                          read |-> FALSE, found |-> records])
      BY <1>7, <2>3 DEF Invoke, Enqueue
    <3>3. calls'[c].op \in Challenge /\ calls'[c].at = "store"
      BY <1>7, <2>3, CallBegins
    <3>4. QED
      BY <1>4, <2>1, <2>2, <3>1, <3>2, <3>3
  <2>4. CASE ~(op \in Challenge /\ ~external)
    BY <1>6, <1>7, <2>1, <2>2, <2>4 DEF Invoke
  <2>5. QED
    BY <2>3, <2>4
<1>8. ASSUME NEW c \in Calls, Ends(c) PROVE Queue'
  BY <1>6, <1>8, CallMoves
<1>9. QED
  BY <1>2, <1>3, <1>5, <1>7, <1>8, Steps

\* The stages of a call.
LEMMA NextStages ==
  ASSUME TypeOK, Queue, Stages, Next
  PROVE  Stages'
<1>1. calls \in [Calls -> Call] /\ mutations \in Seq(Mutation)
  BY DEF TypeOK
<1>2. CASE mutations # <<>> /\ MutationReads(1)
  BY <1>2 DEF MutationReads, Stages
<1>3. CASE mutations # <<>> /\ MutationWrites(1)
  <2>1. CASE mutations[1].key = "challenge"
    BY <1>3, <2>1, WrittenCalls, SettledCalls DEF Stages, Challenge, None
  <2>2. CASE mutations[1].key # "challenge"
    BY <1>3, <2>2, SettledCalls DEF MutationWrites, Stages
  <2>3. QED
    BY <2>1, <2>2
<1>4. ASSUME NEW t \in Tokens, SetOther(t) PROVE Stages'
  BY <1>4 DEF SetOther, Stages
<1>5. ASSUME NEW c \in Calls, NEW op \in Ops, NEW value \in Values, Invoke(c, op, value)
      PROVE  Stages'
  BY <1>5, CallBegins DEF Stages, Challenge, Ops, None
<1>6. ASSUME NEW c \in Calls, Ends(c) PROVE Stages'
  BY <1>6, CallMoves DEF Stages, Challenge, NoCall, None
<1>7. QED
  BY <1>2, <1>3, <1>4, <1>5, <1>6, Steps

-----------------------------------------------------------------------------
(* What is known when nothing is in doubt.                                 *)

\* A step after which nothing is in doubt, when nothing was in doubt before.
LEMMA SureStep ==
  ASSUME TypeOK, Queue, Stages, NoSecretLost, Sure, ~unsure, Next, ~unsure'
  PROVE  Sure'
<1>1. /\ calls \in [Calls -> Call] /\ mutations \in Seq(Mutation)
      /\ records \in [Keys -> Values] /\ view \in View
  BY DEF TypeOK
<1>2. CASE mutations # <<>> /\ MutationReads(1)
  <2>1. UNCHANGED <<records, verified, served, calls, view>>
    BY <1>2 DEF MutationReads, managerVars, panelVars
  <2>2. QED
    BY <2>1 DEF Sure, Changing
<1>3. CASE mutations # <<>> /\ MutationWrites(1)
  <2>1. mutations[1] \in Mutation
    BY <1>1, <1>3
  <2>2. UNCHANGED <<served, view>>
    BY <1>3 DEF MutationWrites, panelVars
  <2>3. CASE mutations[1].key = "challenge"
    <3>1. \A c \in Calls : calls'[c].op # None => c = mutations[1].call
      BY <1>3, <2>3, WrittenCalls DEF Sure, Challenge, None
    <3>2. \E c \in Calls : Changing(c)'
      BY <1>3, <2>3, WrittenCalls DEF Changing
    <3>3. \A c \in Calls : calls'[c].at # "fetch"
      <4>1. Stages'
        BY NextStages
      <4>2. QED
        BY <1>3, <2>3, <3>1, <4>1, WrittenCalls DEF Stages, None
    <3>4. QED
      BY <1>3, <2>3, <3>1, <3>2, <3>3, WrittenCalls DEF Sure
  <2>4. CASE mutations[1].key = "other"
    <3>1. records'["challenge"] = records["challenge"]
      BY <1>1, <1>3, <2>1, <2>4, StepWrites DEF Keys
    <3>2. \A c \in Calls : /\ calls'[c].op = calls[c].op /\ calls'[c].at = calls[c].at
                           /\ calls'[c].token = calls[c].token
      BY <1>3, <2>4, SettledCalls DEF MutationWrites
    <3>3. verified' = verified
      BY <1>3, <2>4 DEF MutationWrites, Forgets, TypeOK
    <3>4. QED
      BY <2>2, <3>1, <3>2, <3>3 DEF Sure, Changing
  <2>5. QED
    BY <2>1, <2>3, <2>4 DEF Mutation, Keys
<1>4. ASSUME NEW t \in Tokens, SetOther(t) PROVE Sure'
  <2>1. UNCHANGED <<records, verified, served, calls, view>>
    BY <1>4 DEF SetOther, managerVars, panelVars
  <2>2. QED
    BY <2>1 DEF Sure, Changing
<1>5. ASSUME NEW c \in Calls, NEW op \in Ops, NEW value \in Values, Invoke(c, op, value)
      PROVE  Sure'
  <2>1. \A d \in Calls \ {c} : calls[d].op = None /\ calls[d].at = None /\ calls'[d] = calls[d]
    <3>1. Others(c) = {}
      BY <1>5 DEF Invoke
    <3>2. QED
      BY <1>5, <3>1, CallBegins DEF Others, Stages
  <2>2. \A d \in Calls : ~Changing(d) /\ ~Changing(d)' /\ calls'[d].at # "fetch"
    BY <1>5, <2>1, CallBegins DEF Changing, Challenge, NoCall, None
  <2>3. UNCHANGED <<records, verified, served, view>>
    BY <1>5 DEF Invoke, managerVars
  <2>4. QED
    BY <2>1, <2>2, <2>3 DEF Sure
<1>6. ASSUME NEW c \in Calls, Ends(c) PROVE Sure'
  <2>1. /\ \A d \in Calls \ {c} : calls[d].op = None /\ calls[d].at = None /\ calls'[d] = calls[d]
        /\ calls[c].op # None
        /\ records' = records
    BY <1>6, CallMoves DEF Sure, Stages, None
  <2>2. \A d \in Calls \ {c} : ~Changing(d) /\ ~Changing(d)' /\ calls'[d].at # "fetch"
    BY <2>1 DEF Changing, Challenge, None
  <2>3. \A d, e \in Calls : calls'[d].op # None /\ calls'[e].op # None => d = e
    BY <2>1
  <2>4. ASSUME calls'[c] = NoCall,
               verified' => records["challenge"] # None /\ served' = records["challenge"],
               view'.verified => verified',
               view'.configured => records["challenge"] # None
        PROVE  Sure'
    <3>1. ~Changing(c)' /\ calls'[c].at # "fetch"
      BY <2>4 DEF Changing, Challenge, NoCall, None
    <3>2. QED
      BY <2>1, <2>2, <2>3, <2>4, <3>1 DEF Sure
  <2>5. ASSUME NEW b \in BOOLEAN, NEW v \in BOOLEAN, view' = Challenged(b, v)
        PROVE  view'.verified = v /\ view'.configured = b
    BY <1>1, <2>5 DEF Challenged, View
  <2>6. CASE Throws(c)
    <3>1. calls'[c] = NoCall /\ UNCHANGED <<verified, served, view>>
      BY <1>1, <2>6 DEF Throws, managerVars
    <3>2. \A d \in Calls : ~Changing(d)
      BY <2>2, <2>6 DEF Changing, Throws
    <3>3. QED
      BY <2>4, <3>1, <3>2 DEF Sure
  <2>7. CASE ReloadPlans(c)
    <3>1. calls'[c].op = calls[c].op /\ calls'[c].at = "restart" /\ verified' = verified
      BY <1>1, <2>7 DEF ReloadPlans, At, Call
    <3>2. Changing(c) /\ Changing(c)' /\ calls'[c].at # "fetch"
      BY <2>7, <3>1 DEF Changing, ReloadPlans, Stages
    <3>3. ~verified'
      BY <3>1, <3>2 DEF Sure
    <3>4. QED
      BY <2>2, <2>3, <3>2, <3>3 DEF Sure
  <2>8. CASE DaemonRestarted(c)
    <3>1. Changing(c) /\ verified' = verified /\ ~verified
      BY <2>8 DEF Changing, DaemonRestarted, Stages, Sure
    <3>2. CASE calls[c].op = "set"
      <4>1. calls'[c].op = "set" /\ calls'[c].at = "read"
        BY <1>1, <2>8, <3>2 DEF DaemonRestarted, Call
      <4>2. Changing(c)' /\ calls'[c].at # "fetch"
        BY <4>1 DEF Changing, Challenge
      <4>3. QED
        BY <2>2, <2>3, <3>1, <4>2 DEF Sure
    <3>3. CASE calls[c].op # "set"
      <4>1. calls'[c] = NoCall /\ view' = Challenged(FALSE, FALSE)
        BY <1>1, <2>8, <3>3 DEF DaemonRestarted, Shown
      <4>2. QED
        BY <2>4, <2>5, <3>1, <4>1
    <3>4. QED
      BY <3>2, <3>3
  <2>9. CASE ReloadFails(c) \/ NoHostname(c)
    BY <2>9 DEF ReloadFails, NoHostname
  <2>10. CASE StateRead(c)
    <3>1. /\ calls'[c] = NoCall /\ UNCHANGED <<verified, served>>
          /\ view' = [configured |-> records["challenge"] # None,
                      verified |-> records["challenge"] # None /\ verified, checks |-> checks]
      BY <1>1, <2>10 DEF StateRead, Shown, managerVars
    <3>2. /\ view'.verified => verified
          /\ view'.configured => records["challenge"] # None
      BY <3>1
    <3>3. QED
      BY <2>4, <3>1, <3>2 DEF Sure
  <2>11. CASE TokenRead(c)
    <3>1. UNCHANGED <<verified, served>>
      BY <2>11 DEF TokenRead, managerVars
    <3>2. CASE records["challenge"] = None
      <4>1. calls'[c] = NoCall /\ view' = Challenged(FALSE, FALSE)
        BY <1>1, <2>11, <3>2 DEF TokenRead, Shown
      <4>2. QED
        BY <2>4, <2>5, <3>1, <4>1 DEF Sure
    <3>3. CASE records["challenge"] # None
      <4>1. /\ calls'[c].op = calls[c].op /\ calls'[c].at = "fetch"
            /\ calls'[c].token = records["challenge"] /\ view' = view
        BY <1>1, <2>11, <3>3 DEF TokenRead, Call, panelVars
      <4>2. calls[c].at = "read"
        BY <2>11 DEF TokenRead
      <4>3. Changing(c)' <=> Changing(c)
        BY <4>1, <4>2 DEF Changing
      <4>4. QED
        BY <2>1, <2>2, <2>3, <3>1, <4>1, <4>3 DEF Sure
    <3>4. QED
      BY <3>2, <3>3
  <2>12. CASE Fetched(c) \/ FetchFails(c)
    <3>1. /\ calls'[c] = NoCall /\ served' = served
          /\ verified' = TRUE \/ verified' = FALSE
          /\ verified' => served = calls[c].token
          /\ view' = Challenged(TRUE, verified')
      BY <1>1, <2>12 DEF Fetched, FetchFails, Shown
    <3>2. calls[c].token = records["challenge"] /\ records["challenge"] # None
      BY <2>12 DEF Fetched, FetchFails, Sure, Stages
    <3>3. view'.verified = verified' /\ view'.configured = TRUE
      BY <2>5, <3>1
    <3>4. QED
      BY <2>4, <3>1, <3>2, <3>3
  <2>13. CASE Checked(c)
    <3>1. /\ calls'[c].op = "verify" /\ calls[c].op = "verify" /\ calls'[c].at = "read"
          /\ UNCHANGED <<verified, served, view>>
      BY <1>1, <2>13 DEF Checked, Call, panelVars
    <3>2. ~Changing(c) /\ ~Changing(c)' /\ calls'[c].at # "fetch"
      BY <3>1 DEF Changing, Challenge
    <3>3. QED
      BY <2>1, <2>2, <2>3, <3>1, <3>2 DEF Sure
  <2>14. QED
    BY <1>6, <2>6, <2>7, <2>8, <2>9, <2>10, <2>11, <2>12, <2>13 DEF Ends
<1>7. QED
  BY <1>2, <1>3, <1>4, <1>5, <1>6, Steps

\* A check of the stored token that has the manager for itself removes the doubt.
LEMMA DoubtEnds ==
  ASSUME TypeOK, Queue, Stages, unsure, Next, ~unsure'
  PROVE  Sure'
<1>1. calls \in [Calls -> Call] /\ view \in View
  BY DEF TypeOK
<1>2. PICK c \in Calls : Fetched(c)
  <2>1. CASE mutations # <<>> /\ (MutationReads(1) \/ MutationWrites(1))
    BY <2>1 DEF MutationReads, MutationWrites, boundVars
  <2>2. ASSUME NEW t \in Tokens, SetOther(t) PROVE FALSE
    BY <2>2 DEF SetOther
  <2>3. ASSUME NEW d \in Calls, NEW op \in Ops, NEW value \in Values, Invoke(d, op, value)
        PROVE  FALSE
    BY <2>3 DEF Invoke
  <2>4. ASSUME NEW d \in Calls, Ends(d), ~Fetched(d) PROVE FALSE
    BY <2>4 DEF Ends, Throws, ReloadPlans, DaemonRestarted, ReloadFails, StateRead, TokenRead,
       NoHostname, FetchFails, Checked, boundVars
  <2>5. QED
    BY <2>1, <2>2, <2>3, <2>4, Steps
<1>3. Others(c) = {} /\ calls[c].token = records["challenge"] /\ records["challenge"] # None
  BY <1>2 DEF Fetched, Stages
<1>4. \A d \in Calls : calls'[d].op = None /\ calls'[d].at = None
  <2>1. calls'[c] = NoCall /\ \A d \in Calls \ {c} : calls'[d] = calls[d]
    BY <1>1, <1>2 DEF Fetched, Shown
  <2>2. \A d \in Calls \ {c} : calls[d].op = None /\ calls[d].at = None
    BY <1>3 DEF Others, Stages
  <2>3. QED
    BY <2>1, <2>2 DEF NoCall
<1>5. /\ records' = records /\ served' = served
      /\ verified' => served = calls[c].token
      /\ view'.verified = verified'
  BY <1>1, <1>2 DEF Fetched, Shown, Challenged, View, storeVars
<1>6. QED
  BY <1>3, <1>4, <1>5 DEF Sure, Changing, Challenge, None

-----------------------------------------------------------------------------
\* The invariant holds at the start.
LEMMA Initially == Init => IInv
<1> SUFFICES ASSUME Init PROVE IInv
  OBVIOUS
<1>1. /\ records \in [Keys -> Values] /\ acked = records /\ mutations = <<>>
      /\ plan \in Values /\ served \in Values
      /\ calls = [c \in Calls |-> NoCall] /\ view = NoView
      /\ verified = FALSE /\ unsure = FALSE
  BY DEF Init, Values
<1>2. TypeOK
  <2>1. NoCall \in Call /\ NoView \in View
    BY DEF NoCall, Call, NoView, View, Values
  <2>2. mutations \in Seq(Mutation)
    BY <1>1
  <2>3. QED
    BY <1>1, <2>1, <2>2 DEF Init, TypeOK
<1>3. Queue
  BY <1>1 DEF Queue
<1>4. \A c \in Calls : calls[c].op = None /\ calls[c].at = None
  BY <1>1 DEF NoCall
<1>5. Stages
  BY <1>4 DEF Stages, None
<1>6. Sure
  BY <1>1, <1>4 DEF Sure, Changing, Challenge, NoView, None
<1>7. QED
  BY <1>1, <1>2, <1>3, <1>5, <1>6 DEF IInv, NoSecretLost

\* Every step keeps the invariant.
LEMMA Inductive == IInv /\ [Next]_vars => IInv'
<1> SUFFICES ASSUME IInv, [Next]_vars PROVE IInv'
  OBVIOUS
<1>1. TypeOK /\ Queue /\ Stages /\ NoSecretLost /\ (~unsure => Sure)
  BY DEF IInv
<1>2. CASE Next
  <2>1. TypeOK'
    BY <1>1, NextType
  <2>2. Queue' /\ Stages'
    BY <1>1, <1>2, NextQueue, NextStages
  <2>3. NoSecretLost'
    <3>1. CASE mutations # <<>> /\ MutationWrites(1)
      BY <1>1, <3>1, StepWrites
    <3>2. CASE mutations # <<>> /\ MutationReads(1)
      BY <1>1, <3>2 DEF MutationReads, NoSecretLost
    <3>3. ASSUME NEW t \in Tokens, SetOther(t) PROVE NoSecretLost'
      BY <1>1, <3>3 DEF SetOther, NoSecretLost
    <3>4. ASSUME NEW c \in Calls, NEW op \in Ops, NEW value \in Values, Invoke(c, op, value)
          PROVE  NoSecretLost'
      BY <1>1, <3>4 DEF Invoke, NoSecretLost
    <3>5. ASSUME NEW c \in Calls, Ends(c) PROVE NoSecretLost'
      BY <1>1, <3>5, CallMoves DEF NoSecretLost
    <3>6. QED
      BY <1>1, <1>2, <3>1, <3>2, <3>3, <3>4, <3>5, Steps
  <2>4. ~unsure' => Sure'
    BY <1>1, <1>2, SureStep, DoubtEnds
  <2>5. QED
    BY <2>1, <2>2, <2>3, <2>4 DEF IInv
<1>3. CASE UNCHANGED vars
  BY <1>1, <1>3 DEF IInv, TypeOK, Queue, Stages, NoSecretLost, Sure, Changing, vars,
     storeVars, managerVars, panelVars, boundVars
<1>4. QED
  BY <1>2, <1>3

\* What the panel promises follows from it.
LEMMA Implies == IInv => ChallengeIsKept
<1> SUFFICES ASSUME IInv PROVE ChallengeIsKept
  OBVIOUS
<1>1. NoSecretLost
  BY DEF IInv
<1>2. ASSUME Open = {}, ~unsure
      PROVE  /\ verified => records["challenge"] # None /\ served = records["challenge"]
             /\ view.verified => verified
             /\ view.configured => records["challenge"] # None
  <2>1. \A c \in Calls : calls[c].op = None
    BY <1>2 DEF Open
  <2>2. \A c \in Calls : ~Changing(c)
    BY <2>1 DEF Changing, Challenge, None
  <2>3. QED
    BY <1>2, <2>2 DEF IInv, Sure
<1>3. QED
  BY <1>1, <1>2 DEF ChallengeIsKept, VerifiedIsStored

\* No secret is lost to another that is stored at the same time, and a token the panel
\* calls verified is the stored one and the one the daemon serves, however many calls
\* overlapped or failed before (plugin-verification-manager.ts, secure-store.ts).
THEOREM ChallengeKept == Spec => []ChallengeIsKept
<1>1. Init => IInv
  BY Initially
<1>2. IInv /\ [Next]_vars => IInv'
  BY Inductive
<1>3. IInv => ChallengeIsKept
  BY Implies
<1>4. QED
  BY <1>1, <1>2, <1>3, PTL DEF Spec
=============================================================================
