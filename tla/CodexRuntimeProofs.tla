-------------------------- MODULE CodexRuntimeProofs --------------------------
(***************************************************************************)
(* Proofs about CodexRuntime.  A turn owns the thread it works in: the     *)
(* inductive invariant IInv ties every open call to its host, every        *)
(* host to the run it was made for, the busy flag to the one turn at work, *)
(* and the writer of a thread to a turn that will release it.  The         *)
(* registry on disk follows the store.                                     *)
(*                                                                         *)
(* Most actions change the pool in one of a few ways: calls and hosts end  *)
(* (Releases), a host is made (Fresh), a turn enters its try block         *)
(* (Enters), a call goes on outside of one (Stays), reads (Reads) or       *)
(* begins its turn (Begins).  Each way is one lemma about Pool, and each   *)
(* action is shown to be one of them.                                      *)
(***************************************************************************)
EXTENDS CodexRuntime, TLAPS

\* What a thread id, a run or a host can be.
NoneIsNone == None \notin Runs /\ None \notin Threads /\ None \notin Hosts
Bounds == MaxCalls \in Nat /\ MaxFaults \in Nat /\ MaxPolls \in Nat

Bindings == [Runs -> Threads \cup {None}]
Call == [op : Ops, stage : Stages, run : Runs \cup {None}, thread : Threads \cup {None},
         host : Hosts \cup {None}]
Write == [snapshot : Bindings, by : Requests \cup {None}]

\* Stages of a call that waits for its own new host, that has a turn at work, and that has a
\* host at all.
Owning == {"attach", "persist"}
Working == {"configure", "turn"}
InHand == Owning \cup Working \cup {"busy", "read"}

\* A call by itself.
Shape(k) ==
    /\ k.host # None <=> k.stage \in InHand
    /\ k.stage \in {"loaded", "activated", "wait", "busy"} \cup Working => k.op = "turn"
    /\ k.stage \in {"asked", "dropped", "freed", "refused"} => k.op = "resume"
    /\ k.stage \in Owning \cup {"evict", "answer"} => k.op \in {"turn", "resume"}
    /\ k.stage \in {"read", "coldRead", "discard"} => k.op = "conversation"
    /\ k.op \in {"turn", "resume", "conversation"} => k.run # None
    /\ k.stage \in {"wait", "busy", "persist", "read", "coldRead"} \cup Working => k.thread # None
    /\ k.op = "resume" => k.thread # None
Shapes == \A q \in Requests : Shape(req[q])

\* A host belongs to one run; one that was made for a call and is not registered yet is
\* known to that call only.
Owned ==
    /\ \A r, x \in Runs : runtimes[r] # None /\ runtimes[r] = runtimes[x] => r = x
    /\ \A r \in Runs : runtimes[r] # None => hosts[runtimes[r]].state # "none"
    /\ \A q \in Requests : \A r \in Runs :
          req[q].host # None /\ runtimes[r] = req[q].host => req[q].run = r
    /\ \A p, q \in Requests :
          req[p].host # None /\ req[p].host = req[q].host => req[p].run = req[q].run
    /\ \A q \in Requests : req[q].stage \in Owning =>
          /\ hosts[req[q].host].state # "none"
          /\ \A r \in Runs : runtimes[r] # req[q].host
          /\ \A p \in Requests : req[p].host = req[q].host => p = q

\* A host is busy with the one turn that is at work on it; only a second call of a run
\* finds the entry busy.
Busy ==
    /\ \A q \in Requests : req[q].stage \in Working => hosts[req[q].host].busy
    /\ \A h \in Hosts : hosts[h].busy =>
          \E q \in Requests : req[q].stage \in Working /\ req[q].host = h
    /\ \A p, q \in Requests :
          /\ req[p].stage \in Working /\ req[q].stage \in Working
          /\ req[p].host = req[q].host
          => p = q
    /\ \A q \in Requests : req[q].stage = "busy" => req[q].run \in overlapped

\* The turn of a run whose calls never overlapped has the writer and is on the runtime.
Sure ==
    \A q \in Requests : req[q].stage \in Working /\ req[q].run \notin overlapped =>
        writers[req[q].thread] = req[q].run /\ runtimes[req[q].run] = req[q].host

Overlaps ==
    \A p, q \in Requests :
        /\ p # q /\ req[p].run = req[q].run
        /\ req[p].op \in {"turn", "resume"} /\ req[q].op \in {"turn", "resume"}
        => req[p].run \in overlapped

Pool == Shapes /\ Owned /\ Busy /\ Sure /\ WriterHeldByTurn
IInv == TypeOK /\ Overlaps /\ Pool

-----------------------------------------------------------------------------
(* Types.                                                                  *)

\* What is known of a call that is open.
LEMMA CallTypes ==
  ASSUME TypeOK, Shapes, NEW q \in Requests
  PROVE  /\ req \in [Requests -> Call] /\ req[q] \in Call
         /\ req[q].stage \in InHand => req[q].host \in Hosts
         /\ req[q].op \in {"turn", "resume", "conversation"} => req[q].run \in Runs
         /\ req[q].stage \in (InHand \ {"read"}) \cup {"evict", "answer", "asked", "dropped",
                                                   "freed", "refused"} =>
               req[q].op \in {"turn", "resume"} /\ req[q].run \in Runs
         /\ req[q].stage \in {"wait", "busy", "persist", "read", "coldRead"} \cup Working =>
               req[q].thread \in Threads
         /\ req[q].op = "resume" => req[q].thread \in Threads
         /\ req[q].stage \in {"read", "coldRead", "discard"} => req[q].run \in Runs
<1>1. req \in [Requests -> Call] /\ Shape(req[q])
  BY DEF TypeOK, Call, Shapes
<1>2. req[q] \in Call
  BY <1>1
<1>3. QED
  BY <1>1, <1>2 DEF Call, Shape, InHand

\* A call that is not open.
LEMMA NoCallTypes ==
  /\ NoCall \in Call /\ NoCall.host = None /\ NoCall.run = None /\ NoCall.thread = None
  /\ NoCall.stage = "idle" /\ NoCall.op = "none" /\ Shape(NoCall)
BY DEF NoCall, Call, Ops, Stages, Shape, InHand, Owning, Working

\* A host that does not exist.
LEMMA HostTypes == NoHost \in Host /\ ~NoHost.busy /\ NoHost.state = "none"
BY DEF NoHost, Host

\* The order of use stays a relation on hosts.
LEMMA UseTypes ==
  ASSUME TypeOK, NEW h \in Hosts, NEW gone
  PROVE  /\ Untracked(gone) \subseteq Hosts \X Hosts
         /\ Touch(h) \subseteq Hosts \X Hosts
         /\ Tracked(h) \subseteq Hosts \X Hosts
<1>1. usedBefore \subseteq Hosts \X Hosts /\ Registered \subseteq Hosts
  BY DEF TypeOK, Registered
<1>2. Untracked(gone) \subseteq Hosts \X Hosts /\ Untracked({h}) \subseteq Hosts \X Hosts
  BY <1>1 DEF Untracked
<1>3. {<<x, h>> : x \in Registered \ {h}} \subseteq Hosts \X Hosts
  BY <1>1
<1>4. Touch(h) \subseteq Hosts \X Hosts
  BY <1>2, <1>3 DEF Touch
<1>5. QED
  BY <1>1, <1>2, <1>4 DEF Tracked

\* releaseThreadWriter takes the writer from its own run only.
LEMMA ReleaseTypes ==
  ASSUME NEW w \in [Threads -> Runs \cup {None}], NEW t, NEW r
  PROVE  /\ ReleaseThreadWriter(w, t, r) \in [Threads -> Runs \cup {None}]
         /\ \A u \in Threads : ReleaseThreadWriter(w, t, r)[u] = IF u = t /\ t # None /\ w[t] = r
                                                                THEN None ELSE w[u]
BY DEF ReleaseThreadWriter

\* A shutdown (host.shutdown) takes away the hosts that it names and no other.
LEMMA ShutDownTypes ==
  ASSUME TypeOK, NEW gone, ShutDown(gone)
  PROVE  /\ hosts' \in [Hosts -> Host] /\ nwriter' \in [Threads -> Hosts \cup {None, Lingering}]
         /\ usedBefore' \subseteq Hosts \X Hosts
         /\ \A h \in Hosts : hosts'[h] = IF h \in gone THEN NoHost ELSE hosts[h]
<1>1. usedBefore' \subseteq Hosts \X Hosts
  BY DEF ShutDown, Untracked, TypeOK
<1>2. hosts' \in [Hosts -> Host] /\ \A h \in Hosts : hosts'[h] = IF h \in gone THEN NoHost ELSE hosts[h]
  BY HostTypes DEF ShutDown, TypeOK
<1>3. nwriter' \in [Threads -> Hosts \cup {None, Lingering}]
  BY DEF ShutDown, TypeOK
<1>4. QED
  BY <1>1, <1>2, <1>3

\* enqueueWrite and the write loop keep the queue a sequence of snapshots.
LEMMA QueueTypes ==
  ASSUME TypeOK
  PROVE  /\ queue \in Seq(Write) /\ bindings \in Bindings /\ file \in Bindings
         /\ \A s \in Bindings : \A by \in Requests \cup {None} :
               EnqueueWrite(s, by) => queue' \in Seq(Write)
         /\ queue # <<>> => /\ Head(queue) \in Write /\ Tail(queue) \in Seq(Write)
<1>1. queue \in Seq(Write) /\ bindings \in Bindings /\ file \in Bindings
  BY DEF TypeOK, Write, Bindings
<1>2. ASSUME NEW s \in Bindings, NEW by \in Requests \cup {None}, EnqueueWrite(s, by)
      PROVE  queue' \in Seq(Write)
  <2>1. [snapshot |-> s, by |-> by] \in Write
    BY DEF Write
  <2>2. QED
    BY <1>1, <1>2, <2>1 DEF EnqueueWrite
<1>3. queue # <<>> => Head(queue) \in Write /\ Tail(queue) \in Seq(Write)
  BY <1>1
<1>4. QED
  BY <1>1, <1>2, <1>3

\* store.remove leaves a registry.
LEMMA RemoveTypes ==
  ASSUME TypeOK, NEW r \in Runs, RemoveBinding(r)
  PROVE  bindings' \in Bindings /\ queue' \in Seq(Write)
<1>1. bindings' \in Bindings
  BY QueueTypes DEF RemoveBinding, Bindings
<1>2. QED
  BY <1>1, QueueTypes DEF RemoveBinding

-----------------------------------------------------------------------------
(* What a step does to the pool.                                           *)

\* The history follows from the calls.
LEMMA OverlapsKept ==
  ASSUME TypeOK', Shapes', overlapped' = overlapped \cup Overlapping'
  PROVE  Overlaps'
<1> SUFFICES ASSUME NEW p \in Requests, NEW q \in Requests, p # q, req'[p].run = req'[q].run,
                    req'[p].op \in {"turn", "resume"}, req'[q].op \in {"turn", "resume"}
             PROVE  req'[p].run \in overlapped'
  BY DEF Overlaps
<1>1. req'[p].run \in Runs
  BY DEF TypeOK, Shapes, Shape
<1>2. req'[p].run \in Overlapping'
  BY <1>1 DEF Overlapping
<1>3. QED
  BY <1>2

\* Calls that end, or go on without a host; hosts that are given up or end their turn;
\* runtimes and writers that are released.
LEMMA Releases ==
  ASSUME IInv, TypeOK', Shapes', overlapped \subseteq overlapped',
         \A q \in Requests : req'[q] = req[q] \/ req'[q].host = None,
         \A h \in Hosts :
            \/ hosts'[h] = hosts[h]
            \/ /\ ~hosts'[h].busy
               /\ \A q \in Requests : req'[q].stage \in Working => req'[q].host # h
               /\ \/ hosts'[h].state # "none" \/ hosts[h].state = "none"
                  \/ /\ \A r \in Runs : runtimes'[r] # h
                     /\ \A q \in Requests : req'[q].stage \in Owning => req'[q].host # h,
         \A q \in Requests : req[q].stage \in Working /\ req'[q] # req[q] =>
            ~hosts'[req[q].host].busy /\ writers'[req[q].thread] # req[q].run,
         \A r \in Runs : runtimes'[r] \in {runtimes[r], None},
         \A t \in Threads : writers'[t] \in {writers[t], None},
         \A q \in Requests :
            req[q].stage \in Working /\ req'[q] = req[q] /\ req[q].run \notin overlapped =>
               /\ writers'[req[q].thread] = writers[req[q].thread]
               /\ runtimes'[req[q].run] = runtimes[req[q].run],
         NoneIsNone
  PROVE  Pool'
<1>1. /\ Shapes /\ Owned /\ Busy /\ Sure /\ WriterHeldByTurn /\ TypeOK
      /\ \A q \in Requests : Shape(req[q]) /\ Shape(req'[q])
  BY DEF IInv, Pool, Shapes
<1>2. \A q \in Requests : req'[q].stage \in InHand => req'[q] = req[q]
  BY <1>1 DEF Shape
<1>3. \A q \in Requests : /\ req[q].stage \in InHand => req[q].host \in Hosts
                          /\ req[q].stage \in Working => req[q].thread \in Threads /\ req[q].run \in Runs
  BY <1>1, CallTypes DEF InHand
<1>4. \A q \in Requests : req'[q].host # None => req'[q] = req[q] /\ req[q].stage \in InHand
  BY <1>1 DEF Shape
<1>5. Owned'
  <2>1. \A r, x \in Runs : runtimes'[r] # None /\ runtimes'[r] = runtimes'[x] => r = x
    BY <1>1 DEF Owned
  <2>2. ASSUME NEW r \in Runs, runtimes'[r] # None PROVE hosts'[runtimes'[r]].state # "none"
    <3>1. runtimes'[r] = runtimes[r] /\ runtimes[r] \in Hosts /\ hosts[runtimes[r]].state # "none"
      BY <1>1, <2>2 DEF TypeOK, Owned
    <3>2. QED
      BY <2>2, <3>1
  <2>3. \A q \in Requests : \A r \in Runs :
           req'[q].host # None /\ runtimes'[r] = req'[q].host => req'[q].run = r
    BY <1>1, <1>4 DEF Owned
  <2>4. \A p, q \in Requests :
           req'[p].host # None /\ req'[p].host = req'[q].host => req'[p].run = req'[q].run
    BY <1>1, <1>4 DEF Owned
  <2>5. ASSUME NEW q \in Requests, req'[q].stage \in Owning
        PROVE  /\ hosts'[req'[q].host].state # "none"
               /\ \A r \in Runs : runtimes'[r] # req'[q].host
               /\ \A p \in Requests : req'[p].host = req'[q].host => p = q
    <3>1. req'[q] = req[q] /\ req[q].host \in Hosts /\ req[q].host # None
      BY <1>2, <1>3, <2>5, NoneIsNone DEF InHand, NoneIsNone
    <3>2. /\ hosts[req[q].host].state # "none"
          /\ \A r \in Runs : runtimes[r] # req[q].host
          /\ \A p \in Requests : req[p].host = req[q].host => p = q
      BY <1>1, <2>5, <3>1 DEF Owned
    <3>3. hosts'[req[q].host].state # "none"
      BY <2>5, <3>1, <3>2
    <3>4. \A p \in Requests : req'[p].host = req'[q].host => p = q
      BY <1>4, <3>1, <3>2
    <3>5. QED
      BY <3>1, <3>2, <3>3, <3>4
  <2>6. QED
    BY <2>1, <2>2, <2>3, <2>4, <2>5 DEF Owned
<1>6. Busy'
  <2>1. ASSUME NEW q \in Requests, req'[q].stage \in Working PROVE hosts'[req'[q].host].busy
    <3>1. req'[q] = req[q] /\ req[q].host \in Hosts /\ hosts[req[q].host].busy
      BY <1>1, <1>2, <1>3, <2>1 DEF InHand, Busy
    <3>2. hosts'[req[q].host] = hosts[req[q].host]
      BY <2>1, <3>1
    <3>3. QED
      BY <3>1, <3>2
  <2>2. ASSUME NEW h \in Hosts, hosts'[h].busy
        PROVE  \E q \in Requests : req'[q].stage \in Working /\ req'[q].host = h
    <3>1. hosts[h].busy
      BY <2>2
    <3>2. PICK q \in Requests : req[q].stage \in Working /\ req[q].host = h
      BY <1>1, <3>1 DEF Busy
    <3>3. req'[q] = req[q]
      BY <2>2, <3>2
    <3>4. QED
      BY <3>2, <3>3
  <2>3. \A p, q \in Requests :
           /\ req'[p].stage \in Working /\ req'[q].stage \in Working
           /\ req'[p].host = req'[q].host
           => p = q
    BY <1>1, <1>2 DEF Busy, InHand
  <2>4. \A q \in Requests : req'[q].stage = "busy" => req'[q].run \in overlapped'
    BY <1>1, <1>2 DEF Busy, InHand
  <2>5. QED
    BY <2>1, <2>2, <2>3, <2>4 DEF Busy
<1>7. Sure'
  <2> SUFFICES ASSUME NEW q \in Requests, req'[q].stage \in Working, req'[q].run \notin overlapped'
               PROVE  writers'[req'[q].thread] = req'[q].run /\ runtimes'[req'[q].run] = req'[q].host
    BY DEF Sure
  <2>1. req'[q] = req[q] /\ req[q].run \notin overlapped
    BY <1>2 DEF InHand
  <2>2. QED
    BY <1>1, <2>1 DEF Sure
<1>8. WriterHeldByTurn'
  <2> SUFFICES ASSUME NEW t \in Threads, writers'[t] # None
               PROVE  \E q \in Requests : /\ req'[q].stage \in Working
                                          /\ req'[q].thread = t /\ req'[q].run = writers'[t]
    BY DEF WriterHeldByTurn, Working
  <2>1. writers'[t] = writers[t]
    OBVIOUS
  <2>2. PICK q \in Requests : req[q].stage \in Working /\ req[q].thread = t /\ req[q].run = writers[t]
    BY <1>1, <2>1 DEF WriterHeldByTurn, Working
  <2>3. req'[q] = req[q]
    BY <2>1, <2>2
  <2>4. QED
    BY <2>1, <2>2, <2>3
<1>9. QED
  BY <1>5, <1>6, <1>7, <1>8 DEF Pool

\* A call gets a host that nobody had.
LEMMA Fresh ==
  ASSUME IInv, Shapes', overlapped \subseteq overlapped', NoneIsNone,
         NEW q \in Requests, NEW h \in Hosts,
         hosts[h].state = "none", \A x \in Requests : req[x].host # h,
         hosts'[h].state # "none", ~hosts'[h].busy,
         \A x \in Hosts : x # h => hosts'[x] = hosts[x],
         req[q].host = None, req'[q].stage = "attach", req'[q].host = h,
         \A x \in Requests : x # q => req'[x] = req[x],
         runtimes' = runtimes, writers' = writers
  PROVE  Pool'
<1>1. /\ Shapes /\ Owned /\ Busy /\ Sure /\ WriterHeldByTurn /\ TypeOK
      /\ \A x \in Requests : Shape(req[x])
  BY DEF IInv, Pool, Shapes
<1>2. /\ \A x \in Requests : req[x].stage \in InHand => req[x].host \in Hosts /\ req[x].host # h
      /\ \A x \in Requests : req'[x].stage \in Working => x # q /\ req'[x] = req[x]
      /\ req[q].stage \notin InHand
  BY <1>1, CallTypes DEF InHand, Shape, Working, Owning
<1>3. \A r \in Runs : runtimes[r] # h
  BY <1>1, NoneIsNone DEF Owned, NoneIsNone
<1>4. Owned'
  <2>1. \A r, x \in Runs : runtimes'[r] # None /\ runtimes'[r] = runtimes'[x] => r = x
    BY <1>1 DEF Owned
  <2>2. \A r \in Runs : runtimes'[r] # None => hosts'[runtimes'[r]].state # "none"
    BY <1>1, <1>3 DEF Owned, TypeOK
  <2>3. \A p \in Requests : \A r \in Runs :
           req'[p].host # None /\ runtimes'[r] = req'[p].host => req'[p].run = r
    BY <1>1, <1>3 DEF Owned
  <2>4. \A p, x \in Requests :
           req'[p].host # None /\ req'[p].host = req'[x].host => req'[p].run = req'[x].run
    BY <1>1 DEF Owned
  <2>5. ASSUME NEW p \in Requests, req'[p].stage \in Owning
        PROVE  /\ hosts'[req'[p].host].state # "none"
               /\ \A r \in Runs : runtimes'[r] # req'[p].host
               /\ \A x \in Requests : req'[x].host = req'[p].host => x = p
    <3>1. CASE p = q
      BY <1>3, <3>1
    <3>2. CASE p # q
      <4>1. /\ hosts[req[p].host].state # "none" /\ req[p].host \in Hosts /\ req[p].host # h
            /\ \A r \in Runs : runtimes[r] # req[p].host
            /\ \A x \in Requests : req[x].host = req[p].host => x = p
        BY <1>1, <1>2, <2>5, <3>2 DEF Owned, InHand
      <4>2. QED
        BY <3>2, <4>1
    <3>3. QED
      BY <3>1, <3>2
  <2>6. QED
    BY <2>1, <2>2, <2>3, <2>4, <2>5 DEF Owned
<1>5. Busy'
  <2>1. \A x \in Requests : req'[x].stage \in Working => hosts'[req'[x].host].busy
    BY <1>1, <1>2 DEF Busy, InHand
  <2>2. ASSUME NEW x \in Hosts, hosts'[x].busy
        PROVE  \E p \in Requests : req'[p].stage \in Working /\ req'[p].host = x
    <3>1. x # h /\ hosts[x].busy
      BY <2>2
    <3>2. PICK p \in Requests : req[p].stage \in Working /\ req[p].host = x
      BY <1>1, <3>1 DEF Busy
    <3>3. p # q
      BY <1>2, <3>2 DEF InHand
    <3>4. QED
      BY <3>2, <3>3
  <2>3. \A p, x \in Requests :
           /\ req'[p].stage \in Working /\ req'[x].stage \in Working
           /\ req'[p].host = req'[x].host
           => p = x
    BY <1>1, <1>2 DEF Busy
  <2>4. \A x \in Requests : req'[x].stage = "busy" => req'[x].run \in overlapped'
    BY <1>1 DEF Busy
  <2>5. QED
    BY <2>1, <2>2, <2>3, <2>4 DEF Busy
<1>6. Sure'
  BY <1>1, <1>2 DEF Sure
<1>7. WriterHeldByTurn'
  <2> SUFFICES ASSUME NEW t \in Threads, writers'[t] # None
               PROVE  \E x \in Requests : /\ req'[x].stage \in Working
                                          /\ req'[x].thread = t /\ req'[x].run = writers'[t]
    BY DEF WriterHeldByTurn, Working
  <2>1. PICK x \in Requests : req[x].stage \in Working /\ req[x].thread = t /\ req[x].run = writers[t]
    BY <1>1 DEF WriterHeldByTurn, Working
  <2>2. x # q
    BY <1>2, <2>1 DEF InHand
  <2>3. QED
    BY <2>1, <2>2
<1>8. QED
  BY <1>4, <1>5, <1>6, <1>7 DEF Pool

\* A turn enters its try block: on the runtime of its run, on the entry that it waited for, or
\* on the host that was made for it and is registered now.
LEMMA Enters ==
  ASSUME IInv, TypeOK', Shapes', overlapped \subseteq overlapped', NoneIsNone,
         NEW q \in Requests, NEW h \in Hosts, NEW t \in Threads,
         req[q].op = "turn", req[q].stage \notin Working,
         ~hosts[h].busy, writers[t] = None,
         req'[q].stage = "configure", req'[q].host = h, req'[q].thread = t,
         req'[q].run = req[q].run,
         \A x \in Requests : x # q => req'[x] = req[x],
         writers' = [writers EXCEPT ![t] = req[q].run],
         hosts'[h].busy, hosts'[h].state = hosts[h].state,
         \A x \in Hosts : x # h => hosts'[x] = hosts[x],
         \/ /\ runtimes' = runtimes
            /\ \/ runtimes[req[q].run] = h /\ req[q].host = None
               \/ req[q].stage = "busy" /\ req[q].host = h
         \/ /\ req[q].stage \in Owning /\ req[q].host = h
            /\ runtimes' = [runtimes EXCEPT ![req[q].run] = h]
  PROVE  Pool'
<1>1. /\ Shapes /\ Owned /\ Busy /\ Sure /\ WriterHeldByTurn /\ TypeOK /\ Overlaps
      /\ \A x \in Requests : Shape(req[x])
  BY DEF IInv, Pool, Shapes
<1>2. /\ req[q].run \in Runs /\ req[q].run # None
      /\ \A x \in Requests : req[x].stage \in InHand => req[x].host \in Hosts
      /\ \A x \in Requests : req[x].stage \in Working =>
            req[x].thread \in Threads /\ req[x].run \in Runs /\ req[x].op = "turn"
  BY <1>1, CallTypes, NoneIsNone DEF InHand, NoneIsNone, Shape
<1>3. /\ \A x \in Requests : req[x].host = h => req[x].run = req[q].run
      /\ \A x \in Requests : req[x].stage \in Owning /\ req[x].host = h => x = q
      /\ \A r \in Runs : runtimes[r] = h => r = req[q].run
  BY <1>1, <1>2, NoneIsNone DEF Owned, NoneIsNone, Owning
<1>4. \A x \in Requests : x # q /\ req[x].stage \in Working =>
         /\ req[x].host # h /\ (writers[req[x].thread] = req[x].run => req[x].thread # t)
         /\ req[x].run = req[q].run => req[q].run \in overlapped
  BY <1>1, <1>2, NoneIsNone DEF Busy, Overlaps, NoneIsNone
<1>5. \A r \in Runs : runtimes'[r] = runtimes[r] \/ (r = req[q].run /\ runtimes'[r] = h)
  BY <1>1 DEF TypeOK
<1>6. Owned'
  <2>1. \A r, x \in Runs : runtimes'[r] # None /\ runtimes'[r] = runtimes'[x] => r = x
    BY <1>1, <1>3, <1>5 DEF Owned
  <2>2. \A r \in Runs : runtimes'[r] # None => hosts'[runtimes'[r]].state # "none"
    <3> SUFFICES ASSUME NEW r \in Runs, runtimes'[r] # None PROVE hosts'[runtimes'[r]].state # "none"
      OBVIOUS
    <3>1. CASE runtimes'[r] = runtimes[r]
      <4>1. runtimes[r] \in Hosts /\ hosts[runtimes[r]].state # "none"
        BY <1>1, <3>1 DEF Owned, TypeOK
      <4>2. QED
        BY <3>1, <4>1
    <3>2. CASE runtimes'[r] # runtimes[r]
      <4>1. req[q].stage \in Owning /\ req[q].host = h /\ runtimes'[r] = h
        BY <1>5, <3>2
      <4>2. QED
        BY <1>1, <4>1 DEF Owned
    <3>3. QED
      BY <3>1, <3>2
  <2>3. \A p \in Requests : \A r \in Runs :
           req'[p].host # None /\ runtimes'[r] = req'[p].host => req'[p].run = r
    BY <1>1, <1>3, <1>5 DEF Owned
  <2>4. \A p, x \in Requests :
           req'[p].host # None /\ req'[p].host = req'[x].host => req'[p].run = req'[x].run
    BY <1>1, <1>3 DEF Owned
  <2>5. ASSUME NEW p \in Requests, req'[p].stage \in Owning
        PROVE  /\ hosts'[req'[p].host].state # "none"
               /\ \A r \in Runs : runtimes'[r] # req'[p].host
               /\ \A x \in Requests : req'[x].host = req'[p].host => x = p
    <3>1. p # q /\ req'[p] = req[p] /\ req[p].stage \in Owning
      BY <2>5 DEF Owning
    <3>2. /\ hosts[req[p].host].state # "none" /\ req[p].host \in Hosts /\ req[p].host # h
          /\ \A r \in Runs : runtimes[r] # req[p].host
          /\ \A x \in Requests : req[x].host = req[p].host => x = p
      BY <1>1, <1>2, <1>3, <3>1 DEF Owned, InHand
    <3>3. \A r \in Runs : runtimes'[r] # req[p].host
      BY <1>5, <3>2
    <3>4. \A x \in Requests : req'[x].host = req[p].host => x = p
      BY <3>2
    <3>5. hosts'[req[p].host] = hosts[req[p].host]
      BY <3>2
    <3>6. QED
      BY <3>1, <3>2, <3>3, <3>4, <3>5
  <2>6. QED
    BY <2>1, <2>2, <2>3, <2>4, <2>5 DEF Owned
<1>7. Busy'
  <2>1. \A x \in Requests : req'[x].stage \in Working => hosts'[req'[x].host].busy
    BY <1>1, <1>2, <1>4 DEF Busy, InHand
  <2>2. ASSUME NEW x \in Hosts, hosts'[x].busy
        PROVE  \E p \in Requests : req'[p].stage \in Working /\ req'[p].host = x
    <3>1. CASE x = h
      BY <3>1 DEF Working
    <3>2. CASE x # h
      <4>1. PICK p \in Requests : req[p].stage \in Working /\ req[p].host = x
        BY <1>1, <2>2, <3>2 DEF Busy
      <4>2. QED
        BY <4>1
    <3>3. QED
      BY <3>1, <3>2
  <2>3. \A p, x \in Requests :
           /\ req'[p].stage \in Working /\ req'[x].stage \in Working
           /\ req'[p].host = req'[x].host
           => p = x
    BY <1>1, <1>4 DEF Busy
  <2>4. \A x \in Requests : req'[x].stage = "busy" => req'[x].run \in overlapped'
    BY <1>1 DEF Busy
  <2>5. QED
    BY <2>1, <2>2, <2>3, <2>4 DEF Busy
<1>8. Sure'
  <2> SUFFICES ASSUME NEW x \in Requests, req'[x].stage \in Working, req'[x].run \notin overlapped'
               PROVE  writers'[req'[x].thread] = req'[x].run /\ runtimes'[req'[x].run] = req'[x].host
    BY DEF Sure
  <2>1. CASE x = q
    <3>1. writers'[t] = req[q].run
      BY <1>1 DEF TypeOK
    <3>2. req[q].stage # "busy"
      BY <1>1, <2>1 DEF Busy
    <3>3. runtimes'[req[q].run] = h
      BY <1>1, <1>2, <3>2 DEF TypeOK
    <3>4. QED
      BY <2>1, <3>1, <3>3
  <2>2. CASE x # q
    <3>1. /\ req[x].run # req[q].run /\ req[x].run \notin overlapped /\ req[x].stage \in Working
          /\ req'[x] = req[x]
      BY <1>4, <2>2
    <3>2. writers[req[x].thread] = req[x].run /\ runtimes[req[x].run] = req[x].host
      BY <1>1, <3>1 DEF Sure
    <3>3. req[x].thread # t /\ req[x].thread \in Threads /\ req[x].run \in Runs
      BY <1>2, <1>4, <2>2, <3>1, <3>2
    <3>4. writers'[req[x].thread] = writers[req[x].thread] /\ runtimes'[req[x].run] = runtimes[req[x].run]
      BY <1>1, <1>5, <3>1, <3>3 DEF TypeOK
    <3>5. QED
      BY <3>1, <3>2, <3>4
  <2>3. QED
    BY <2>1, <2>2
<1>9. WriterHeldByTurn'
  <2> SUFFICES ASSUME NEW u \in Threads, writers'[u] # None
               PROVE  \E x \in Requests : /\ req'[x].stage \in Working
                                          /\ req'[x].thread = u /\ req'[x].run = writers'[u]
    BY DEF WriterHeldByTurn, Working
  <2>1. CASE u = t
    <3>1. writers'[t] = req'[q].run
      BY <1>1 DEF TypeOK
    <3>2. QED
      BY <2>1, <3>1 DEF Working
  <2>2. CASE u # t
    <3>1. writers'[u] = writers[u]
      BY <1>1, <2>2 DEF TypeOK
    <3>2. PICK x \in Requests : req[x].stage \in Working /\ req[x].thread = u /\ req[x].run = writers[u]
      BY <1>1, <3>1 DEF WriterHeldByTurn, Working
    <3>3. x # q
      BY <3>2
    <3>4. QED
      BY <3>1, <3>2, <3>3
  <2>3. QED
    BY <2>1, <2>2
<1>10. QED
  BY <1>6, <1>7, <1>8, <1>9 DEF Pool

\* A call goes on outside of a try block: its host is attached and the registry is being
\* written, it registers the host and is over, or it finds the runtime of its run busy.
LEMMA Stays ==
  ASSUME IInv, TypeOK', Shapes', overlapped \subseteq overlapped', NoneIsNone,
         NEW q \in Requests,
         req[q].stage \notin Working, req'[q].stage \notin Working,
         \A x \in Requests : x # q => req'[x] = req[x],
         \A x \in Hosts : hosts'[x].busy = hosts[x].busy /\ hosts'[x].state = hosts[x].state,
         writers' = writers,
         \/ /\ runtimes' = runtimes /\ req[q].stage \in Owning /\ req'[q].stage = "persist"
            /\ req'[q].host = req[q].host /\ req'[q].run = req[q].run
         \/ /\ req'[q].host = None /\ req[q].stage \in Owning
            /\ runtimes' = [runtimes EXCEPT ![req[q].run] = req[q].host]
         \/ /\ runtimes' = runtimes /\ req[q].op = "turn"
            /\ req'[q].stage = "busy" /\ req'[q].run = req[q].run
            /\ req'[q].host = runtimes[req[q].run] /\ req'[q].host # None
            /\ hosts[req'[q].host].busy
  PROVE  Pool'
<1>1. /\ Shapes /\ Owned /\ Busy /\ Sure /\ WriterHeldByTurn /\ TypeOK /\ Overlaps
      /\ \A x \in Requests : Shape(req[x]) /\ Shape(req'[x])
  BY DEF IInv, Pool, Shapes
<1>2. /\ req[q].run \in Runs /\ req[q].run # None
      /\ \A x \in Requests : req[x].stage \in InHand => req[x].host \in Hosts
      /\ \A x \in Requests : req[x].stage \in Working =>
            req[x].thread \in Threads /\ req[x].run \in Runs /\ req[x].op = "turn"
      /\ req[q].op \in {"turn", "resume"}
  BY <1>1, CallTypes, NoneIsNone DEF InHand, NoneIsNone, Shape
<1>3. \A x \in Requests : x # q /\ req[x].stage \in Working /\ req[x].run = req[q].run
                          => req[q].run \in overlapped
  BY <1>1, <1>2 DEF Overlaps
<1>4. \A r \in Runs : runtimes'[r] = runtimes[r]
                      \/ (r = req[q].run /\ runtimes'[r] = req[q].host /\ req[q].stage \in Owning)
  BY <1>1 DEF TypeOK
<1>5. Owned'
  <2>1. ASSUME NEW r \in Runs, NEW x \in Runs, runtimes'[r] # None, runtimes'[r] = runtimes'[x]
        PROVE  r = x
    <3>1. req[q].stage \in Owning => \A y \in Runs : runtimes[y] # req[q].host
      BY <1>1 DEF Owned
    <3>2. QED
      BY <1>1, <1>4, <2>1, <3>1 DEF Owned
  <2>2. ASSUME NEW r \in Runs, runtimes'[r] # None PROVE hosts'[runtimes'[r]].state # "none"
    <3>1. runtimes'[r] \in Hosts
      BY <2>2 DEF TypeOK
    <3>2. hosts[runtimes'[r]].state # "none"
      BY <1>1, <1>4, <2>2 DEF Owned
    <3>3. QED
      BY <3>1, <3>2
  <2>3. ASSUME NEW p \in Requests, NEW r \in Runs, req'[p].host # None, runtimes'[r] = req'[p].host
        PROVE  req'[p].run = r
    <3>1. CASE p = q
      <4>1. CASE runtimes' = runtimes
        BY <1>1, <1>2, <2>3, <3>1, <4>1 DEF Owned
      <4>2. CASE runtimes' # runtimes
        BY <2>3, <3>1, <4>2
      <4>3. QED
        BY <4>1, <4>2
    <3>2. CASE p # q
      <4>1. req'[p] = req[p]
        BY <3>2
      <4>2. CASE runtimes'[r] = runtimes[r]
        BY <1>1, <2>3, <4>1, <4>2 DEF Owned
      <4>3. CASE runtimes'[r] # runtimes[r]
        BY <1>1, <1>4, <2>3, <3>2, <4>1, <4>3 DEF Owned
      <4>4. QED
        BY <4>2, <4>3
    <3>3. QED
      BY <3>1, <3>2
  <2>4. ASSUME NEW p \in Requests, NEW x \in Requests, req'[p].host # None, req'[p].host = req'[x].host
        PROVE  req'[p].run = req'[x].run
    <3>1. ASSUME NEW y \in Requests, NEW z \in Requests, y # q, req'[y].host # None,
                 req'[y].host = req'[z].host
          PROVE  req'[y].run = req'[z].run
      <4>1. CASE z # q
        BY <1>1, <3>1, <4>1 DEF Owned
      <4>2. CASE z = q /\ req'[q].host = req[q].host /\ req'[q].run = req[q].run
        BY <1>1, <3>1, <4>2 DEF Owned
      <4>3. CASE z = q /\ req'[q].host = runtimes[req[q].run] /\ req'[q].run = req[q].run
        BY <1>1, <1>2, <3>1, <4>3 DEF Owned
      <4>4. QED
        BY <3>1, <4>1, <4>2, <4>3
    <3>2. CASE p # q
      BY <2>4, <3>1, <3>2
    <3>3. CASE x # q
      BY <2>4, <3>1, <3>3
    <3>4. QED
      BY <3>2, <3>3
  <2>5. ASSUME NEW p \in Requests, req'[p].stage \in Owning
        PROVE  /\ hosts'[req'[p].host].state # "none"
               /\ \A r \in Runs : runtimes'[r] # req'[p].host
               /\ \A x \in Requests : req'[x].host = req'[p].host => x = p
    <3>1. /\ req[p].stage \in Owning /\ req'[p].host = req[p].host
          /\ p = q => runtimes' = runtimes
      BY <1>1, <2>5 DEF Owning, Shape, InHand
    <3>2. /\ hosts[req[p].host].state # "none" /\ req[p].host \in Hosts /\ req[p].host # None
          /\ \A r \in Runs : runtimes[r] # req[p].host
          /\ \A x \in Requests : req[x].host = req[p].host => x = p
      BY <1>1, <1>2, <3>1, NoneIsNone DEF Owned, InHand, NoneIsNone
    <3>3. \A r \in Runs : runtimes'[r] # req[p].host
      BY <1>4, <3>1, <3>2
    <3>4. \A x \in Requests : req'[x].host = req[p].host => x = p
      BY <1>2, <3>2
    <3>5. hosts'[req[p].host].state # "none"
      BY <3>2
    <3>6. QED
      BY <3>1, <3>3, <3>4, <3>5
  <2>6. QED
    BY <2>1, <2>2, <2>3, <2>4, <2>5 DEF Owned
<1>6. Busy'
  <2>1. \A x \in Requests : req'[x].stage \in Working => hosts'[req'[x].host].busy
    BY <1>1, <1>2 DEF Busy, InHand
  <2>2. ASSUME NEW x \in Hosts, hosts'[x].busy
        PROVE  \E p \in Requests : req'[p].stage \in Working /\ req'[p].host = x
    <3>1. PICK p \in Requests : req[p].stage \in Working /\ req[p].host = x
      BY <1>1, <2>2 DEF Busy
    <3>2. p # q
      BY <3>1
    <3>3. QED
      BY <3>1, <3>2
  <2>3. \A p, x \in Requests :
           /\ req'[p].stage \in Working /\ req'[x].stage \in Working
           /\ req'[p].host = req'[x].host
           => p = x
    BY <1>1 DEF Busy
  <2>4. ASSUME NEW x \in Requests, req'[x].stage = "busy" PROVE req'[x].run \in overlapped'
    <3>1. CASE x # q
      BY <1>1, <2>4, <3>1 DEF Busy
    <3>2. CASE x = q
      <4> DEFINE h == runtimes[req[q].run]
      <4>1. req'[q].host = h /\ h # None /\ hosts[h].busy /\ req'[q].run = req[q].run
        BY <1>1, <2>4, <3>2 DEF Owning, InHand, Shape
      <4>2. h \in Hosts
        BY <1>1, <1>2, <4>1 DEF TypeOK
      <4>3. PICK p \in Requests : req[p].stage \in Working /\ req[p].host = h
        BY <1>1, <4>1, <4>2 DEF Busy
      <4>4. req[p].run = req[q].run /\ p # q
        BY <1>1, <1>2, <4>1, <4>3 DEF Owned
      <4>5. QED
        BY <1>3, <3>2, <4>1, <4>3, <4>4
    <3>3. QED
      BY <3>1, <3>2
  <2>5. QED
    BY <2>1, <2>2, <2>3, <2>4 DEF Busy
<1>7. Sure'
  <2> SUFFICES ASSUME NEW x \in Requests, req'[x].stage \in Working, req'[x].run \notin overlapped'
               PROVE  writers'[req'[x].thread] = req'[x].run /\ runtimes'[req'[x].run] = req'[x].host
    BY DEF Sure
  <2>1. x # q /\ req'[x] = req[x] /\ req[x].run \notin overlapped /\ req[x].run # req[q].run
    BY <1>3
  <2>2. writers[req[x].thread] = req[x].run /\ runtimes[req[x].run] = req[x].host /\ req[x].run \in Runs
    BY <1>1, <1>2, <2>1 DEF Sure
  <2>3. QED
    BY <1>4, <2>1, <2>2
<1>8. WriterHeldByTurn'
  <2> SUFFICES ASSUME NEW t \in Threads, writers'[t] # None
               PROVE  \E x \in Requests : /\ req'[x].stage \in Working
                                          /\ req'[x].thread = t /\ req'[x].run = writers'[t]
    BY DEF WriterHeldByTurn, Working
  <2>1. PICK x \in Requests : req[x].stage \in Working /\ req[x].thread = t /\ req[x].run = writers[t]
    BY <1>1 DEF WriterHeldByTurn, Working
  <2>2. x # q
    BY <2>1
  <2>3. QED
    BY <2>1, <2>2
<1>9. QED
  BY <1>5, <1>6, <1>7, <1>8 DEF Pool

\* The runtime of the run reads for a call.
LEMMA Reads ==
  ASSUME IInv, TypeOK', Shapes', overlapped \subseteq overlapped', NoneIsNone,
         NEW q \in Requests, NEW r \in Runs,
         req[q].stage \notin Working, req'[q].stage = "read", req'[q].run = r,
         req'[q].host = runtimes[r], runtimes[r] # None,
         \A x \in Requests : x # q => req'[x] = req[x],
         \A x \in Hosts : /\ hosts'[x].busy = hosts[x].busy
                          /\ hosts[x].state # "none" => hosts'[x].state # "none",
         writers' = writers, runtimes' = runtimes
  PROVE  Pool'
<1>1. /\ Shapes /\ Owned /\ Busy /\ Sure /\ WriterHeldByTurn /\ TypeOK
      /\ \A x \in Requests : Shape(req[x]) /\ Shape(req'[x])
  BY DEF IInv, Pool, Shapes
<1>2. /\ \A x \in Requests : req[x].stage \in InHand => req[x].host \in Hosts
      /\ \A x \in Requests : req'[x].stage \in Working => x # q /\ req'[x] = req[x]
      /\ \A x \in Requests : req'[x].stage \in Owning => x # q /\ req'[x] = req[x]
      /\ runtimes[r] \in Hosts
  BY <1>1, CallTypes DEF Working, Owning, TypeOK
<1>3. Owned'
  <2>1. \A y, x \in Runs : runtimes'[y] # None /\ runtimes'[y] = runtimes'[x] => y = x
    BY <1>1 DEF Owned
  <2>2. ASSUME NEW y \in Runs, runtimes'[y] # None PROVE hosts'[runtimes'[y]].state # "none"
    <3>1. runtimes[y] \in Hosts /\ hosts[runtimes[y]].state # "none"
      BY <1>1, <2>2 DEF TypeOK, Owned
    <3>2. QED
      BY <3>1
  <2>3. \A p \in Requests : \A y \in Runs :
           req'[p].host # None /\ runtimes'[y] = req'[p].host => req'[p].run = y
    BY <1>1 DEF Owned
  <2>4. ASSUME NEW p \in Requests, NEW x \in Requests, req'[p].host # None, req'[p].host = req'[x].host
        PROVE  req'[p].run = req'[x].run
    <3>1. CASE p = q /\ x # q
      BY <1>1, <2>4, <3>1 DEF Owned
    <3>2. CASE p # q /\ x = q
      BY <1>1, <2>4, <3>2 DEF Owned
    <3>3. CASE p # q /\ x # q
      BY <1>1, <2>4, <3>3 DEF Owned
    <3>4. QED
      BY <3>1, <3>2, <3>3
  <2>5. ASSUME NEW p \in Requests, req'[p].stage \in Owning
        PROVE  /\ hosts'[req'[p].host].state # "none"
               /\ \A y \in Runs : runtimes'[y] # req'[p].host
               /\ \A x \in Requests : req'[x].host = req'[p].host => x = p
    <3>1. p # q /\ req'[p] = req[p] /\ req[p].host \in Hosts
      BY <1>2, <2>5 DEF InHand
    <3>2. /\ hosts[req[p].host].state # "none"
          /\ \A y \in Runs : runtimes[y] # req[p].host
          /\ \A x \in Requests : req[x].host = req[p].host => x = p
      BY <1>1, <2>5, <3>1 DEF Owned
    <3>3. \A x \in Requests : req'[x].host = req[p].host => x = p
      BY <3>2
    <3>4. QED
      BY <3>1, <3>2, <3>3
  <2>6. QED
    BY <2>1, <2>2, <2>3, <2>4, <2>5 DEF Owned
<1>4. Busy'
  <2>1. \A x \in Requests : req'[x].stage \in Working => hosts'[req'[x].host].busy
    BY <1>1, <1>2 DEF Busy, InHand
  <2>2. ASSUME NEW x \in Hosts, hosts'[x].busy
        PROVE  \E p \in Requests : req'[p].stage \in Working /\ req'[p].host = x
    <3>1. PICK p \in Requests : req[p].stage \in Working /\ req[p].host = x
      BY <1>1, <2>2 DEF Busy
    <3>2. p # q
      BY <3>1
    <3>3. QED
      BY <3>1, <3>2
  <2>3. \A p, x \in Requests :
           /\ req'[p].stage \in Working /\ req'[x].stage \in Working
           /\ req'[p].host = req'[x].host
           => p = x
    BY <1>1, <1>2 DEF Busy
  <2>4. ASSUME NEW x \in Requests, req'[x].stage = "busy" PROVE req'[x].run \in overlapped'
    BY <1>1, <2>4 DEF Busy
  <2>5. QED
    BY <2>1, <2>2, <2>3, <2>4 DEF Busy
<1>5. Sure'
  BY <1>1, <1>2 DEF Sure
<1>6. WriterHeldByTurn'
  <2> SUFFICES ASSUME NEW t \in Threads, writers'[t] # None
               PROVE  \E x \in Requests : /\ req'[x].stage \in Working
                                          /\ req'[x].thread = t /\ req'[x].run = writers'[t]
    BY DEF WriterHeldByTurn, Working
  <2>1. PICK x \in Requests : req[x].stage \in Working /\ req[x].thread = t /\ req[x].run = writers[t]
    BY <1>1 DEF WriterHeldByTurn, Working
  <2>2. x # q
    BY <2>1
  <2>3. QED
    BY <2>1, <2>2
<1>7. QED
  BY <1>1, <1>3, <1>4, <1>5, <1>6 DEF Pool

\* A turn begins on its host, which is up (again).
LEMMA Begins ==
  ASSUME IInv, Shapes', overlapped \subseteq overlapped', NoneIsNone,
         NEW q \in Requests,
         req[q].stage = "configure", req'[q].stage = "turn", req'[q].host = req[q].host,
         req'[q].run = req[q].run, req'[q].thread = req[q].thread,
         \A x \in Requests : x # q => req'[x] = req[x],
         \A x \in Hosts : hosts'[x].busy = hosts[x].busy
                          /\ (hosts'[x].state # "none" \/ hosts[x].state = "none"),
         writers' = writers, runtimes' = runtimes
  PROVE  Pool'
<1>1. /\ Shapes /\ Owned /\ Busy /\ Sure /\ WriterHeldByTurn /\ TypeOK
      /\ \A x \in Requests : req[x].stage \in InHand => req[x].host \in Hosts
  BY CallTypes DEF IInv, Pool
<1>2. /\ \A x \in Requests : req'[x].host = req[x].host /\ req'[x].run = req[x].run
                             /\ req'[x].thread = req[x].thread
      /\ \A x \in Requests : req'[x].stage \in Working <=> req[x].stage \in Working
      /\ \A x \in Requests : req'[x].stage \in Owning => req[x].stage \in Owning
      /\ \A x \in Requests : req'[x].stage = "busy" => req[x].stage = "busy"
  BY DEF Working, Owning
<1>3. Owned'
  <2>1. \A r \in Runs : runtimes'[r] # None => hosts'[runtimes'[r]].state # "none"
    BY <1>1 DEF Owned, TypeOK
  <2>2. \A p \in Requests : req'[p].stage \in Owning =>
           /\ hosts'[req'[p].host].state # "none"
           /\ \A r \in Runs : runtimes'[r] # req'[p].host
           /\ \A x \in Requests : req'[x].host = req'[p].host => x = p
    BY <1>1, <1>2 DEF Owned, InHand
  <2>3. /\ \A r, x \in Runs : runtimes'[r] # None /\ runtimes'[r] = runtimes'[x] => r = x
        /\ \A p \in Requests : \A r \in Runs :
              req'[p].host # None /\ runtimes'[r] = req'[p].host => req'[p].run = r
        /\ \A p, x \in Requests :
              req'[p].host # None /\ req'[p].host = req'[x].host => req'[p].run = req'[x].run
    BY <1>1, <1>2 DEF Owned
  <2>4. QED
    BY <2>1, <2>2, <2>3 DEF Owned
<1>4. Busy'
  <2>1. \A x \in Requests : req'[x].stage \in Working => hosts'[req'[x].host].busy
    BY <1>1, <1>2 DEF Busy, InHand
  <2>2. \A h \in Hosts : hosts'[h].busy =>
           \E x \in Requests : req'[x].stage \in Working /\ req'[x].host = h
    BY <1>1, <1>2 DEF Busy
  <2>3. /\ \A p, x \in Requests :
              /\ req'[p].stage \in Working /\ req'[x].stage \in Working
              /\ req'[p].host = req'[x].host
              => p = x
        /\ \A x \in Requests : req'[x].stage = "busy" => req'[x].run \in overlapped'
    BY <1>1, <1>2 DEF Busy
  <2>4. QED
    BY <2>1, <2>2, <2>3 DEF Busy
<1>5. Sure'
  BY <1>1, <1>2 DEF Sure
<1>6. WriterHeldByTurn'
  BY <1>1, <1>2 DEF WriterHeldByTurn, Working
<1>7. QED
  BY <1>3, <1>4, <1>5, <1>6 DEF Pool

-----------------------------------------------------------------------------
(* The parts of the actions.                                               *)

\* The history grows by runs.
History == overlapped \subseteq overlapped' /\ overlapped' \subseteq Runs

\* The state that has nothing to do with hosts and writers.
Others ==
    /\ daemonRun' \in [Runs -> {"running", "terminal"}]
    /\ bindings' \in Bindings /\ file' \in Bindings /\ queue' \in Seq(Write)
    /\ native' \in [Threads -> {"unborn", "stored", "deleted"}]
    /\ skillDir' \subseteq Runs
    /\ releasing' \subseteq [run : Runs, by : Requests \cup {None}]
    /\ polls' \in [Runs -> 0..MaxPolls]
    /\ cancelled' \subseteq Runs
    /\ calls' \in 0..MaxCalls
    /\ faults' \in 0..MaxFaults
PoolTypes ==
    /\ runtimes' \in [Runs -> Hosts \cup {None}]
    /\ usedBefore' \subseteq Hosts \X Hosts
    /\ writers' \in [Threads -> Runs \cup {None}]
    /\ hosts' \in [Hosts -> Host]
    /\ nwriter' \in [Threads -> Hosts \cup {None, Lingering}]
    /\ req' \in [Requests -> Call]

\* The types, in two parts.
LEMMA Typed ==
  ASSUME Others, PoolTypes, History
  PROVE  TypeOK'
BY DEF Others, PoolTypes, History, TypeOK, Bindings, Write, Call

\* The types of the state before a step, conjunct by conjunct.
LEMMA OthersSame ==
  ASSUME TypeOK
  PROVE  /\ daemonRun \in [Runs -> {"running", "terminal"}]
         /\ bindings \in Bindings /\ file \in Bindings /\ queue \in Seq(Write)
         /\ native \in [Threads -> {"unborn", "stored", "deleted"}]
         /\ skillDir \subseteq Runs
         /\ releasing \subseteq [run : Runs, by : Requests \cup {None}]
         /\ polls \in [Runs -> 0..MaxPolls]
         /\ cancelled \subseteq Runs
         /\ calls \in 0..MaxCalls
         /\ faults \in 0..MaxFaults
         /\ runtimes \in [Runs -> Hosts \cup {None}]
         /\ usedBefore \subseteq Hosts \X Hosts
         /\ writers \in [Threads -> Runs \cup {None}]
         /\ hosts \in [Hosts -> Host]
         /\ nwriter \in [Threads -> Hosts \cup {None, Lingering}]
         /\ req \in [Requests -> Call]
BY DEF TypeOK, Bindings, Write, Call

\* A counter below its bound stays within it.
LEMMA Counts ==
  ASSUME TypeOK, Bounds
  PROVE  /\ calls < MaxCalls => calls + 1 \in 0..MaxCalls
         /\ faults < MaxFaults => faults + 1 \in 0..MaxFaults
BY DEF TypeOK, Bounds

\* One call changes.
LEMMA Moves ==
  ASSUME TypeOK, Shapes, NEW q \in Requests, NEW c \in Call, Shape(c),
         req' = [req EXCEPT ![q] = c]
  PROVE  /\ req' \in [Requests -> Call] /\ Shapes' /\ req'[q] = c
         /\ \A x \in Requests : x # q => req'[x] = req[x]
<1>1. /\ req' \in [Requests -> Call] /\ req'[q] = c
      /\ \A x \in Requests : x # q => req'[x] = req[x]
  BY OthersSame
<1>2. QED
  BY <1>1 DEF Shapes

\* Another shape of one call.
LEMMA Goes ==
  ASSUME Shapes, NEW q \in Requests, Shape(req'[q]), \A x \in Requests : x # q => req'[x] = req[x]
  PROVE  Shapes'
BY DEF Shapes

\* The call ends, or fails.
LEMMA Ends ==
  ASSUME TypeOK, Shapes, NEW q \in Requests, req' = [req EXCEPT ![q] = NoCall]
  PROVE  /\ req' \in [Requests -> Call] /\ Shapes' /\ req'[q] = NoCall
         /\ \A x \in Requests : x # q => req'[x] = req[x]
BY Moves, NoCallTypes

\* What the pool does for a turn that has an entry.
LEMMA Uses ==
  ASSUME TypeOK, Shapes, NoneIsNone, NEW q \in Requests, NEW h \in Hosts, NEW t \in Threads,
         NEW hs \in [Hosts -> Host], req[q].op = "turn", UseEntry(q, h, t, hs)
  PROVE  /\ req' \in [Requests -> Call] /\ Shapes'
         /\ writers' \in [Threads -> Runs \cup {None}] /\ hosts' \in [Hosts -> Host]
         /\ usedBefore' \subseteq Hosts \X Hosts
         /\ \A x \in Requests : x # q => req'[x] = req[x]
         /\ \/ /\ ~hs[h].busy /\ writers[t] = None
               /\ req'[q].stage = "configure" /\ req'[q].run = req[q].run
               /\ req'[q].thread = t /\ req'[q].host = h
               /\ writers' = [writers EXCEPT ![t] = req[q].run]
               /\ hosts'[h].busy /\ hosts'[h].state = hs[h].state
               /\ \A x \in Hosts : x # h => hosts'[x] = hs[x]
            \/ /\ hs[h].busy /\ hosts' = hs /\ writers' = writers
               /\ req'[q].stage = "busy" /\ req'[q].run = req[q].run /\ req'[q].host = h
            \/ /\ ~hs[h].busy /\ hosts' = hs /\ writers' = writers /\ req'[q] = NoCall
<1>1. /\ req[q].run \in Runs /\ "configure" \in Stages /\ "busy" \in Stages
      /\ h # None /\ t # None /\ req[q].run # None
  BY CallTypes, NoneIsNone DEF Stages, NoneIsNone
<1>2. req \in [Requests -> Call] /\ req[q] \in Call
  BY OthersSame
<1>3. CASE AcquireThreadWriter(q, h, t, writers, hs)
  <2>1. req' = [req EXCEPT ![q].stage = "configure", ![q].thread = t, ![q].host = h]
    BY <1>3 DEF AcquireThreadWriter
  <2>7. /\ req'[q].op = req[q].op /\ req'[q].stage = "configure" /\ req'[q].run = req[q].run
        /\ req'[q].thread = t /\ req'[q].host = h
        /\ \A x \in Requests : x # q => req'[x] = req[x]
    BY <1>2, <2>1 DEF Call
  <2>8. req' \in [Requests -> Call]
    BY <1>1, <1>2, <2>1 DEF Call
  <2>9. Shape(req'[q])
    BY <1>1, <2>7 DEF Shape, InHand, Owning, Working
  <2>2. /\ req' \in [Requests -> Call] /\ Shapes'
        /\ req'[q].stage = "configure" /\ req'[q].run = req[q].run
        /\ req'[q].thread = t /\ req'[q].host = h
        /\ \A x \in Requests : x # q => req'[x] = req[x]
    BY <2>7, <2>8, <2>9, Goes
  <2>3. writers' \in [Threads -> Runs \cup {None}] /\ writers' = [writers EXCEPT ![t] = req[q].run]
    BY <1>1, <1>3, OthersSame DEF AcquireThreadWriter
  <2>4. /\ hosts' \in [Hosts -> Host] /\ hosts'[h].busy /\ hosts'[h].state = hs[h].state
        /\ \A x \in Hosts : x # h => hosts'[x] = hs[x]
    BY <1>3 DEF AcquireThreadWriter, Host
  <2>5. usedBefore' \subseteq Hosts \X Hosts
    BY <1>3, UseTypes DEF AcquireThreadWriter
  <2>6. QED
    BY <1>3, <2>2, <2>3, <2>4, <2>5 DEF AcquireThreadWriter
<1>4. CASE /\ hs[h].busy
           /\ req' = [req EXCEPT ![q].stage = "busy", ![q].thread = t, ![q].host = h]
           /\ hosts' = hs /\ usedBefore' = Tracked(h) /\ UNCHANGED writers
  <2>1. /\ req' \in [Requests -> Call] /\ Shapes'
        /\ req'[q].stage = "busy" /\ req'[q].run = req[q].run /\ req'[q].host = h
        /\ \A x \in Requests : x # q => req'[x] = req[x]
    <3>1. req' = [req EXCEPT ![q].stage = "busy", ![q].thread = t, ![q].host = h]
      BY <1>4
    <3>2. /\ req'[q].op = req[q].op /\ req'[q].stage = "busy" /\ req'[q].run = req[q].run
          /\ req'[q].thread = t /\ req'[q].host = h
          /\ \A x \in Requests : x # q => req'[x] = req[x]
      BY <1>2, <3>1 DEF Call
    <3>3. req' \in [Requests -> Call]
      BY <1>1, <1>2, <3>1 DEF Call
    <3>4. Shape(req'[q])
      BY <1>1, <3>2 DEF Shape, InHand, Owning, Working
    <3>5. QED
      BY <3>2, <3>3, <3>4, Goes
  <2>2. usedBefore' \subseteq Hosts \X Hosts
    BY <1>4, UseTypes
  <2>3. QED
    BY <1>4, <2>1, <2>2, OthersSame
<1>5. CASE /\ ~hs[h].busy /\ writers[t] # None /\ req' = [req EXCEPT ![q] = NoCall]
           /\ hosts' = hs /\ usedBefore' = Tracked(h) /\ UNCHANGED writers
  <2>1. usedBefore' \subseteq Hosts \X Hosts
    BY <1>5, UseTypes
  <2>2. QED
    BY <1>5, <2>1, Ends, OthersSame
<1>6. QED
  BY <1>3, <1>4, <1>5 DEF UseEntry

\* A host is made for a call.
LEMMA Makes ==
  ASSUME IInv, NoneIsNone, History, NEW q \in Requests, NEW t \in Threads \cup {None},
         req[q].op \in {"turn", "resume"}, req[q].op = "resume" => t # None, req[q].host = None,
         NewHost(q, t)
  PROVE  /\ req' \in [Requests -> Call] /\ hosts' \in [Hosts -> Host]
         /\ runtimes' = runtimes /\ writers' = writers => Pool'
<1>1. TypeOK /\ Shapes
  BY DEF IInv, Pool
<1>2. PICK h \in Hosts :
         /\ hosts[h].state = "none"
         /\ \A x \in Requests : req[x].host # h
         /\ hosts' = [hosts EXCEPT ![h] = [NoHost EXCEPT !.state = "live"]]
         /\ req' = [req EXCEPT ![q].stage = "attach", ![q].thread = t, ![q].host = h]
  BY DEF NewHost
<1>3. /\ req[q].run \in Runs /\ req[q].run # None /\ "attach" \in Stages /\ h # None
  BY <1>1, CallTypes, NoneIsNone DEF Stages, NoneIsNone
<1>4. req' = [req EXCEPT ![q].stage = "attach", ![q].thread = t, ![q].host = h]
  BY <1>2
<1>5. req \in [Requests -> Call] /\ req[q] \in Call
  BY <1>1, OthersSame
<1>6. /\ req' \in [Requests -> Call] /\ Shapes'
      /\ req'[q].stage = "attach" /\ req'[q].host = h
      /\ \A x \in Requests : x # q => req'[x] = req[x]
  <2>1. /\ req'[q].op = req[q].op /\ req'[q].stage = "attach" /\ req'[q].run = req[q].run
        /\ req'[q].thread = t /\ req'[q].host = h
        /\ \A x \in Requests : x # q => req'[x] = req[x]
    BY <1>4, <1>5 DEF Call
  <2>2. req' \in [Requests -> Call]
    BY <1>3, <1>4, <1>5 DEF Call
  <2>3. Shape(req'[q])
    BY <1>3, <2>1 DEF Shape, InHand, Owning, Working
  <2>4. QED
    BY <1>1, <2>1, <2>2, <2>3, Goes
<1>7. /\ hosts' \in [Hosts -> Host] /\ hosts'[h].state # "none" /\ ~hosts'[h].busy
      /\ \A x \in Hosts : x # h => hosts'[x] = hosts[x]
  <2> DEFINE new == [NoHost EXCEPT !.state = "live"]
  <2>1. new \in Host /\ new.state # "none" /\ ~new.busy
    BY HostTypes DEF Host
  <2>2. hosts \in [Hosts -> Host] /\ hosts' = [hosts EXCEPT ![h] = new]
    BY <1>1, <1>2, OthersSame
  <2> HIDE DEF new
  <2>3. QED
    BY <2>1, <2>2
<1>8. ASSUME runtimes' = runtimes, writers' = writers PROVE Pool'
  <2>1. overlapped \subseteq overlapped'
    BY DEF History
  <2>2. QED
    BY <1>2, <1>6, <1>7, <1>8, <2>1, Fresh
<1>9. QED
  BY <1>6, <1>7, <1>8

\* Room in the pool: a new host, an idle entry that goes, or an error.
LEMMA Capacity ==
  ASSUME IInv, NoneIsNone, History, NEW q \in Requests, NEW t \in Threads \cup {None},
         req[q].op \in {"turn", "resume"}, req[q].op = "resume" => t # None, req[q].host = None,
         MakeCapacity(q, t)
  PROVE  PoolTypes /\ (TypeOK' => Pool')
<1> DEFINE idle == {h \in Registered : ~hosts[h].busy}
<1>1. TypeOK /\ Shapes /\ Owned /\ Busy /\ Sure /\ overlapped \subseteq overlapped'
  BY DEF IInv, Pool, History
<1>2. req \in [Requests -> Call] /\ req[q] \in Call /\ req[q].run \in Runs /\ req[q].run # None
  BY <1>1, OthersSame, CallTypes, NoneIsNone DEF NoneIsNone
<1>3. CASE NewHost(q, t) /\ UNCHANGED <<runtimes, usedBefore, writers, nwriter>>
  <2>1. req' \in [Requests -> Call] /\ hosts' \in [Hosts -> Host] /\ Pool'
    BY <1>3, Makes
  <2>2. QED
    BY <1>1, <1>3, <2>1, OthersSame DEF PoolTypes
<1>4. CASE /\ \E h \in idle, r \in Runs :
                 /\ runtimes[r] = h
                 /\ \A x \in idle : <<x, h>> \notin usedBefore
                 /\ runtimes' = [runtimes EXCEPT ![r] = None]
                 /\ writers' = ReleaseThreadWriter(writers, hosts[h].thread, r)
                 /\ ShutDown({h})
           /\ req' = [req EXCEPT ![q].stage = "evict", ![q].thread = t]
  <2>1. PICK h \in idle : \E r \in Runs :
                 /\ runtimes[r] = h
                 /\ runtimes' = [runtimes EXCEPT ![r] = None]
                 /\ writers' = ReleaseThreadWriter(writers, hosts[h].thread, r)
                 /\ ShutDown({h})
    BY <1>4
  <2>2. PICK r \in Runs :
                 /\ runtimes[r] = h
                 /\ runtimes' = [runtimes EXCEPT ![r] = None]
                 /\ writers' = ReleaseThreadWriter(writers, hosts[h].thread, r)
                 /\ ShutDown({h})
    BY <2>1
  <2>3. h \in Hosts /\ ~hosts[h].busy
    BY <1>1 DEF Registered, TypeOK
  <2>4. /\ req'[q].op = req[q].op /\ req'[q].stage = "evict" /\ req'[q].run = req[q].run
        /\ req'[q].thread = t /\ req'[q].host = None
        /\ \A x \in Requests : x # q => req'[x] = req[x]
    <3>1. req' = [req EXCEPT ![q].stage = "evict", ![q].thread = t]
      BY <1>4
    <3>2. QED
      BY <1>2, <3>1 DEF Call
  <2>5. req' \in [Requests -> Call]
    <3>1. req' = [req EXCEPT ![q].stage = "evict", ![q].thread = t] /\ "evict" \in Stages
      BY <1>4 DEF Stages
    <3>2. QED
      BY <1>2, <3>1 DEF Call
  <2>6. Shapes'
    <3>1. Shape(req'[q])
      BY <1>2, <2>4 DEF Shape, InHand, Owning, Working
    <3>2. QED
      BY <1>1, <2>4, <3>1, Goes
  <2>7. /\ hosts' \in [Hosts -> Host] /\ nwriter' \in [Threads -> Hosts \cup {None, Lingering}]
        /\ usedBefore' \subseteq Hosts \X Hosts
        /\ \A x \in Hosts : hosts'[x] = IF x = h THEN NoHost ELSE hosts[x]
    BY <1>1, <2>2, ShutDownTypes
  <2>8. /\ writers' \in [Threads -> Runs \cup {None}]
        /\ \A u \in Threads : writers'[u] \in {writers[u], None}
                              /\ (writers[u] # r => writers'[u] = writers[u])
    BY <1>1, <2>2, ReleaseTypes, OthersSame
  <2>9. /\ runtimes' \in [Runs -> Hosts \cup {None}]
        /\ \A x \in Runs : runtimes'[x] = IF x = r THEN None ELSE runtimes[x]
    BY <1>1, <2>2, OthersSame
  <2>10. PoolTypes
    BY <2>5, <2>7, <2>8, <2>9 DEF PoolTypes
  <2>11. /\ req[q].stage \notin Working
         /\ \A x \in Requests : req'[x].stage \in InHand => x # q /\ req'[x] = req[x]
    <3>1. Shape(req[q])
      BY <1>1 DEF Shapes
    <3>2. QED
      BY <2>4, <3>1 DEF Shape, InHand, Owning, Working
  <2>12. \A x \in Requests : req[x].stage \in Working => req[x].host # h
    BY <1>1, <2>3 DEF Busy
  <2>13. /\ \A x \in Runs : runtimes'[x] # h
         /\ \A x \in Requests : req[x].stage \in Owning => req[x].host # h
    BY <1>1, <2>2, <2>3, <2>9, NoneIsNone DEF Owned, NoneIsNone
  <2>14. \A x \in Hosts :
            \/ hosts'[x] = hosts[x]
            \/ /\ ~hosts'[x].busy
               /\ \A p \in Requests : req'[p].stage \in Working => req'[p].host # x
               /\ \A y \in Runs : runtimes'[y] # x
               /\ \A p \in Requests : req'[p].stage \in Owning => req'[p].host # x
    BY <2>7, <2>11, <2>12, <2>13, HostTypes DEF InHand
  <2>15. ASSUME NEW p \in Requests, req[p].stage \in Working, req[p].run \notin overlapped
         PROVE  /\ writers'[req[p].thread] = writers[req[p].thread]
                /\ runtimes'[req[p].run] = runtimes[req[p].run]
    <3>1. writers[req[p].thread] = req[p].run /\ runtimes[req[p].run] = req[p].host
      BY <1>1, <2>15 DEF Sure
    <3>2. req[p].thread \in Threads /\ req[p].run \in Runs /\ req[p].run # r
      BY <1>1, <2>2, <2>12, <2>15, <3>1, CallTypes DEF InHand
    <3>3. QED
      BY <2>8, <2>9, <3>1, <3>2
  <2>16. /\ \A x \in Requests : req'[x] = req[x] \/ req'[x].host = None
         /\ \A x \in Requests : req[x].stage \in Working => req'[x] = req[x]
    BY <2>4, <2>11
  <2>17. ASSUME TypeOK' PROVE Pool'
    BY <1>1, <2>6, <2>8, <2>9, <2>14, <2>15, <2>16, <2>17, NoneIsNone, Releases
  <2>18. QED
    BY <2>10, <2>17
<1>5. CASE /\ req' = [req EXCEPT ![q] = NoCall]
           /\ UNCHANGED <<runtimes, usedBefore, writers, hosts, nwriter>>
  <2>1. /\ req' \in [Requests -> Call] /\ Shapes' /\ req'[q] = NoCall
        /\ \A x \in Requests : x # q => req'[x] = req[x]
    BY <1>1, <1>5, Ends
  <2>2. PoolTypes
    BY <1>1, <1>5, <2>1, OthersSame DEF PoolTypes
  <2>3. req[q].stage \notin Working
    BY <1>1 DEF Shapes, Shape, InHand
  <2>4. ASSUME TypeOK' PROVE Pool'
    BY <1>1, <1>5, <2>1, <2>3, <2>4, NoneIsNone, NoCallTypes, Releases
  <2>5. QED
    BY <2>2, <2>4
<1>6. QED
  BY <1>3, <1>4, <1>5 DEF MakeCapacity

-----------------------------------------------------------------------------
(* Every action keeps the invariant.                                       *)

\* Nothing happens to a host or a writer.
LEMMA Aside ==
  ASSUME IInv, NoneIsNone, History, TypeOK', Shapes', UNCHANGED <<runtimes, writers, hosts>>,
         \A x \in Requests : req'[x] = req[x] \/ (req'[x].host = None /\ req[x].stage \notin Working)
  PROVE  Pool'
BY Releases DEF History

\* One call goes to another stage.
LEMMA Restages ==
  ASSUME TypeOK, NEW q \in Requests, NEW s \in Stages, req' = [req EXCEPT ![q].stage = s]
  PROVE  /\ req' \in [Requests -> Call]
         /\ req'[q].op = req[q].op /\ req'[q].stage = s /\ req'[q].run = req[q].run
         /\ req'[q].thread = req[q].thread /\ req'[q].host = req[q].host
         /\ \A x \in Requests : x # q => req'[x] = req[x]
<1>1. req \in [Requests -> Call] /\ req[q] \in Call
  BY OthersSame
<1>2. QED
  BY <1>1 DEF Call

\* One call goes on, with no host in hand.
LEMMA CallAside ==
  ASSUME IInv, NoneIsNone, Bounds, History, NEW q \in Requests, req[q].stage \notin Working,
         req' \in [Requests -> Call], Shape(req'[q]), req'[q].host = None,
         \A x \in Requests : x # q => req'[x] = req[x],
         UNCHANGED <<runtimes, usedBefore, writers, hosts, nwriter>>, Others
  PROVE  TypeOK' /\ Pool'
<1>1. TypeOK /\ Shapes
  BY DEF IInv, Pool
<1>2. Shapes'
  BY <1>1, Goes
<1>3. PoolTypes
  BY <1>1, OthersSame DEF PoolTypes
<1>4. TypeOK'
  BY <1>3, Typed
<1>5. QED
  BY <1>2, <1>4, Aside

\* A call that ends without a host.
LEMMA EndsAside ==
  ASSUME IInv, NoneIsNone, Bounds, History, NEW q \in Requests, req[q].stage \notin Working,
         req' = [req EXCEPT ![q] = NoCall],
         UNCHANGED <<runtimes, usedBefore, writers, hosts, nwriter>>, Others
  PROVE  TypeOK' /\ Pool'
<1>1. TypeOK /\ Shapes
  BY DEF IInv, Pool
<1>2. /\ req' \in [Requests -> Call] /\ Shapes' /\ req'[q].host = None
      /\ \A x \in Requests : x # q => req'[x] = req[x]
  BY <1>1, Ends, NoCallTypes
<1>3. PoolTypes
  BY <1>1, <1>2, OthersSame DEF PoolTypes
<1>4. TypeOK'
  BY <1>3, Typed
<1>5. QED
  BY <1>2, <1>4, Aside

\* What happens outside of the calls and the pool.
LEMMA NoneMoves ==
  ASSUME IInv, NoneIsNone, History, Others, UNCHANGED <<runtimes, usedBefore, writers, hosts, req>>,
         nwriter' \in [Threads -> Hosts \cup {None, Lingering}]
  PROVE  TypeOK' /\ Pool'
<1>1. TypeOK /\ Shapes
  BY DEF IInv, Pool
<1>2. PoolTypes
  BY <1>1, OthersSame DEF PoolTypes
<1>3. TypeOK' /\ Shapes'
  BY <1>1, <1>2, Typed DEF Shapes
<1>4. QED
  BY <1>3, Aside

\* CodexHarnessRuntime.run opens a call and touches nothing else.
LEMMA RunKept ==
  ASSUME IInv, NoneIsNone, Bounds, History, NEW q \in Requests, NEW r \in Runs, Run(q, r)
  PROVE  TypeOK' /\ Pool'
<1> DEFINE c == [NoCall EXCEPT !.op = "turn", !.stage = "loaded", !.run = r]
<1>1. TypeOK /\ Shapes /\ req[q].stage \notin Working
  BY NoCallTypes DEF IInv, Pool, Run, Working
<1>2. c \in Call /\ Shape(c) /\ c.host = None
  <2>1. /\ c.op = "turn" /\ c.stage = "loaded" /\ c.run = r /\ c.thread = None /\ c.host = None
        /\ c \in Call
    <3>1. "turn" \in Ops /\ "loaded" \in Stages
      BY DEF Ops, Stages
    <3>2. QED
      BY <3>1, NoCallTypes DEF Call
  <2>2. Shape(c)
    BY <2>1, NoneIsNone DEF Shape, InHand, Owning, Working, NoneIsNone
  <2>3. QED
    BY <2>1, <2>2
<1>3. req' = [req EXCEPT ![q] = c]
  BY DEF Run
<1> HIDE DEF c
<1>4. /\ req' \in [Requests -> Call] /\ Shapes' /\ req'[q] = c
      /\ \A x \in Requests : x # q => req'[x] = req[x]
  BY <1>1, <1>2, <1>3, Moves
<1>5. Others
  BY <1>1, OthersSame, Counts DEF Run, Others
<1>6. PoolTypes
  BY <1>1, <1>4, OthersSame DEF Run, PoolTypes
<1>7. TypeOK'
  BY <1>5, <1>6, Typed
<1>8. UNCHANGED <<runtimes, writers, hosts>>
  BY DEF Run
<1>9. QED
  BY <1>1, <1>2, <1>4, <1>7, <1>8, Aside

\* CodexHarnessRuntime.resumeConversation opens a call and touches nothing else.
LEMMA AskResumeKept ==
  ASSUME IInv, NoneIsNone, Bounds, History, NEW q \in Requests, NEW r \in Runs, NEW t \in Threads, AskResume(q, r, t)
  PROVE  TypeOK' /\ Pool'
<1> DEFINE c == [op |-> "resume", stage |-> "asked", run |-> r, thread |-> t, host |-> None]
<1>1. TypeOK /\ Shapes /\ req[q].stage \notin Working
  BY NoCallTypes DEF IInv, Pool, AskResume, Working
<1>2. c \in Call /\ Shape(c) /\ c.host = None
  <2>1. r # None /\ t # None
    BY NoneIsNone DEF NoneIsNone
  <2>2. c \in Call
    BY DEF Call, Ops, Stages
  <2>3. Shape(c)
    BY <2>1 DEF Shape, InHand, Owning, Working
  <2>4. QED
    BY <2>2, <2>3
<1>3. req' = [req EXCEPT ![q] = c]
  BY DEF AskResume
<1> HIDE DEF c
<1>4. /\ req' \in [Requests -> Call] /\ Shapes' /\ req'[q] = c
      /\ \A x \in Requests : x # q => req'[x] = req[x]
  BY <1>1, <1>2, <1>3, Moves
<1>5. Others
  BY <1>1, OthersSame, Counts DEF AskResume, Others
<1>6. PoolTypes
  BY <1>1, <1>4, OthersSame DEF AskResume, PoolTypes
<1>7. TypeOK'
  BY <1>5, <1>6, Typed
<1>8. UNCHANGED <<runtimes, writers, hosts>>
  BY DEF AskResume
<1>9. QED
  BY <1>1, <1>2, <1>4, <1>7, <1>8, Aside

\* CodexRuntimePool.conversation opens a call, which reads on the warm host or on one of its own.
LEMMA ConversationKept ==
  ASSUME IInv, NoneIsNone, Bounds, History, NEW q \in Requests, NEW r \in Runs, Conversation(q, r)
  PROVE  TypeOK' /\ Pool'
<1> DEFINE h == runtimes[r]
           c == [op |-> "conversation", run |-> r, thread |-> bindings[r], host |-> h,
                 stage |-> IF h = None THEN "coldRead" ELSE "read"]
<1>1. TypeOK /\ Shapes /\ req[q].stage \notin Working
  BY NoCallTypes DEF IInv, Pool, Conversation, Working
<1>2. c \in Call /\ Shape(c)
  <2>1. bindings[r] \in Threads /\ bindings[r] # None /\ r # None /\ h \in Hosts \cup {None}
    BY <1>1, NoneIsNone DEF Conversation, TypeOK, NoneIsNone
  <2>2. c \in Call
    BY <2>1 DEF Call, Ops, Stages
  <2>3. Shape(c)
    BY <2>1 DEF Shape, InHand, Owning, Working
  <2>4. QED
    BY <2>2, <2>3
<1>3. req' = [req EXCEPT ![q] = c]
  BY DEF Conversation
<1>4. c.host = h /\ c.run = r /\ (h # None => c.stage = "read")
  OBVIOUS
<1> HIDE DEF c
<1>5. /\ req' \in [Requests -> Call] /\ Shapes' /\ req'[q] = c
      /\ \A x \in Requests : x # q => req'[x] = req[x]
  BY <1>1, <1>2, <1>3, Moves
<1>6. Others
  BY <1>1, OthersSame, Counts DEF Conversation, Others
<1>7. /\ hosts' \in [Hosts -> Host]
      /\ \A x \in Hosts : /\ hosts'[x].busy = hosts[x].busy
                          /\ hosts[x].state # "none" => hosts'[x].state # "none"
  <2>1. hosts \in [Hosts -> Host]
    BY <1>1, OthersSame
  <2>2. hosts' = hosts \/ hosts' = EnsureProcess(h)
    BY DEF Conversation
  <2>3. QED
    BY <2>1, <2>2 DEF EnsureProcess, Host
<1>8. PoolTypes
  BY <1>1, <1>5, <1>7, OthersSame DEF Conversation, PoolTypes
<1>9. TypeOK'
  BY <1>6, <1>8, Typed
<1>10. CASE h = None
  <2>1. UNCHANGED <<runtimes, writers, hosts>> /\ c.host = None
    BY <1>4, <1>10 DEF Conversation
  <2>2. QED
    BY <1>1, <1>5, <1>9, <2>1, Aside
<1>11. CASE h # None
  <2>1. UNCHANGED <<runtimes, writers>>
    BY DEF Conversation
  <2>2. req'[q].stage = "read" /\ req'[q].run = r /\ req'[q].host = runtimes[r] /\ runtimes[r] # None
    BY <1>4, <1>5, <1>11
  <2>3. overlapped \subseteq overlapped' /\ req[q].stage \notin Working
    BY <1>1 DEF History
  <2> HIDE DEF h
  <2>4. QED
    BY <1>5, <1>7, <1>9, <2>1, <2>2, <2>3, Reads
<1>12. QED
  BY <1>10, <1>11

\* The skills of a turn are projected, or the call fails.
LEMMA ActivateKept ==
  ASSUME IInv, NoneIsNone, Bounds, History, NEW q \in Requests, Activate(q)
  PROVE  TypeOK' /\ Pool'
<1>1. /\ TypeOK /\ Shapes /\ Shape(req[q]) /\ req[q].stage = "loaded" /\ req[q].op = "turn"
      /\ req[q].run \in Runs /\ req[q].stage \notin Working
  BY CallTypes DEF IInv, Pool, Shapes, Activate, Working
<1>2. UNCHANGED <<runtimes, usedBefore, writers, hosts, nwriter>>
  BY DEF Activate
<1>3. skillDir' \subseteq Runs
  BY <1>1, OthersSame DEF Activate, Materialize
<1>4. faults' \in 0..MaxFaults
  <2>1. CASE faults < MaxFaults
    BY <1>1, <2>1, Counts, OthersSame DEF Activate
  <2>2. CASE ~(faults < MaxFaults)
    <3>1. req' = [req EXCEPT ![q].stage = "activated"] /\ "activated" \in Stages
      BY <2>2 DEF Activate, Stages
    <3>2. req'[q] # NoCall
      BY <1>1, <3>1, Restages, NoCallTypes
    <3>3. QED
      BY <1>1, <3>2, OthersSame DEF Activate
  <2>3. QED
    BY <2>1, <2>2
<1>5. Others
  BY <1>1, <1>3, <1>4, OthersSame DEF Activate, Others
<1>6. CASE req' = [req EXCEPT ![q].stage = "activated"]
  <2>1. "activated" \in Stages
    BY DEF Stages
  <2>2. /\ req' \in [Requests -> Call] /\ \A x \in Requests : x # q => req'[x] = req[x]
        /\ req'[q].op = req[q].op /\ req'[q].stage = "activated" /\ req'[q].run = req[q].run
        /\ req'[q].thread = req[q].thread /\ req'[q].host = req[q].host
    BY <1>1, <1>6, <2>1, Restages
  <2>3. req'[q].host = None /\ Shape(req'[q])
    BY <1>1, <2>2 DEF Shape, InHand, Owning, Working
  <2>4. QED
    BY <1>1, <1>2, <1>5, <2>2, <2>3, CallAside
<1>7. CASE req' = [req EXCEPT ![q] = NoCall]
  BY <1>1, <1>2, <1>5, <1>7, EndsAside
<1>8. QED
  BY <1>6, <1>7 DEF Activate

\* Deleting threads of Codex touches no host and no writer.
LEMMA DeleteThreadsKept ==
  ASSUME IInv, NoneIsNone, Bounds, History, NEW q \in Requests, DeleteThreads(q)
  PROVE  TypeOK' /\ Pool'
<1>1. /\ TypeOK /\ Shapes /\ Shape(req[q]) /\ req[q].stage = "clear" /\ req[q].stage \notin Working
  BY DEF IInv, Pool, Shapes, DeleteThreads, Working
<1>2. UNCHANGED <<runtimes, usedBefore, writers, hosts, nwriter>>
  BY DEF DeleteThreads
<1>3. native' \in [Threads -> {"unborn", "stored", "deleted"}]
  BY <1>1, OthersSame DEF DeleteThreads
<1>4. faults' \in 0..MaxFaults
  BY <1>1, Counts, OthersSame DEF DeleteThreads
<1>5. Others
  BY <1>1, <1>3, <1>4, OthersSame DEF DeleteThreads, Others
<1>6. CASE req' = [req EXCEPT ![q].stage = "deleted"]
  <2>1. "deleted" \in Stages
    BY DEF Stages
  <2>2. /\ req' \in [Requests -> Call] /\ \A x \in Requests : x # q => req'[x] = req[x]
        /\ req'[q].op = req[q].op /\ req'[q].stage = "deleted" /\ req'[q].run = req[q].run
        /\ req'[q].thread = req[q].thread /\ req'[q].host = req[q].host
    BY <1>1, <1>6, <2>1, Restages
  <2>3. req'[q].host = None /\ Shape(req'[q])
    BY <1>1, <2>2 DEF Shape, InHand, Owning, Working
  <2>4. QED
    BY <1>1, <1>2, <1>5, <2>2, <2>3, CallAside
<1>7. CASE req' = [req EXCEPT ![q] = NoCall]
  BY <1>1, <1>2, <1>5, <1>7, EndsAside
<1>8. QED
  BY <1>6, <1>7 DEF DeleteThreads

\* The answer of a conversation ends the call.
LEMMA ConversationAnsweredKept ==
  ASSUME IInv, NoneIsNone, Bounds, History, NEW q \in Requests, ConversationAnswered(q)
  PROVE  TypeOK' /\ Pool'
<1>1. TypeOK
  BY DEF IInv
<1>2. Others
  BY <1>1, OthersSame DEF ConversationAnswered, Others
<1>3. QED
  BY <1>2, EndsAside DEF ConversationAnswered, Working

\* Removing the binding of a lost thread touches no host and no writer.
LEMMA RemoveMissingKept ==
  ASSUME IInv, NoneIsNone, Bounds, History, NEW q \in Requests, RemoveMissing(q)
  PROVE  TypeOK' /\ Pool'
<1>1. TypeOK /\ Shapes /\ req[q].stage \in {"coldRead", "discard"} /\ req[q].stage \notin Working
  BY DEF IInv, Pool, RemoveMissing, Working
<1>2. req[q].run \in Runs
  BY <1>1, CallTypes
<1>3. bindings' \in Bindings /\ queue' \in Seq(Write)
  BY <1>1, <1>2, RemoveTypes DEF RemoveMissing
<1>4. Others
  BY <1>1, <1>3, OthersSame DEF RemoveMissing, Others
<1>5. QED
  BY <1>1, <1>4, EndsAside DEF RemoveMissing

\* store.removeWorkspace touches no host and no writer.
LEMMA RemoveWorkspaceKept ==
  ASSUME IInv, NoneIsNone, Bounds, History, NEW q \in Requests, RemoveWorkspace(q)
  PROVE  TypeOK' /\ Pool'
<1> DEFINE gone == {r \in Runs : bindings[r] # None}
<1>1. TypeOK /\ Shapes /\ Shape(req[q]) /\ req[q].stage = "deleted" /\ req[q].stage \notin Working
  BY DEF IInv, Pool, Shapes, RemoveWorkspace, Working
<1>2. UNCHANGED <<runtimes, usedBefore, writers, hosts, nwriter>>
  BY DEF RemoveWorkspace
<1>3. bindings' \in Bindings
  BY DEF RemoveWorkspace, Bindings
<1>4. queue' \in Seq(Write)
  BY <1>1, <1>3, QueueTypes DEF RemoveWorkspace
<1>5. releasing' \subseteq [run : Runs, by : Requests \cup {None}]
  <2>1. [run : gone, by : {q}] \subseteq [run : Runs, by : Requests \cup {None}]
    OBVIOUS
  <2>2. releasing' = releasing \cup [run : gone, by : {q}]
    BY DEF RemoveWorkspace
  <2>3. QED
    BY <1>1, <2>1, <2>2, OthersSame
<1>6. Others
  BY <1>1, <1>3, <1>4, <1>5, OthersSame DEF RemoveWorkspace, Others
<1>7. CASE req' = [req EXCEPT ![q].stage = "unbound"]
  <2>1. "unbound" \in Stages
    BY DEF Stages
  <2>2. /\ req' \in [Requests -> Call] /\ \A x \in Requests : x # q => req'[x] = req[x]
        /\ req'[q].op = req[q].op /\ req'[q].stage = "unbound" /\ req'[q].run = req[q].run
        /\ req'[q].thread = req[q].thread /\ req'[q].host = req[q].host
    BY <1>1, <1>7, <2>1, Restages
  <2>3. req'[q].host = None /\ Shape(req'[q])
    BY <1>1, <2>2 DEF Shape, InHand, Owning, Working
  <2>4. QED
    BY <1>1, <1>2, <1>6, <2>2, <2>3, CallAside
<1>8. CASE req' = [req EXCEPT ![q] = NoCall]
  BY <1>1, <1>2, <1>6, <1>8, EndsAside
<1>9. QED
  BY <1>7, <1>8 DEF RemoveWorkspace

\* CodexSkillActivator.release touches no host and no writer.
LEMMA ReleaseSkillsKept ==
  ASSUME IInv, NoneIsNone, Bounds, History, NEW p \in releasing, ReleaseSkills(p)
  PROVE  TypeOK' /\ Pool'
<1>1. TypeOK /\ p.run \in Runs /\ p.by \in Requests \cup {None}
  BY DEF IInv, TypeOK
<1>2. UNCHANGED <<runtimes, usedBefore, writers, hosts, nwriter>>
  BY DEF ReleaseSkills
<1>3. skillDir' \subseteq Runs /\ cancelled' \subseteq Runs
  BY <1>1, OthersSame DEF ReleaseSkills
<1>4. releasing' \subseteq [run : Runs, by : Requests \cup {None}]
  BY <1>1, OthersSame DEF ReleaseSkills
<1>5. Others
  BY <1>1, <1>3, <1>4, OthersSame DEF ReleaseSkills, Others
<1>6. CASE req' = req
  BY <1>1, <1>2, <1>5, <1>6, OthersSame, NoneMoves
<1>7. CASE p.by # None /\ req' = [req EXCEPT ![p.by] = NoCall]
  <2>1. p.by \in Requests /\ req[p.by].stage \notin Working
    BY <1>1, <1>7 DEF ReleaseSkills, Working
  <2>2. QED
    BY <1>2, <1>5, <1>7, <2>1, EndsAside
<1>8. QED
  BY <1>6, <1>7 DEF ReleaseSkills

\* An approval callback that is opened touches no host and no writer.
LEMMA AskApprovalKept ==
  ASSUME IInv, NoneIsNone, Bounds, History, NEW q \in Requests, AskApproval(q)
  PROVE  TypeOK' /\ Pool'
<1> DEFINE r == req[q].run
           n == polls[r] + 1
<1>1. TypeOK /\ Shapes
  BY DEF IInv, Pool
<1>2. r \in Runs
  BY <1>1, CallTypes DEF AskApproval, InHand, Working
<1>3. polls \in [Runs -> 0..MaxPolls] /\ polls[r] \in 0..MaxPolls
  BY <1>1, <1>2, OthersSame
<1>4. n \in 0..MaxPolls
  BY <1>3 DEF AskApproval, Bounds
<1>5. polls' = [polls EXCEPT ![r] = n]
  BY DEF AskApproval
<1> HIDE DEF n
<1>6. polls' \in [Runs -> 0..MaxPolls]
  BY <1>3, <1>4, <1>5
<1>7. Others
  BY <1>1, <1>6, OthersSame DEF AskApproval, Others
<1>8. QED
  BY <1>1, <1>7, OthersSame, NoneMoves DEF AskApproval

\* An approval callback that ends touches no host and no writer.
LEMMA PollEndsKept ==
  ASSUME IInv, NoneIsNone, Bounds, History, NEW r \in Runs, PollEnds(r)
  PROVE  TypeOK' /\ Pool'
<1> DEFINE n == polls[r] - 1
<1>1. TypeOK
  BY DEF IInv
<1>2. polls \in [Runs -> 0..MaxPolls] /\ polls[r] \in 0..MaxPolls
  BY <1>1, OthersSame
<1>3. n \in 0..MaxPolls
  BY <1>2 DEF PollEnds, Bounds
<1>4. polls' = [polls EXCEPT ![r] = n]
  BY DEF PollEnds
<1> HIDE DEF n
<1>5. polls' \in [Runs -> 0..MaxPolls]
  BY <1>2, <1>3, <1>4
<1>6. cancelled' \subseteq Runs
  BY <1>1, OthersSame DEF PollEnds
<1>7. Others
  BY <1>1, <1>5, <1>6, OthersSame DEF PollEnds, Others
<1>8. QED
  BY <1>1, <1>7, OthersSame, NoneMoves DEF PollEnds

\* The end of a run in the daemon touches no host and no writer.
LEMMA RunEndsKept ==
  ASSUME IInv, NoneIsNone, Bounds, History, NEW r \in Runs, RunEnds(r)
  PROVE  TypeOK' /\ Pool'
<1>1. TypeOK
  BY DEF IInv
<1>2. Others
  BY <1>1, OthersSame DEF RunEnds, Others
<1>3. QED
  BY <1>1, <1>2, OthersSame, NoneMoves DEF RunEnds

\* A process that is gone at last touches no entry and no writer.
LEMMA LingeringEndsKept ==
  ASSUME IInv, NoneIsNone, Bounds, History, NEW t \in Threads, LingeringEnds(t)
  PROVE  TypeOK' /\ Pool'
<1>1. TypeOK
  BY DEF IInv
<1>2. Others
  BY <1>1, OthersSame DEF LingeringEnds, Others
<1>3. nwriter' \in [Threads -> Hosts \cup {None, Lingering}]
  BY <1>1, OthersSame DEF LingeringEnds
<1>4. QED
  BY <1>2, <1>3, NoneMoves DEF LingeringEnds

\* CodexRuntimePool.runTurn waits, enters, finds the entry busy, fails or makes room.
LEMMA PoolRunTurnKept ==
  ASSUME IInv, NoneIsNone, Bounds, History, NEW q \in Requests, PoolRunTurn(q)
  PROVE  TypeOK' /\ Pool'
<1> DEFINE stored == IF req[q].stage = "activated" THEN bindings[req[q].run] ELSE req[q].thread
           r == req[q].run
           h == runtimes[r]
           t == IF stored # None THEN stored ELSE bindings[r]
<1>1. /\ TypeOK /\ Shapes /\ Shape(req[q]) /\ overlapped \subseteq overlapped'
      /\ req[q].op = "turn" /\ req[q].stage \in {"activated", "wait"}
      /\ req[q].stage \notin Working
  BY DEF IInv, Pool, Shapes, History, PoolRunTurn, Working
<1>2. /\ req \in [Requests -> Call] /\ req[q] \in Call /\ r \in Runs /\ r # None
      /\ req[q].host = None
  BY <1>1, OthersSame, CallTypes, NoneIsNone DEF NoneIsNone, Shape, InHand, Owning, Working
<1>3. stored \in Threads \cup {None} /\ bindings[r] \in Threads \cup {None} /\ h \in Hosts \cup {None}
  BY <1>1, <1>2, OthersSame DEF Call, Bindings
<1>4. Others
  BY <1>1, OthersSame DEF PoolRunTurn, Others
<1>5. CASE /\ stored # None
           /\ req' = [req EXCEPT ![q].stage = "wait", ![q].thread = stored]
           /\ UNCHANGED <<runtimes, usedBefore, writers, hosts, nwriter>>
  <2> HIDE DEF stored
  <2>1. req' = [req EXCEPT ![q].stage = "wait", ![q].thread = stored] /\ "wait" \in Stages
    BY <1>5 DEF Stages
  <2>2. /\ req'[q].op = "turn" /\ req'[q].stage = "wait" /\ req'[q].run = req[q].run
        /\ req'[q].thread = stored /\ req'[q].host = None
        /\ \A x \in Requests : x # q => req'[x] = req[x]
    BY <1>1, <1>2, <2>1 DEF Call
  <2>3. req' \in [Requests -> Call]
    BY <1>2, <1>3, <2>1 DEF Call
  <2>4. Shapes'
    <3>1. Shape(req'[q])
      BY <1>2, <1>5, <2>2 DEF Shape, InHand, Owning, Working
    <3>2. QED
      BY <1>1, <2>2, <3>1, Goes
  <2>5. PoolTypes
    BY <1>1, <1>5, <2>3, OthersSame DEF PoolTypes
  <2>6. TypeOK'
    BY <1>4, <2>5, Typed
  <2>7. QED
    BY <1>1, <1>5, <2>2, <2>4, <2>6, Aside
<1>6. CASE /\ h # None /\ t # None /\ UseEntry(q, h, t, hosts)
           /\ UNCHANGED <<runtimes, nwriter>>
  <2>1. h \in Hosts /\ t \in Threads /\ hosts \in [Hosts -> Host] /\ h = runtimes[req[q].run]
    BY <1>1, <1>3, <1>6, OthersSame
  <2> HIDE DEF h, t, stored
  <2>2. UseEntry(q, h, t, hosts)
    BY <1>6
  <2>3. /\ req' \in [Requests -> Call] /\ Shapes'
        /\ writers' \in [Threads -> Runs \cup {None}] /\ hosts' \in [Hosts -> Host]
        /\ usedBefore' \subseteq Hosts \X Hosts
        /\ \A x \in Requests : x # q => req'[x] = req[x]
        /\ \/ /\ ~hosts[h].busy /\ writers[t] = None
              /\ req'[q].stage = "configure" /\ req'[q].run = req[q].run
              /\ req'[q].thread = t /\ req'[q].host = h
              /\ writers' = [writers EXCEPT ![t] = req[q].run]
              /\ hosts'[h].busy /\ hosts'[h].state = hosts[h].state
              /\ \A x \in Hosts : x # h => hosts'[x] = hosts[x]
           \/ /\ hosts[h].busy /\ hosts' = hosts /\ writers' = writers
              /\ req'[q].stage = "busy" /\ req'[q].run = req[q].run /\ req'[q].host = h
           \/ /\ ~hosts[h].busy /\ hosts' = hosts /\ writers' = writers /\ req'[q] = NoCall
    BY <1>1, <2>1, <2>2, NoneIsNone, Uses
  <2>4. PoolTypes
    BY <1>1, <1>6, <2>3, OthersSame DEF PoolTypes
  <2>5. TypeOK'
    BY <1>4, <2>4, Typed
  <2>6. CASE /\ ~hosts[h].busy /\ writers[t] = None
             /\ req'[q].stage = "configure" /\ req'[q].run = req[q].run
             /\ req'[q].thread = t /\ req'[q].host = h
             /\ writers' = [writers EXCEPT ![t] = req[q].run]
             /\ hosts'[h].busy /\ hosts'[h].state = hosts[h].state
             /\ \A x \in Hosts : x # h => hosts'[x] = hosts[x]
    <3>1. runtimes' = runtimes /\ runtimes[req[q].run] = h
      BY <1>6, <2>1
    <3>2. Shapes' /\ \A x \in Requests : x # q => req'[x] = req[x]
      BY <2>3
    <3>3. /\ req[q].op = "turn" /\ req[q].stage \notin Working /\ overlapped \subseteq overlapped'
          /\ req[q].host = None /\ h \in Hosts /\ t \in Threads
      BY <1>1, <1>2, <2>1
    <3>4. Pool'
      BY <2>5, <2>6, <3>1, <3>2, <3>3, NoneIsNone, Enters
    <3>5. QED
      BY <2>5, <3>4
  <2>7. CASE /\ hosts[h].busy /\ hosts' = hosts /\ writers' = writers
             /\ req'[q].stage = "busy" /\ req'[q].run = req[q].run /\ req'[q].host = h
    <3>1. runtimes' = runtimes /\ runtimes[req[q].run] = h /\ h # None /\ "busy" \notin Working
      BY <1>6, <2>1 DEF Working
    <3>2. QED
      BY <1>1, <2>3, <2>5, <2>7, <3>1, NoneIsNone, Stays
  <2>8. CASE hosts' = hosts /\ writers' = writers /\ req'[q] = NoCall
    BY <1>1, <1>6, <2>3, <2>5, <2>8, NoneIsNone, NoCallTypes, Aside
  <2>9. QED
    BY <2>3, <2>5, <2>6, <2>7, <2>8
<1>7. CASE /\ req' = [req EXCEPT ![q] = NoCall]
           /\ UNCHANGED <<runtimes, usedBefore, writers, hosts, nwriter>>
  BY <1>1, <1>4, <1>7, EndsAside
<1>8. CASE MakeCapacity(q, stored)
  <2> HIDE DEF stored
  <2>1. PoolTypes /\ (TypeOK' => Pool')
    BY <1>1, <1>2, <1>3, <1>8, Capacity
  <2>2. QED
    BY <1>4, <2>1, Typed
<1>9. QED
  BY <1>5, <1>6, <1>7, <1>8 DEF PoolRunTurn, RuntimeFor

\* makeCapacity makes the host for which another one was shut down.
LEMMA EvictedKept ==
  ASSUME IInv, NoneIsNone, Bounds, History, NEW q \in Requests, Evicted(q)
  PROVE  TypeOK' /\ Pool'
<1>1. /\ TypeOK /\ Shapes /\ Shape(req[q]) /\ req[q] \in Call /\ req[q].stage = "evict"
      /\ NewHost(q, req[q].thread)
  BY CallTypes DEF IInv, Pool, Shapes, Evicted
<1>2. /\ req[q].thread \in Threads \cup {None} /\ req[q].op \in {"turn", "resume"}
      /\ (req[q].op = "resume" => req[q].thread # None) /\ req[q].host = None
  BY <1>1 DEF Call, Shape, InHand, Owning, Working
<1>3. runtimes' = runtimes /\ writers' = writers
  BY DEF Evicted
<1>4. req' \in [Requests -> Call] /\ hosts' \in [Hosts -> Host] /\ Pool'
  BY <1>1, <1>2, <1>3, Makes
<1>5. Others
  BY <1>1, OthersSame DEF Evicted, Others
<1>6. PoolTypes
  BY <1>1, <1>4, OthersSame DEF Evicted, PoolTypes
<1>7. QED
  BY <1>4, <1>5, <1>6, Typed

\* runTurn enters when the entry it waited for is free, or fails.
LEMMA EntryFreeKept ==
  ASSUME IInv, NoneIsNone, Bounds, History, NEW q \in Requests, EntryFree(q)
  PROVE  TypeOK' /\ Pool'
<1> DEFINE h == req[q].host
           t == req[q].thread
<1>1. /\ TypeOK /\ Shapes /\ Shape(req[q]) /\ overlapped \subseteq overlapped'
      /\ req[q].stage = "busy" /\ req[q].op = "turn" /\ req[q].stage \notin Working
  BY DEF IInv, Pool, Shapes, Shape, History, EntryFree, Working
<1>2. h \in Hosts /\ t \in Threads /\ hosts \in [Hosts -> Host]
  BY <1>1, CallTypes, OthersSame DEF InHand
<1>3. Others
  BY <1>1, OthersSame DEF EntryFree, Others
<1>4. CASE AcquireThreadWriter(q, h, t, writers, hosts)
  <2>1. UseEntry(q, h, t, hosts)
    BY <1>4 DEF UseEntry
  <2>2. h = req[q].host
    OBVIOUS
  <2> HIDE DEF h, t
  <2>3. req'[q].stage # "busy" /\ req'[q] # NoCall
    <3>1. req' = [req EXCEPT ![q].stage = "configure", ![q].thread = t, ![q].host = h]
      BY <1>4 DEF AcquireThreadWriter
    <3>2. req \in [Requests -> Call] /\ req[q] \in Call
      BY <1>1, OthersSame
    <3>3. req'[q].stage = "configure"
      BY <3>1, <3>2 DEF Call
    <3>4. QED
      BY <3>3, NoCallTypes
  <2>4. /\ req' \in [Requests -> Call] /\ Shapes'
        /\ writers' \in [Threads -> Runs \cup {None}] /\ hosts' \in [Hosts -> Host]
        /\ usedBefore' \subseteq Hosts \X Hosts
        /\ \A x \in Requests : x # q => req'[x] = req[x]
        /\ ~hosts[h].busy /\ writers[t] = None
        /\ req'[q].stage = "configure" /\ req'[q].run = req[q].run
        /\ req'[q].thread = t /\ req'[q].host = h
        /\ writers' = [writers EXCEPT ![t] = req[q].run]
        /\ hosts'[h].busy /\ hosts'[h].state = hosts[h].state
        /\ \A x \in Hosts : x # h => hosts'[x] = hosts[x]
    BY <1>1, <1>2, <2>1, <2>3, NoneIsNone, Uses
  <2>5. PoolTypes /\ runtimes' = runtimes
    BY <1>1, <2>4, OthersSame DEF PoolTypes, EntryFree
  <2>6. TypeOK'
    BY <1>3, <2>5, Typed
  <2>7. QED
    BY <1>1, <1>2, <2>2, <2>4, <2>5, <2>6, NoneIsNone, Enters
<1>5. CASE req' = [req EXCEPT ![q] = NoCall] /\ UNCHANGED <<writers, hosts, usedBefore>>
  BY <1>1, <1>3, <1>5, EndsAside DEF EntryFree
<1>6. QED
  BY <1>4, <1>5 DEF EntryFree

\* A host that is not registered is not busy, and the call that it was made for knows it.
LEMMA OwnHost ==
  ASSUME IInv, NoneIsNone, NEW q \in Requests, req[q].stage \in Owning
  PROVE  /\ req[q].host \in Hosts /\ ~hosts[req[q].host].busy
         /\ req[q].run \in Runs /\ req[q].run # None /\ req[q].op \in {"turn", "resume"}
         /\ req[q].stage \notin Working
         /\ \A r \in Runs : runtimes[r] # req[q].host
         /\ \A p \in Requests : req[p].host = req[q].host => p = q
<1>1. TypeOK /\ Shapes /\ Owned /\ Busy /\ Shape(req[q])
  BY DEF IInv, Pool, Shapes
<1>2. req[q].stage \in InHand /\ req[q].stage # "read" /\ req[q].stage \notin Working
  BY DEF InHand, Owning, Working
<1>3. /\ req[q].host \in Hosts /\ req[q].run \in Runs /\ req[q].run # None
      /\ req[q].op \in {"turn", "resume"}
  BY <1>1, <1>2, CallTypes, NoneIsNone DEF NoneIsNone
<1>4. /\ \A r \in Runs : runtimes[r] # req[q].host
      /\ \A p \in Requests : req[p].host = req[q].host => p = q
  BY <1>1 DEF Owned
<1>5. ~hosts[req[q].host].busy
  BY <1>1, <1>2, <1>3, <1>4 DEF Busy
<1>6. QED
  BY <1>2, <1>3, <1>4, <1>5

\* The host that was made for a call is shut down; the call fails or goes on without one.
LEMMA GivesUp ==
  ASSUME IInv, NoneIsNone, History, TypeOK', Shapes', NEW q \in Requests, req[q].stage \in Owning,
         req'[q].host = None, \A x \in Requests : x # q => req'[x] = req[x],
         ShutDown({req[q].host}), UNCHANGED <<runtimes, writers>>
  PROVE  Pool'
<1> DEFINE h == req[q].host
<1>1. /\ h \in Hosts /\ req[q].stage \notin Working /\ TypeOK /\ overlapped \subseteq overlapped'
      /\ \A r \in Runs : runtimes[r] # h
      /\ \A p \in Requests : req[p].host = h => p = q
  BY OwnHost DEF IInv, History
<1>2. \A x \in Hosts : hosts'[x] = IF x = h THEN NoHost ELSE hosts[x]
  BY <1>1, ShutDownTypes
<1>3. \A p \in Requests : req'[p].host # h
  BY <1>1, NoneIsNone DEF NoneIsNone
<1>4. \A x \in Hosts :
         \/ hosts'[x] = hosts[x]
         \/ /\ ~hosts'[x].busy
            /\ \A p \in Requests : req'[p].stage \in Working => req'[p].host # x
            /\ \A y \in Runs : runtimes'[y] # x
            /\ \A p \in Requests : req'[p].stage \in Owning => req'[p].host # x
  BY <1>1, <1>2, <1>3, HostTypes
<1>5. /\ \A x \in Requests : req'[x] = req[x] \/ req'[x].host = None
      /\ \A x \in Requests : req[x].stage \in Working => req'[x] = req[x]
  BY <1>1
<1>6. QED
  BY <1>1, <1>4, <1>5, NoneIsNone, Releases

\* An attach that is refused ends the host that was made for it.
LEMMA AttachFailsKept ==
  ASSUME IInv, NoneIsNone, Bounds, History, NEW q \in Requests, AttachFails(q)
  PROVE  TypeOK' /\ Pool'
<1>1. TypeOK /\ Shapes /\ req[q].stage \in Owning /\ ShutDown({req[q].host})
  BY DEF IInv, Pool, AttachFails, Owning
<1>2. /\ req' \in [Requests -> Call] /\ Shapes' /\ req'[q].host = None
      /\ \A x \in Requests : x # q => req'[x] = req[x]
  BY <1>1, Ends, NoCallTypes DEF AttachFails
<1>3. faults' \in 0..MaxFaults
  BY <1>1, Counts, OthersSame DEF AttachFails
<1>4. Others
  BY <1>1, <1>3, OthersSame DEF AttachFails, Others
<1>5. UNCHANGED <<runtimes, writers>>
  BY DEF AttachFails
<1>6. PoolTypes
  BY <1>1, <1>2, <1>5, OthersSame, ShutDownTypes DEF PoolTypes
<1>7. TypeOK'
  BY <1>4, <1>6, Typed
<1>8. QED
  BY <1>1, <1>2, <1>5, <1>7, GivesUp

\* startThread binds the new thread, or ends its host when the run has another.
LEMMA StartThreadKept ==
  ASSUME IInv, NoneIsNone, Bounds, History, NEW q \in Requests, NEW t \in Threads, StartThread(q, t)
  PROVE  TypeOK' /\ Pool'
<1> DEFINE r == req[q].run
           h == req[q].host
<1>1. /\ TypeOK /\ Shapes /\ Shape(req[q]) /\ overlapped \subseteq overlapped'
      /\ req[q].stage \in Owning /\ req[q].stage = "attach" /\ req[q].op = "turn"
      /\ req \in [Requests -> Call] /\ req[q] \in Call /\ hosts \in [Hosts -> Host]
  BY OthersSame DEF IInv, Pool, Shapes, History, StartThread, Owning
<1>2. h \in Hosts /\ h # None /\ r \in Runs /\ r # None /\ t # None /\ req[q].stage \notin Working
  BY <1>1, OwnHost, NoneIsNone DEF NoneIsNone
<1>3. /\ native' \in [Threads -> {"unborn", "stored", "deleted"}]
      /\ UNCHANGED <<runtimes, writers>>
  BY <1>1, OthersSame DEF StartThread
<1>4. CASE /\ Bind(r, t) /\ hosts' = [hosts EXCEPT ![h].thread = t] /\ EnqueueWrite(bindings', q)
           /\ req' = [req EXCEPT ![q].stage = "persist", ![q].thread = t]
           /\ UNCHANGED <<usedBefore, nwriter>>
  <2>1. bindings' \in Bindings /\ queue' \in Seq(Write)
    <3>1. bindings' \in Bindings
      BY <1>1, <1>2, <1>4, QueueTypes DEF Bind, Bindings
    <3>2. QED
      BY <1>1, <1>4, <3>1, QueueTypes
  <2>2. /\ hosts' \in [Hosts -> Host]
        /\ \A x \in Hosts : hosts'[x].busy = hosts[x].busy /\ hosts'[x].state = hosts[x].state
    BY <1>1, <1>2, <1>4 DEF Host
  <2>3. req' = [req EXCEPT ![q].stage = "persist", ![q].thread = t] /\ "persist" \in Stages
    BY <1>4 DEF Stages
  <2>4. /\ req'[q].op = "turn" /\ req'[q].stage = "persist" /\ req'[q].run = req[q].run
        /\ req'[q].thread = t /\ req'[q].host = req[q].host
        /\ \A x \in Requests : x # q => req'[x] = req[x]
    BY <1>1, <2>3 DEF Call
  <2>5. req' \in [Requests -> Call]
    BY <1>1, <2>3 DEF Call
  <2>6. Shapes'
    <3>1. Shape(req'[q])
      BY <1>1, <1>2, <2>4 DEF Shape, InHand, Owning, Working
    <3>2. QED
      BY <1>1, <2>4, <3>1, Goes
  <2>7. Others
    BY <1>1, <1>3, <2>1, OthersSame DEF StartThread, Others
  <2>8. PoolTypes
    BY <1>1, <1>3, <1>4, <2>2, <2>5, OthersSame DEF PoolTypes
  <2>9. TypeOK'
    BY <2>7, <2>8, Typed
  <2>10. req'[q].stage \notin Working
    BY <2>4 DEF Working
  <2>11. Pool'
    BY <1>1, <1>2, <1>3, <2>2, <2>4, <2>6, <2>9, <2>10, NoneIsNone, Stays
  <2>12. QED
    BY <2>9, <2>11
<1>5. CASE /\ ShutDown({h}) /\ req' = [req EXCEPT ![q] = NoCall] /\ UNCHANGED <<bindings, queue>>
  <2>1. /\ req' \in [Requests -> Call] /\ Shapes' /\ req'[q].host = None
        /\ \A x \in Requests : x # q => req'[x] = req[x]
    BY <1>1, <1>5, Ends, NoCallTypes
  <2>2. Others
    BY <1>1, <1>3, <1>5, OthersSame DEF StartThread, Others
  <2>3. PoolTypes
    BY <1>1, <1>3, <1>5, <2>1, OthersSame, ShutDownTypes DEF PoolTypes
  <2>4. TypeOK'
    BY <2>2, <2>3, Typed
  <2>5. QED
    BY <1>1, <1>3, <1>5, <2>1, <2>4, GivesUp
<1>6. QED
  BY <1>4, <1>5 DEF StartThread

\* A host that was made for a turn is registered, and the turn enters or is refused.
LEMMA Registers ==
  ASSUME IInv, NoneIsNone, History, NEW q \in Requests, NEW t \in Threads,
         NEW hs \in [Hosts -> Host], req[q].stage \in Owning, req[q].op = "turn",
         \A x \in Hosts : hs[x].busy = hosts[x].busy /\ hs[x].state = hosts[x].state
                          /\ (x # req[q].host => hs[x] = hosts[x]),
         UseEntry(q, req[q].host, t, hs),
         runtimes' = [runtimes EXCEPT ![req[q].run] = req[q].host],
         nwriter' \in [Threads -> Hosts \cup {None, Lingering}], Others
  PROVE  TypeOK' /\ Pool'
<1> DEFINE h == req[q].host
<1>1. /\ TypeOK /\ Shapes /\ overlapped \subseteq overlapped'
      /\ h \in Hosts /\ ~hosts[h].busy /\ ~hs[h].busy /\ req[q].stage \notin Working /\ h = req[q].host
      /\ req[q].run \in Runs
  BY OwnHost DEF IInv, Pool, History
<1>2. UseEntry(q, h, t, hs)
  OBVIOUS
<1>3. runtimes' \in [Runs -> Hosts \cup {None}]
  BY <1>1, OthersSame
<1> HIDE DEF h
<1>4. /\ req' \in [Requests -> Call] /\ Shapes'
      /\ writers' \in [Threads -> Runs \cup {None}] /\ hosts' \in [Hosts -> Host]
      /\ usedBefore' \subseteq Hosts \X Hosts
      /\ \A x \in Requests : x # q => req'[x] = req[x]
      /\ \/ /\ ~hs[h].busy /\ writers[t] = None
            /\ req'[q].stage = "configure" /\ req'[q].run = req[q].run
            /\ req'[q].thread = t /\ req'[q].host = h
            /\ writers' = [writers EXCEPT ![t] = req[q].run]
            /\ hosts'[h].busy /\ hosts'[h].state = hs[h].state
            /\ \A x \in Hosts : x # h => hosts'[x] = hs[x]
         \/ /\ hosts' = hs /\ writers' = writers /\ req'[q] = NoCall
  BY <1>1, <1>2, NoneIsNone, Uses
<1>5. TypeOK'
  <2>1. PoolTypes
    BY <1>3, <1>4 DEF PoolTypes
  <2>2. QED
    BY <2>1, Typed
<1>6. Shapes' /\ \A x \in Requests : x # q => req'[x] = req[x]
  BY <1>4
<1>7. CASE /\ ~hs[h].busy /\ writers[t] = None
           /\ req'[q].stage = "configure" /\ req'[q].run = req[q].run
           /\ req'[q].thread = t /\ req'[q].host = h
           /\ writers' = [writers EXCEPT ![t] = req[q].run]
           /\ hosts'[h].busy /\ hosts'[h].state = hs[h].state
           /\ \A x \in Hosts : x # h => hosts'[x] = hs[x]
  <2>1. hosts'[h].state = hosts[h].state /\ \A x \in Hosts : x # h => hosts'[x] = hosts[x]
    BY <1>1, <1>7
  <2>2. runtimes' = [runtimes EXCEPT ![req[q].run] = h]
    BY <1>1
  <2>3. Pool'
    BY <1>1, <1>5, <1>6, <1>7, <2>1, <2>2, NoneIsNone, Enters
  <2>4. QED
    BY <1>5, <2>3
<1>8. CASE hosts' = hs /\ writers' = writers /\ req'[q] = NoCall
  <2>1. req'[q].host = None /\ req'[q].stage \notin Working
    BY <1>8, NoCallTypes DEF Working
  <2>2. \A x \in Hosts : hosts'[x].busy = hosts[x].busy /\ hosts'[x].state = hosts[x].state
    BY <1>8
  <2>3. Pool'
    BY <1>1, <1>5, <1>6, <1>8, <2>1, <2>2, NoneIsNone, Stays
  <2>4. QED
    BY <1>5, <2>3
<1>9. QED
  BY <1>4, <1>7, <1>8

\* resumeThread answers for a turn, which registers its host and enters or fails.
LEMMA ResumeForTurnKept ==
  ASSUME IInv, NoneIsNone, Bounds, History, NEW q \in Requests, ResumeForTurn(q)
  PROVE  TypeOK' /\ Pool'
<1> DEFINE h == req[q].host
           t == req[q].thread
           hs == [hosts EXCEPT ![h].thread = t]
<1>1. /\ TypeOK /\ req[q].stage \in Owning /\ req[q].op = "turn" /\ t # None
      /\ req[q] \in Call /\ hosts \in [Hosts -> Host]
  BY OthersSame DEF IInv, ResumeForTurn, Owning
<1>2. h \in Hosts /\ t \in Threads
  BY <1>1, OwnHost DEF Call
<1>3. /\ hs \in [Hosts -> Host]
      /\ \A x \in Hosts : hs[x].busy = hosts[x].busy /\ hs[x].state = hosts[x].state
                          /\ (x # req[q].host => hs[x] = hosts[x])
  BY <1>1, <1>2 DEF Host
<1>4. UseEntry(q, req[q].host, t, hs) /\ runtimes' = [runtimes EXCEPT ![req[q].run] = req[q].host]
  BY DEF ResumeForTurn
<1>5. Others /\ nwriter' \in [Threads -> Hosts \cup {None, Lingering}]
  BY <1>1, OthersSame DEF ResumeForTurn, Others
<1> HIDE DEF hs, t
<1>6. QED
  BY <1>1, <1>2, <1>3, <1>4, <1>5, Registers

\* turn/start begins the turn on the host that the call has.
LEMMA TurnStartKept ==
  ASSUME IInv, NoneIsNone, Bounds, History, NEW q \in Requests, TurnStart(q)
  PROVE  TypeOK' /\ Pool'
<1> DEFINE h == req[q].host
<1>1. /\ TypeOK /\ Shapes /\ Shape(req[q]) /\ overlapped \subseteq overlapped'
      /\ req[q].stage = "configure"
      /\ req \in [Requests -> Call] /\ req[q] \in Call /\ hosts \in [Hosts -> Host]
  BY OthersSame DEF IInv, Pool, Shapes, History, TurnStart
<1>2. h \in Hosts
  BY <1>1, CallTypes DEF InHand, Working
<1>3. /\ hosts' \in [Hosts -> Host]
      /\ \A x \in Hosts : hosts'[x].busy = hosts[x].busy
                          /\ (hosts'[x].state # "none" \/ hosts[x].state = "none")
  <2>1. hosts' = [hosts EXCEPT ![h].state = "live"]
    BY DEF TurnStart
  <2>2. QED
    BY <1>1, <1>2, <2>1 DEF Host
<1>4. req' = [req EXCEPT ![q].stage = "turn"] /\ "turn" \in Stages
  BY DEF TurnStart, Stages
<1>5. /\ req'[q].op = req[q].op /\ req'[q].stage = "turn" /\ req'[q].run = req[q].run
      /\ req'[q].thread = req[q].thread /\ req'[q].host = req[q].host
      /\ \A x \in Requests : x # q => req'[x] = req[x]
  BY <1>1, <1>4 DEF Call
<1>6. req' \in [Requests -> Call]
  BY <1>1, <1>4 DEF Call
<1>7. Shapes'
  <2>1. Shape(req'[q])
    BY <1>1, <1>5 DEF Shape, InHand, Owning, Working
  <2>2. QED
    BY <1>1, <1>5, <2>1, Goes
<1>8. nwriter' \in [Threads -> Hosts \cup {None, Lingering}]
  BY <1>1, <1>2, OthersSame DEF TurnStart
<1>9. Others
  BY <1>1, OthersSame DEF TurnStart, Others
<1>10. PoolTypes
  BY <1>1, <1>3, <1>6, <1>8, OthersSame DEF TurnStart, PoolTypes
<1>11. TypeOK'
  BY <1>9, <1>10, Typed
<1>12. writers' = writers /\ runtimes' = runtimes
  BY DEF TurnStart
<1>13. Pool'
  BY <1>1, <1>3, <1>5, <1>7, <1>12, NoneIsNone, Begins
<1>14. QED
  BY <1>11, <1>13

\* The finally block: the entry is idle again and the writer is released.
LEMMA Finishes ==
  ASSUME IInv, NoneIsNone, History, NEW q \in Requests, req[q].stage \in Working,
         TurnOver(q, hosts) \/ TurnOver(q, EnsureProcess(req[q].host)), runtimes' = runtimes,
         nwriter' \in [Threads -> Hosts \cup {None, Lingering}], Others
  PROVE  TypeOK' /\ Pool'
<1> DEFINE h == req[q].host
           t == req[q].thread
<1>1. /\ TypeOK /\ Shapes /\ Busy /\ Sure /\ Overlaps /\ overlapped \subseteq overlapped'
      /\ hosts \in [Hosts -> Host]
  BY OthersSame DEF IInv, Pool, History
<1>2. /\ h \in Hosts /\ t \in Threads /\ req[q].run \in Runs /\ req[q].op = "turn"
      /\ \A x \in Requests : req[x].stage \in Working =>
            req[x].op = "turn" /\ req[x].thread \in Threads /\ req[x].run \in Runs
  BY <1>1, CallTypes DEF InHand, Shapes, Shape
<1>3. /\ req' \in [Requests -> Call] /\ Shapes' /\ req'[q] = NoCall
      /\ \A x \in Requests : x # q => req'[x] = req[x]
  BY <1>1, Ends DEF TurnOver
<1>4. /\ hosts' \in [Hosts -> Host] /\ ~hosts'[h].busy
      /\ hosts'[h].state # "none" \/ hosts[h].state = "none"
      /\ \A x \in Hosts : x # h => hosts'[x] = hosts[x]
  <2>1. ASSUME NEW hs \in [Hosts -> Host], \A x \in Hosts : x # h => hs[x] = hosts[x],
               hs[h].state # "none" \/ hosts[h].state = "none", TurnOver(q, hs)
        PROVE  /\ hosts' \in [Hosts -> Host] /\ ~hosts'[h].busy
               /\ hosts'[h].state # "none" \/ hosts[h].state = "none"
               /\ \A x \in Hosts : x # h => hosts'[x] = hosts[x]
    <3>1. hosts' = [hs EXCEPT ![h].busy = FALSE]
      BY <2>1 DEF TurnOver
    <3>2. hosts' \in [Hosts -> Host] /\ ~hosts'[h].busy /\ hosts'[h].state = hs[h].state
      BY <1>2, <2>1, <3>1 DEF Host
    <3>3. \A x \in Hosts : x # h => hosts'[x] = hs[x]
      BY <1>2, <2>1, <3>1
    <3>4. QED
      BY <2>1, <3>2, <3>3
  <2>2. CASE TurnOver(q, hosts)
    BY <1>1, <2>1, <2>2
  <2>3. CASE TurnOver(q, EnsureProcess(h))
    <3> DEFINE hs == EnsureProcess(h)
    <3>1. /\ hs \in [Hosts -> Host] /\ \A x \in Hosts : x # h => hs[x] = hosts[x]
          /\ hs[h].state # "none" \/ hosts[h].state = "none"
      BY <1>1, <1>2 DEF EnsureProcess, Host
    <3> HIDE DEF hs
    <3>2. TurnOver(q, hs)
      BY <2>3 DEF hs
    <3>3. QED
      BY <2>1, <3>1, <3>2
  <2>4. QED
    BY <2>2, <2>3
<1>5. /\ writers' \in [Threads -> Runs \cup {None}]
      /\ \A u \in Threads : writers'[u] = IF u = t /\ t # None /\ writers[t] = req[q].run
                                          THEN None ELSE writers[u]
  <2>1. writers' = ReleaseThreadWriter(writers, t, req[q].run) /\ writers \in [Threads -> Runs \cup {None}]
    BY <1>1, OthersSame DEF TurnOver
  <2>2. QED
    BY <2>1, ReleaseTypes
<1>6. usedBefore' \subseteq Hosts \X Hosts
  BY <1>1, <1>2, UseTypes, OthersSame DEF TurnOver
<1>7. TypeOK'
  <2>1. PoolTypes
    BY <1>1, <1>3, <1>4, <1>5, <1>6, OthersSame DEF PoolTypes
  <2>2. QED
    BY <2>1, Typed
<1>8. \A x \in Requests : req'[x].stage \in Working => x # q /\ req'[x] = req[x] /\ req[x].host # h
  BY <1>1, <1>3, NoCallTypes DEF Busy, Working
<1>9. \A x \in Hosts :
         \/ hosts'[x] = hosts[x]
         \/ /\ ~hosts'[x].busy
            /\ \A p \in Requests : req'[p].stage \in Working => req'[p].host # x
            /\ hosts'[x].state # "none" \/ hosts[x].state = "none"
  BY <1>4, <1>8
<1>10. ~hosts'[h].busy /\ writers'[t] # req[q].run
  BY <1>2, <1>4, <1>5, NoneIsNone DEF NoneIsNone
<1>11. \A x \in Requests : req[x].stage \in Working /\ req'[x] # req[x] =>
          ~hosts'[req[x].host].busy /\ writers'[req[x].thread] # req[x].run
  BY <1>3, <1>10
<1>12. ASSUME NEW x \in Requests, req[x].stage \in Working, req'[x] = req[x], req[x].run \notin overlapped
       PROVE  /\ writers'[req[x].thread] = writers[req[x].thread]
              /\ runtimes'[req[x].run] = runtimes[req[x].run]
  <2>1. x # q
    BY <1>12, <1>3, NoCallTypes DEF Working
  <2>2. req[x].run # req[q].run
    BY <1>1, <1>2, <1>12, <2>1 DEF Overlaps
  <2>3. writers[req[x].thread] = req[x].run
    BY <1>1, <1>12 DEF Sure
  <2>4. QED
    BY <1>2, <1>5, <1>12, <2>2, <2>3
<1>13. /\ \A x \in Requests : req'[x] = req[x] \/ req'[x].host = None
       /\ \A r \in Runs : runtimes'[r] \in {runtimes[r], None}
       /\ \A u \in Threads : writers'[u] \in {writers[u], None}
  BY <1>3, <1>5, NoCallTypes
<1>14. Pool'
  BY <1>1, <1>3, <1>7, <1>9, <1>11, <1>12, <1>13, NoneIsNone, Releases
<1>15. QED
  BY <1>7, <1>14

\* A step of the try block fails and the finally block runs.
LEMMA TurnFailsKept ==
  ASSUME IInv, NoneIsNone, Bounds, History, NEW q \in Requests, TurnFails(q)
  PROVE  TypeOK' /\ Pool'
<1>1. TypeOK /\ req[q].stage \in Working /\ (TurnOver(q, hosts) \/ TurnOver(q, EnsureProcess(req[q].host)))
      /\ runtimes' = runtimes
  BY DEF IInv, TurnFails, Working
<1>2. Others /\ nwriter' \in [Threads -> Hosts \cup {None, Lingering}]
  BY <1>1, OthersSame DEF TurnFails, Others
<1>3. QED
  BY <1>1, <1>2, Finishes

\* turn-completed arrives and the finally block runs.
LEMMA TurnCompletesKept ==
  ASSUME IInv, NoneIsNone, Bounds, History, NEW q \in Requests, TurnCompletes(q)
  PROVE  TypeOK' /\ Pool'
<1>1. TypeOK /\ req[q].stage \in Working /\ TurnOver(q, hosts) /\ runtimes' = runtimes
  BY DEF IInv, TurnCompletes, Working
<1>2. Others /\ nwriter' \in [Threads -> Hosts \cup {None, Lingering}]
  BY <1>1, OthersSame DEF TurnCompletes, Others
<1>3. QED
  BY <1>1, <1>2, Finishes

\* An idle entry is taken out of the pool.
LEMMA Drops ==
  ASSUME IInv, NoneIsNone, History, TypeOK', Shapes', NEW r \in Runs,
         runtimes[r] # None => ~hosts[runtimes[r]].busy,
         runtimes' = [runtimes EXCEPT ![r] = None], ShutDown({runtimes[r]}),
         \A u \in Threads : writers'[u] \in {writers[u], None} /\ (writers[u] # r => writers'[u] = writers[u]),
         \A x \in Requests : req'[x] = req[x] \/ (req'[x].host = None /\ req[x].stage \notin Working)
  PROVE  Pool'
<1> DEFINE h == runtimes[r]
<1>1. /\ TypeOK /\ Shapes /\ Owned /\ Busy /\ Sure /\ overlapped \subseteq overlapped'
      /\ \A x \in Requests : Shape(req[x]) /\ Shape(req'[x])
  BY DEF IInv, Pool, History, Shapes
<1>2. /\ \A x \in Hosts : hosts'[x] = IF x = h THEN NoHost ELSE hosts[x]
      /\ \A x \in Runs : runtimes'[x] = IF x = r THEN None ELSE runtimes[x]
  BY <1>1, ShutDownTypes, OthersSame
<1>3. ASSUME NEW x \in Requests, req[x].stage \in Working
      PROVE  req[x].host # h /\ req[x].host \in Hosts /\ req[x].run \in Runs /\ req[x].thread \in Threads
             /\ req'[x] = req[x]
  <2>1. req[x].host \in Hosts /\ req[x].run \in Runs /\ req[x].thread \in Threads
    BY <1>1, <1>3, CallTypes DEF InHand
  <2>2. hosts[req[x].host].busy /\ req[x].host # None
    BY <1>1, <1>3, <2>1, NoneIsNone DEF Busy, NoneIsNone
  <2>3. QED
    BY <1>3, <2>1, <2>2
<1>4. \A x \in Requests : req'[x].stage \in InHand => req'[x] = req[x]
  BY <1>1 DEF Shape
<1>5. ASSUME NEW x \in Hosts, x = h
      PROVE  /\ \A y \in Runs : runtimes'[y] # x
             /\ \A p \in Requests : req'[p].stage \in Owning => req'[p].host # x
             /\ \A p \in Requests : req'[p].stage \in Working => req'[p].host # x
  <2>1. h # None
    BY <1>5, NoneIsNone DEF NoneIsNone
  <2>2. \A y \in Runs : runtimes'[y] # x
    BY <1>1, <1>2, <1>5, <2>1 DEF Owned
  <2>3. \A p \in Requests : req[p].stage \in Owning => req[p].host # h
    BY <1>1 DEF Owned
  <2>4. QED
    BY <1>3, <1>4, <1>5, <2>2, <2>3 DEF InHand
<1>6. \A x \in Hosts :
         \/ hosts'[x] = hosts[x]
         \/ /\ ~hosts'[x].busy
            /\ \A p \in Requests : req'[p].stage \in Working => req'[p].host # x
            /\ \A y \in Runs : runtimes'[y] # x
            /\ \A p \in Requests : req'[p].stage \in Owning => req'[p].host # x
  BY <1>2, <1>5, HostTypes
<1>7. ASSUME NEW p \in Requests, req[p].stage \in Working, req[p].run \notin overlapped
      PROVE  /\ writers'[req[p].thread] = writers[req[p].thread]
             /\ runtimes'[req[p].run] = runtimes[req[p].run]
  <2>1. writers[req[p].thread] = req[p].run /\ runtimes[req[p].run] = req[p].host
    BY <1>1, <1>7 DEF Sure
  <2>2. QED
    BY <1>2, <1>3, <1>7, <2>1
<1>8. /\ \A x \in Requests : req'[x] = req[x] \/ req'[x].host = None
      /\ \A x \in Requests : req[x].stage \in Working => req'[x] = req[x]
      /\ \A x \in Runs : runtimes'[x] \in {runtimes[x], None}
      /\ \A u \in Threads : writers'[u] \in {writers[u], None}
  BY <1>2, <1>3
<1>9. QED
  BY <1>1, <1>6, <1>7, <1>8, NoneIsNone, Releases

\* The run of a resumption is bound to the thread and nothing else happens.
LEMMA Rebinds ==
  ASSUME IInv, NoneIsNone, Bounds, History, NEW q \in Requests, NEW t \in Threads,
         req[q].stage \in {"asked", "dropped", "refused"}, RebindOnly(q, t),
         UNCHANGED <<daemonRun, file, writers, native, skillDir, releasing, polls,
                     cancelled, calls, faults>>
  PROVE  TypeOK' /\ Pool'
<1>1. /\ TypeOK /\ Shapes /\ Shape(req[q]) /\ req[q].stage \notin Working
      /\ req \in [Requests -> Call] /\ req[q] \in Call /\ req[q].run \in Runs
  BY CallTypes DEF IInv, Pool, Shapes, Working
<1>2. bindings' \in Bindings /\ queue' \in Seq(Write)
  <2>1. bindings' \in Bindings
    BY <1>1, QueueTypes DEF RebindOnly, Rebind, Bindings
  <2>2. QED
    BY <1>1, <2>1, QueueTypes DEF RebindOnly
<1>3. req' = [req EXCEPT ![q].stage = "answer", ![q].thread = t] /\ "answer" \in Stages
  BY DEF RebindOnly, Stages
<1>4. /\ req'[q].op = req[q].op /\ req'[q].stage = "answer" /\ req'[q].run = req[q].run
      /\ req'[q].thread = t /\ req'[q].host = req[q].host
      /\ \A x \in Requests : x # q => req'[x] = req[x]
  BY <1>1, <1>3 DEF Call
<1>5. req' \in [Requests -> Call]
  BY <1>1, <1>3 DEF Call
<1>6. Shape(req'[q]) /\ req'[q].host = None
  BY <1>1, <1>4, NoneIsNone DEF Shape, InHand, Owning, Working, NoneIsNone
<1>7. Others
  BY <1>1, <1>2, OthersSame DEF Others
<1>8. UNCHANGED <<runtimes, usedBefore, writers, hosts, nwriter>>
  BY DEF RebindOnly
<1>9. QED
  BY <1>1, <1>4, <1>5, <1>6, <1>7, <1>8, CallAside

\* A resumption whose thread is being written rebinds the run only.
LEMMA ResumeRefusedKept ==
  ASSUME IInv, NoneIsNone, Bounds, History, NEW q \in Requests, ResumeRefused(q)
  PROVE  TypeOK' /\ Pool'
<1>1. TypeOK /\ Shapes /\ req[q].stage = "refused"
  BY DEF IInv, Pool, ResumeRefused
<1>2. req[q].thread \in Threads
  BY <1>1, CallTypes DEF Shapes, Shape
<1>3. QED
  BY <1>1, <1>2, Rebinds DEF ResumeRefused

\* resumeConversation rebinds a busy run, or drops the idle runtime of the run.
LEMMA ResumeConversationKept ==
  ASSUME IInv, NoneIsNone, Bounds, History, NEW q \in Requests, ResumeConversation(q)
  PROVE  TypeOK' /\ Pool'
<1> DEFINE r == req[q].run
           h == runtimes[r]
           t == IF hosts[h].thread # None THEN hosts[h].thread ELSE req[q].thread
<1>1. /\ TypeOK /\ Shapes /\ Shape(req[q]) /\ req[q].stage = "asked" /\ req[q].stage \notin Working
      /\ req[q].run \in Runs
  BY CallTypes DEF IInv, Pool, Shapes, ResumeConversation, Working
<1>2. req[q].thread \in Threads
  BY <1>1, CallTypes DEF Shape
<1>3. CASE h # None /\ RebindOnly(q, t)
  <2>1. t \in Threads
    <3>1. h \in Hosts
      BY <1>1, <1>3, OthersSame
    <3>2. hosts[h].thread \in Threads \cup {None}
      BY <1>1, <3>1, OthersSame DEF Host
    <3>3. QED
      BY <1>2, <3>2
  <2>2. UNCHANGED <<daemonRun, file, writers, native, skillDir, releasing, polls,
                    cancelled, calls, faults>>
    BY DEF ResumeConversation
  <2> HIDE DEF t
  <2>3. QED
    BY <1>1, <1>3, <2>1, <2>2, Rebinds
<1>4. CASE /\ h # None => ~hosts[h].busy
           /\ runtimes' = [runtimes EXCEPT ![r] = None]
           /\ ShutDown({h})
           /\ req' = [req EXCEPT ![q].stage = "dropped"]
           /\ UNCHANGED <<bindings, queue>>
  <2>1. "dropped" \in Stages
    BY DEF Stages
  <2>2. /\ req' \in [Requests -> Call] /\ \A x \in Requests : x # q => req'[x] = req[x]
        /\ req'[q].op = req[q].op /\ req'[q].stage = "dropped" /\ req'[q].run = req[q].run
        /\ req'[q].thread = req[q].thread /\ req'[q].host = req[q].host
    BY <1>1, <1>4, <2>1, Restages
  <2>3. Shape(req'[q]) /\ req'[q].host = None
    BY <1>1, <2>2 DEF Shape, InHand, Owning, Working
  <2>4. Shapes'
    BY <1>1, <2>2, <2>3, Goes
  <2>5. Others
    BY <1>1, <1>4, OthersSame DEF ResumeConversation, Others
  <2>6. writers' = writers /\ runtimes' \in [Runs -> Hosts \cup {None}]
    BY <1>1, <1>4, OthersSame DEF ResumeConversation
  <2>7. PoolTypes
    BY <1>1, <1>4, <2>2, <2>6, OthersSame, ShutDownTypes DEF PoolTypes
  <2>8. TypeOK'
    BY <2>5, <2>7, Typed
  <2>9. \A x \in Requests : req'[x] = req[x] \/ (req'[x].host = None /\ req[x].stage \notin Working)
    BY <1>1, <2>2, <2>3
  <2>10. QED
    BY <1>1, <1>4, <2>4, <2>6, <2>8, <2>9, Drops
<1>5. QED
  BY <1>3, <1>4 DEF ResumeConversation

\* Room for a call that comes from elsewhere in the pool.
LEMMA MakesRoom ==
  ASSUME IInv, NoneIsNone, Bounds, History, NEW q \in Requests,
         req[q].stage \in {"dropped", "freed"}, MakeCapacity(q, req[q].thread), Others
  PROVE  TypeOK' /\ Pool'
<1>1. TypeOK /\ Shapes /\ Shape(req[q])
  BY DEF IInv, Pool, Shapes
<1>2. req[q].op = "resume" /\ req[q].host = None /\ req[q].thread # None
  BY <1>1 DEF Shape, InHand, Owning, Working
<1>3. req[q].thread \in Threads \cup {None}
  BY <1>1, <1>2, CallTypes
<1>4. PoolTypes /\ (TypeOK' => Pool')
  BY <1>2, <1>3, Capacity
<1>5. QED
  BY <1>4, Typed

\* resumeConversation makes room after the duplicate's host has ended.
LEMMA DuplicateGoneKept ==
  ASSUME IInv, NoneIsNone, Bounds, History, NEW q \in Requests, DuplicateGone(q)
  PROVE  TypeOK' /\ Pool'
<1>1. TypeOK
  BY DEF IInv
<1>2. Others
  BY <1>1, OthersSame DEF DuplicateGone, Others
<1>3. QED
  BY <1>2, MakesRoom DEF DuplicateGone

\* resumeConversation rebinds, drops an idle duplicate or makes room.
LEMMA ResumeOnHostKept ==
  ASSUME IInv, NoneIsNone, Bounds, History, NEW q \in Requests, ResumeOnHost(q)
  PROVE  TypeOK' /\ Pool'
<1> DEFINE t == req[q].thread
           same == {h \in Registered : hosts[h].thread = t}
<1>1. /\ TypeOK /\ Shapes /\ Shape(req[q]) /\ req[q].stage = "dropped" /\ req[q].stage \notin Working
  BY DEF IInv, Pool, Shapes, ResumeOnHost, Working
<1>2. t \in Threads
  BY <1>1, CallTypes DEF Shape
<1>3. UNCHANGED <<daemonRun, file, native, skillDir, releasing, polls, cancelled, calls, faults>>
  BY DEF ResumeOnHost
<1>4. CASE RebindOnly(q, t) /\ UNCHANGED writers
  BY <1>1, <1>2, <1>3, <1>4, Rebinds
<1>5. CASE /\ \E duplicate \in same, x \in Runs :
                 /\ ~ hosts[duplicate].busy
                 /\ runtimes[x] = duplicate
                 /\ runtimes' = [runtimes EXCEPT ![x] = None]
                 /\ ShutDown({duplicate})
           /\ req' = [req EXCEPT ![q].stage = "freed"]
           /\ UNCHANGED <<bindings, queue, writers>>
  <2>1. PICK r \in Runs :
           /\ ~ hosts[runtimes[r]].busy
           /\ runtimes' = [runtimes EXCEPT ![r] = None]
           /\ ShutDown({runtimes[r]})
    BY <1>5
  <2>2. /\ req' \in [Requests -> Call] /\ \A x \in Requests : x # q => req'[x] = req[x]
        /\ req'[q].op = req[q].op /\ req'[q].stage = "freed" /\ req'[q].run = req[q].run
        /\ req'[q].thread = req[q].thread /\ req'[q].host = req[q].host
    <3>1. "freed" \in Stages
      BY DEF Stages
    <3>2. QED
      BY <1>1, <1>5, <3>1, Restages
  <2>3. Shape(req'[q]) /\ req'[q].host = None
    BY <1>1, <2>2 DEF Shape, InHand, Owning, Working
  <2>4. Shapes'
    BY <1>1, <2>2, <2>3, Goes
  <2>5. Others
    BY <1>1, <1>3, <1>5, OthersSame DEF Others
  <2>6. writers' = writers /\ runtimes' \in [Runs -> Hosts \cup {None}]
    BY <1>1, <1>5, <2>1, OthersSame
  <2>7. PoolTypes
    BY <1>1, <2>1, <2>2, <2>6, OthersSame, ShutDownTypes DEF PoolTypes
  <2>8. TypeOK'
    BY <2>5, <2>7, Typed
  <2>9. \A x \in Requests : req'[x] = req[x] \/ (req'[x].host = None /\ req[x].stage \notin Working)
    BY <1>1, <2>2, <2>3
  <2>10. QED
    BY <2>1, <2>4, <2>6, <2>8, <2>9, Drops
<1>6. CASE MakeCapacity(q, t) /\ UNCHANGED <<bindings, queue>>
  <2>1. Others
    BY <1>1, <1>3, <1>6, OthersSame DEF Others
  <2>2. QED
    BY <1>1, <1>6, <2>1, MakesRoom
<1>7. QED
  BY <1>4, <1>5, <1>6 DEF ResumeOnHost

\* discardMissingBinding drops the entry that the run has by now.
LEMMA DiscardMissingBindingKept ==
  ASSUME IInv, NoneIsNone, Bounds, History, NEW q \in Requests, DiscardMissingBinding(q)
  PROVE  TypeOK' /\ Pool'
<1> DEFINE r == req[q].run
           h == runtimes[r]
<1>1. /\ TypeOK /\ Shapes /\ Shape(req[q]) /\ req[q].stage = "read" /\ req[q].stage \notin Working
      /\ r \in Runs /\ req \in [Requests -> Call] /\ req[q] \in Call
  BY CallTypes DEF IInv, Pool, Shapes, DiscardMissingBinding, Working
<1>2. /\ h # None => ~hosts[h].busy
      /\ runtimes' = [runtimes EXCEPT ![r] = None]
      /\ ShutDown({h})
      /\ writers' = IF h = None THEN writers ELSE ReleaseThreadWriter(writers, hosts[h].thread, r)
  BY DEF DiscardMissingBinding
<1>3. req' = [req EXCEPT ![q].stage = "discard", ![q].host = None] /\ "discard" \in Stages
  BY DEF DiscardMissingBinding, Stages
<1>4. /\ req'[q].op = req[q].op /\ req'[q].stage = "discard" /\ req'[q].run = req[q].run
      /\ req'[q].thread = req[q].thread /\ req'[q].host = None
      /\ \A x \in Requests : x # q => req'[x] = req[x]
  BY <1>1, <1>3 DEF Call
<1>5. req' \in [Requests -> Call]
  BY <1>1, <1>3 DEF Call
<1>6. Shape(req'[q])
  BY <1>1, <1>4 DEF Shape, InHand, Owning, Working
<1>7. Shapes'
  BY <1>1, <1>4, <1>6, Goes
<1>8. /\ writers' \in [Threads -> Runs \cup {None}]
      /\ \A u \in Threads : writers'[u] \in {writers[u], None} /\ (writers[u] # r => writers'[u] = writers[u])
  <2>1. writers \in [Threads -> Runs \cup {None}]
    BY <1>1, OthersSame
  <2>2. CASE h = None
    BY <1>2, <2>1, <2>2
  <2>3. CASE h # None
    <3> DEFINE u == hosts[h].thread
    <3>1. writers' = ReleaseThreadWriter(writers, u, r)
      BY <1>2, <2>3
    <3> HIDE DEF u
    <3>2. QED
      BY <2>1, <3>1, ReleaseTypes
  <2>4. QED
    BY <2>2, <2>3
<1>9. Others
  BY <1>1, OthersSame DEF DiscardMissingBinding, Others
<1>10. runtimes' \in [Runs -> Hosts \cup {None}]
  BY <1>1, <1>2, OthersSame
<1>11. PoolTypes
  BY <1>1, <1>2, <1>5, <1>8, <1>10, ShutDownTypes DEF PoolTypes
<1>12. TypeOK'
  BY <1>9, <1>11, Typed
<1>13. \A x \in Requests : req'[x] = req[x] \/ (req'[x].host = None /\ req[x].stage \notin Working)
  BY <1>1, <1>4
<1> HIDE DEF r
<1>14. QED
  BY <1>1, <1>2, <1>7, <1>8, <1>12, <1>13, Drops

\* resumeThread answers for a resumption, which waits for the registry or gives its host up.
LEMMA ResumeAttachedKept ==
  ASSUME IInv, NoneIsNone, Bounds, History, NEW q \in Requests, ResumeAttached(q)
  PROVE  TypeOK' /\ Pool'
<1> DEFINE h == req[q].host
           t == req[q].thread
<1>1. /\ TypeOK /\ Shapes /\ Shape(req[q]) /\ overlapped \subseteq overlapped'
      /\ req[q].stage \in Owning /\ req[q].stage = "attach" /\ req[q].op = "resume"
      /\ req \in [Requests -> Call] /\ req[q] \in Call /\ hosts \in [Hosts -> Host]
  BY OthersSame DEF IInv, Pool, Shapes, History, ResumeAttached, Owning
<1>2. /\ h \in Hosts /\ h # None /\ req[q].run \in Runs /\ t \in Threads /\ t # None
      /\ req[q].stage \notin Working
  BY <1>1, OwnHost, CallTypes, NoneIsNone DEF NoneIsNone
<1>3. /\ UNCHANGED <<runtimes, writers>>
      /\ UNCHANGED <<daemonRun, file, native, skillDir, releasing, polls, cancelled, calls, faults>>
  BY DEF ResumeAttached
<1>4. CASE /\ bindings' = Rebind(req[q].run, t) /\ EnqueueWrite(bindings', q)
           /\ hosts' = [hosts EXCEPT ![h].thread = t]
           /\ req' = [req EXCEPT ![q].stage = "persist"]
           /\ UNCHANGED <<usedBefore, nwriter>>
  <2>1. bindings' \in Bindings /\ queue' \in Seq(Write)
    <3>1. bindings' \in Bindings
      BY <1>1, <1>2, <1>4, QueueTypes DEF Rebind, Bindings
    <3>2. QED
      BY <1>1, <1>4, <3>1, QueueTypes
  <2>2. /\ hosts' \in [Hosts -> Host]
        /\ \A x \in Hosts : hosts'[x].busy = hosts[x].busy /\ hosts'[x].state = hosts[x].state
    BY <1>1, <1>2, <1>4 DEF Host
  <2>3. /\ req' \in [Requests -> Call] /\ \A x \in Requests : x # q => req'[x] = req[x]
        /\ req'[q].op = req[q].op /\ req'[q].stage = "persist" /\ req'[q].run = req[q].run
        /\ req'[q].thread = req[q].thread /\ req'[q].host = req[q].host
    <3>1. "persist" \in Stages
      BY DEF Stages
    <3>2. QED
      BY <1>1, <1>4, <3>1, Restages
  <2>4. Shape(req'[q])
    BY <1>1, <1>2, <2>3 DEF Shape, InHand, Owning, Working
  <2>5. Shapes'
    BY <1>1, <2>3, <2>4, Goes
  <2>6. Others
    BY <1>1, <1>3, <2>1, OthersSame DEF Others
  <2>7. PoolTypes
    BY <1>1, <1>3, <1>4, <2>2, <2>3, OthersSame DEF PoolTypes
  <2>8. TypeOK'
    BY <2>6, <2>7, Typed
  <2>9. req'[q].stage \notin Working
    BY <2>3 DEF Working
  <2>10. Pool'
    BY <1>1, <1>2, <1>3, <2>2, <2>3, <2>5, <2>8, <2>9, NoneIsNone, Stays
  <2>11. QED
    BY <2>8, <2>10
<1>5. CASE /\ ShutDown({h}) /\ req' = [req EXCEPT ![q].stage = "refused", ![q].host = None]
           /\ UNCHANGED <<bindings, queue>>
  <2>1. req' = [req EXCEPT ![q].stage = "refused", ![q].host = None] /\ "refused" \in Stages
    BY <1>5 DEF Stages
  <2>2. /\ req'[q].op = req[q].op /\ req'[q].stage = "refused" /\ req'[q].run = req[q].run
        /\ req'[q].thread = req[q].thread /\ req'[q].host = None
        /\ \A x \in Requests : x # q => req'[x] = req[x]
    BY <1>1, <2>1 DEF Call
  <2>3. req' \in [Requests -> Call]
    BY <1>1, <2>1 DEF Call
  <2>4. Shape(req'[q])
    BY <1>1, <1>2, <2>2 DEF Shape, InHand, Owning, Working
  <2>5. Shapes'
    BY <1>1, <2>2, <2>4, Goes
  <2>6. Others
    BY <1>1, <1>3, <1>5, OthersSame DEF Others
  <2>7. PoolTypes
    BY <1>1, <1>3, <1>5, <2>3, OthersSame, ShutDownTypes DEF PoolTypes
  <2>8. TypeOK'
    BY <2>6, <2>7, Typed
  <2>9. QED
    BY <1>1, <1>3, <1>5, <2>2, <2>5, <2>8, GivesUp
<1>6. QED
  BY <1>4, <1>5 DEF ResumeAttached

\* A write of the registry ends, and the call that waited for it goes on or fails.
LEMMA WriteDoneKept ==
  ASSUME IInv, NoneIsNone, Bounds, History, NEW ok \in BOOLEAN, WriteDone(ok)
  PROVE  TypeOK' /\ Pool'
<1> DEFINE w == Head(queue)
           q == w.by
           waits == q # None /\ req[q].stage \in {"persist", "answer", "unbound"}
           h == req[q].host
<1>1. TypeOK /\ Shapes /\ overlapped \subseteq overlapped' /\ hosts \in [Hosts -> Host]
  BY OthersSame DEF IInv, Pool, History
<1>2. w.snapshot \in Bindings /\ q \in Requests \cup {None} /\ queue' \in Seq(Write)
  <2>1. w \in Write /\ queue' \in Seq(Write)
    BY <1>1, QueueTypes DEF WriteDone
  <2>2. QED
    BY <2>1 DEF Write
<1>3. faults' \in 0..MaxFaults /\ file' \in Bindings
  BY <1>1, <1>2, Counts, OthersSame DEF WriteDone
<1>4. releasing' \subseteq [run : Runs, by : Requests \cup {None}]
  BY <1>1, OthersSame DEF WriteDone
<1>5. Others
  BY <1>1, <1>2, <1>3, <1>4, OthersSame DEF WriteDone, Others
<1>6. CASE ~waits /\ UNCHANGED <<runtimes, usedBefore, writers, hosts, nwriter, req>>
  BY <1>1, <1>5, <1>6, OthersSame, NoneMoves
<1>7. CASE /\ waits /\ req[q].stage \in {"answer", "unbound"}
           /\ req' = IF ok /\ req[q].stage = "unbound"
                     THEN [req EXCEPT ![q].stage = "cleaning"]
                     ELSE [req EXCEPT ![q] = NoCall]
           /\ UNCHANGED <<runtimes, usedBefore, writers, hosts, nwriter>>
  <2>1. q \in Requests /\ Shape(req[q]) /\ req[q].stage \notin Working
    BY <1>1, <1>2, <1>7 DEF Shapes, Working
  <2> HIDE DEF q
  <2>2. CASE req[q].stage = "unbound" /\ req' = [req EXCEPT ![q].stage = "cleaning"]
    <3>1. "cleaning" \in Stages
      BY DEF Stages
    <3>2. /\ req' \in [Requests -> Call] /\ \A x \in Requests : x # q => req'[x] = req[x]
          /\ req'[q].op = req[q].op /\ req'[q].stage = "cleaning" /\ req'[q].run = req[q].run
          /\ req'[q].thread = req[q].thread /\ req'[q].host = req[q].host
      BY <1>1, <2>1, <2>2, <3>1, Restages
    <3>3. req'[q].host = None /\ Shape(req'[q])
      BY <2>1, <2>2, <3>2 DEF Shape, InHand, Owning, Working
    <3>4. QED
      BY <1>5, <1>7, <2>1, <3>2, <3>3, CallAside
  <2>3. CASE req' = [req EXCEPT ![q] = NoCall]
    BY <1>5, <1>7, <2>1, <2>3, EndsAside
  <2>4. QED
    BY <1>7, <2>2, <2>3
<1>8. CASE /\ waits /\ req[q].stage = "persist"
           /\ ShutDown({h}) /\ req' = [req EXCEPT ![q] = NoCall]
           /\ UNCHANGED <<runtimes, writers>>
  <2>1. q \in Requests /\ req[q].stage \in Owning
    BY <1>2, <1>8 DEF Owning
  <2> HIDE DEF q
  <2>2. /\ req' \in [Requests -> Call] /\ Shapes' /\ req'[q].host = None
        /\ \A x \in Requests : x # q => req'[x] = req[x]
    BY <1>1, <1>8, <2>1, Ends, NoCallTypes
  <2>3. PoolTypes
    BY <1>1, <1>8, <2>2, OthersSame, ShutDownTypes DEF PoolTypes
  <2>4. TypeOK'
    BY <1>5, <2>3, Typed
  <2>5. QED
    BY <1>8, <2>1, <2>2, <2>4, GivesUp
<1>9. CASE /\ waits /\ req[q].stage = "persist"
           /\ runtimes' = [runtimes EXCEPT ![req[q].run] = h]
           /\ \/ /\ req[q].op = "turn"
                 /\ UseEntry(q, h, req[q].thread, hosts)
              \/ /\ req[q].op = "resume"
                 /\ usedBefore' = Touch(h)
                 /\ req' = [req EXCEPT ![q] = NoCall]
                 /\ UNCHANGED <<writers, hosts>>
           /\ UNCHANGED nwriter
  <2>1. /\ q \in Requests /\ req[q].stage \in Owning /\ req[q].thread \in Threads
        /\ req[q].stage \notin Working
    <3>1. q \in Requests /\ req[q].stage = "persist"
      BY <1>2, <1>9
    <3> HIDE DEF q
    <3>2. QED
      BY <1>1, <3>1, CallTypes DEF Owning, Working
  <2>2. nwriter' \in [Threads -> Hosts \cup {None, Lingering}]
    BY <1>1, <1>9, OthersSame
  <2> HIDE DEF q
  <2>3. CASE req[q].op = "turn" /\ UseEntry(q, h, req[q].thread, hosts)
    <3> DEFINE t == req[q].thread
    <3>1. \A x \in Hosts : hosts[x].busy = hosts[x].busy /\ hosts[x].state = hosts[x].state
                          /\ (x # req[q].host => hosts[x] = hosts[x])
      OBVIOUS
    <3>2. UseEntry(q, req[q].host, t, hosts) /\ runtimes' = [runtimes EXCEPT ![req[q].run] = req[q].host]
      BY <1>9, <2>3
    <3>3. t \in Threads
      BY <2>1
    <3> HIDE DEF t
    <3>4. QED
      BY <1>1, <1>5, <2>1, <2>2, <2>3, <3>1, <3>2, <3>3, Registers
  <2>4. CASE /\ usedBefore' = Touch(h) /\ req' = [req EXCEPT ![q] = NoCall]
             /\ UNCHANGED <<writers, hosts>>
    <3>1. /\ req' \in [Requests -> Call] /\ Shapes' /\ req'[q] = NoCall
          /\ \A x \in Requests : x # q => req'[x] = req[x]
      BY <1>1, <2>1, <2>4, Ends
    <3>2. h \in Hosts /\ req[q].run \in Runs
      BY <2>1, OwnHost
    <3>3. usedBefore' \subseteq Hosts \X Hosts
      BY <1>1, <2>4, <3>2, UseTypes
    <3>4. runtimes' = [runtimes EXCEPT ![req[q].run] = req[q].host]
      BY <1>9
    <3>5. PoolTypes
      BY <1>1, <2>2, <2>4, <3>1, <3>2, <3>3, <3>4, OthersSame DEF PoolTypes
    <3>6. TypeOK'
      BY <1>5, <3>5, Typed
    <3>7. req'[q].host = None /\ req'[q].stage \notin Working
      BY <3>1, NoCallTypes DEF Working
    <3>8. /\ writers' = writers
          /\ \A x \in Hosts : hosts'[x].busy = hosts[x].busy /\ hosts'[x].state = hosts[x].state
      BY <2>4
    <3>9. Pool'
      BY <1>1, <2>1, <3>1, <3>4, <3>6, <3>7, <3>8, NoneIsNone, Stays
    <3>10. QED
      BY <3>6, <3>9
  <2>5. QED
    BY <1>9, <2>3, <2>4
<1>10. QED
  BY <1>6, <1>7, <1>8, <1>9 DEF WriteDone

\* release drops the runtime of a run and ends the turns on it.
LEMMA ReleaseKept ==
  ASSUME IInv, NoneIsNone, Bounds, History, NEW r \in Runs, Release(r)
  PROVE  TypeOK' /\ Pool'
<1> DEFINE h == runtimes[r]
<1>1. /\ TypeOK /\ Shapes /\ Owned /\ Busy /\ Sure /\ overlapped \subseteq overlapped'
      /\ h \in Hosts \cup {None} /\ req \in [Requests -> Call]
  BY OthersSame DEF IInv, Pool, History
<1>2. /\ runtimes' = [runtimes EXCEPT ![r] = None] /\ ShutDown({h})
      /\ req' = [x \in Requests |-> IF h # None /\ x \in Holding(h) THEN NoCall ELSE req[x]]
      /\ writers' = [t \in Threads |->
             IF h # None /\ writers[t] = r
                /\ (t = hosts[h].thread \/ \E x \in Holding(h) : req[x].thread = t)
             THEN None ELSE writers[t]]
  BY DEF Release
<1>3. \A x \in Requests :
         IF h # None /\ req[x].host = h /\ req[x].stage \in Working
         THEN req'[x] = NoCall ELSE req'[x] = req[x]
  BY <1>2 DEF Holding, Working
<1>4. req' \in [Requests -> Call] /\ Shapes'
  <2>1. req' \in [Requests -> Call]
    BY <1>1, <1>2, NoCallTypes
  <2>2. \A x \in Requests : req'[x] = NoCall \/ req'[x] = req[x]
    BY <1>3
  <2>3. QED
    BY <1>1, <2>1, <2>2, NoCallTypes DEF Shapes
<1>5. /\ hosts' \in [Hosts -> Host] /\ nwriter' \in [Threads -> Hosts \cup {None, Lingering}]
      /\ usedBefore' \subseteq Hosts \X Hosts
      /\ \A x \in Hosts : hosts'[x] = IF x = h THEN NoHost ELSE hosts[x]
  BY <1>1, <1>2, ShutDownTypes
<1>6. /\ writers' \in [Threads -> Runs \cup {None}]
      /\ \A t \in Threads : writers'[t] \in {writers[t], None}
                            /\ (writers[t] # r => writers'[t] = writers[t])
  BY <1>1, <1>2, OthersSame
<1>7. /\ runtimes' \in [Runs -> Hosts \cup {None}]
      /\ \A x \in Runs : runtimes'[x] = IF x = r THEN None ELSE runtimes[x]
  BY <1>1, <1>2, OthersSame
<1>8. Others
  <2>1. releasing' \subseteq [run : Runs, by : Requests \cup {None}]
    BY <1>1, OthersSame DEF Release
  <2>2. cancelled' \subseteq Runs
    BY <1>1, OthersSame DEF Release
  <2>3. QED
    BY <1>1, <2>1, <2>2, OthersSame DEF Release, Others
<1>9. PoolTypes
  BY <1>4, <1>5, <1>6, <1>7 DEF PoolTypes
<1>10. TypeOK'
  BY <1>8, <1>9, Typed
<1>11. \A x \in Requests : req[x].stage \in Working =>
          req[x].host \in Hosts /\ req[x].run \in Runs /\ req[x].thread \in Threads
  BY <1>1, CallTypes DEF InHand
<1>12. \A x \in Requests : req'[x].stage \in Working \cup Owning => req'[x] = req[x]
  BY <1>3, NoCallTypes DEF Working, Owning
<1>13. ASSUME NEW x \in Hosts, x = h
       PROVE  /\ \A y \in Runs : runtimes'[y] # x
              /\ \A p \in Requests : req'[p].stage \in Owning => req'[p].host # x
              /\ \A p \in Requests : req'[p].stage \in Working => req'[p].host # x
  <2>1. h # None
    BY <1>13, NoneIsNone DEF NoneIsNone
  <2>2. \A y \in Runs : runtimes'[y] # x
    BY <1>1, <1>7, <1>13, <2>1 DEF Owned
  <2>3. \A p \in Requests : req'[p].stage \in Owning => req'[p].host # x
    BY <1>1, <1>12, <1>13 DEF Owned
  <2>4. \A p \in Requests : req'[p].stage \in Working => req'[p].host # x
    BY <1>3, <1>12, <1>13, <2>1, NoCallTypes DEF Working
  <2>5. QED
    BY <2>2, <2>3, <2>4
<1>14. \A x \in Hosts :
         \/ hosts'[x] = hosts[x]
         \/ /\ ~hosts'[x].busy
            /\ \A p \in Requests : req'[p].stage \in Working => req'[p].host # x
            /\ \A y \in Runs : runtimes'[y] # x
            /\ \A p \in Requests : req'[p].stage \in Owning => req'[p].host # x
  BY <1>5, <1>13, HostTypes
<1>15. ASSUME NEW x \in Requests, req[x].stage \in Working, req'[x] # req[x]
       PROVE  ~hosts'[req[x].host].busy /\ writers'[req[x].thread] # req[x].run
  <2>1. h # None /\ req[x].host = h
    BY <1>3, <1>15
  <2>2. req[x].run = r /\ req[x].run # None
    BY <1>1, <1>11, <1>15, <2>1, NoneIsNone DEF Owned, NoneIsNone
  <2>3. x \in Holding(h)
    BY <1>15, <2>1 DEF Holding, Working
  <2>4. writers'[req[x].thread] # r
    BY <1>2, <1>11, <1>15, <2>1, <2>2, <2>3
  <2>5. ~hosts'[req[x].host].busy
    BY <1>5, <1>11, <1>15, <2>1, HostTypes
  <2>6. QED
    BY <2>2, <2>4, <2>5
<1>16. ASSUME NEW x \in Requests, req[x].stage \in Working, req'[x] = req[x], req[x].run \notin overlapped
       PROVE  /\ writers'[req[x].thread] = writers[req[x].thread]
              /\ runtimes'[req[x].run] = runtimes[req[x].run]
  <2>1. writers[req[x].thread] = req[x].run /\ runtimes[req[x].run] = req[x].host
    BY <1>1, <1>16 DEF Sure
  <2>2. req[x].run # r
    <3>1. SUFFICES ASSUME req[x].run = r PROVE FALSE
      OBVIOUS
    <3>2. req[x].host = h /\ h # None
      BY <1>11, <1>16, <2>1, <3>1, NoneIsNone DEF NoneIsNone
    <3>3. req'[x] = NoCall
      BY <1>3, <1>16, <3>2
    <3>4. QED
      BY <1>16, <3>3, NoCallTypes DEF Working
  <2>3. QED
    BY <1>6, <1>7, <1>11, <1>16, <2>1, <2>2
<1>17. /\ \A x \in Requests : req'[x] = req[x] \/ req'[x].host = None
       /\ \A x \in Runs : runtimes'[x] \in {runtimes[x], None}
  BY <1>3, <1>7, NoCallTypes
<1>18. Pool'
  BY <1>4, <1>6, <1>1, <1>10, <1>14, <1>15, <1>16, <1>17, NoneIsNone, Releases
<1>19. QED
  BY <1>10, <1>18

\* clearWorkspace drops every runtime, none of them busy.
LEMMA ClearWorkspaceKept ==
  ASSUME IInv, NoneIsNone, Bounds, History, NEW q \in Requests, ClearWorkspace(q)
  PROVE  TypeOK' /\ Pool'
<1> DEFINE c == [NoCall EXCEPT !.op = "clear", !.stage = "clear"]
<1>1. /\ TypeOK /\ Shapes /\ Owned /\ Busy /\ Sure /\ overlapped \subseteq overlapped'
      /\ req[q] = NoCall /\ req[q].stage \notin Working
  BY NoCallTypes DEF IInv, Pool, History, ClearWorkspace, Working
<1>2. /\ \A h \in Registered : ~hosts[h].busy
      /\ runtimes' = [r \in Runs |-> None] /\ ShutDown(Registered)
      /\ \A t \in Threads : writers'[t] \in {writers[t], None}
  BY DEF ClearWorkspace
<1>3. c \in Call /\ Shape(c) /\ c.host = None
  <2>1. /\ c.op = "clear" /\ c.stage = "clear" /\ c.run = None /\ c.thread = None /\ c.host = None
        /\ c \in Call
    <3>1. "clear" \in Ops /\ "clear" \in Stages
      BY DEF Ops, Stages
    <3>2. QED
      BY <3>1, NoCallTypes DEF Call
  <2>2. QED
    BY <2>1 DEF Shape, InHand, Owning, Working
<1>4. req' = [req EXCEPT ![q] = c]
  BY DEF ClearWorkspace
<1> HIDE DEF c
<1>5. /\ req' \in [Requests -> Call] /\ Shapes' /\ req'[q] = c
      /\ \A x \in Requests : x # q => req'[x] = req[x]
  BY <1>1, <1>3, <1>4, Moves
<1>6. /\ hosts' \in [Hosts -> Host] /\ nwriter' \in [Threads -> Hosts \cup {None, Lingering}]
      /\ usedBefore' \subseteq Hosts \X Hosts
      /\ \A x \in Hosts : hosts'[x] = IF x \in Registered THEN NoHost ELSE hosts[x]
  BY <1>1, <1>2, ShutDownTypes
<1>7. writers' \in [Threads -> Runs \cup {None}] /\ runtimes' \in [Runs -> Hosts \cup {None}]
  BY <1>1, OthersSame DEF ClearWorkspace
<1>8. Others
  BY <1>1, OthersSame, Counts DEF ClearWorkspace, Others
<1>9. PoolTypes
  BY <1>5, <1>6, <1>7 DEF PoolTypes
<1>10. TypeOK'
  BY <1>8, <1>9, Typed
<1>11. \A x \in Requests : req[x].stage \in Working =>
          req[x].host \in Hosts /\ req[x].host \notin Registered /\ req[x].run \in Runs
  BY <1>1, <1>2, CallTypes DEF InHand, Busy
<1>12. \A x \in Requests : req'[x].host # None => req'[x] = req[x]
  BY <1>3, <1>5
<1>13. \A x \in Requests : req'[x].stage \in Working \cup Owning => req'[x] = req[x]
  BY <1>5, <1>12 DEF Shapes, Shape, InHand
<1>14. ASSUME NEW x \in Hosts, x \in Registered
       PROVE  /\ \A y \in Runs : runtimes'[y] # x
              /\ \A p \in Requests : req'[p].stage \in Owning => req'[p].host # x
              /\ \A p \in Requests : req'[p].stage \in Working => req'[p].host # x
  <2>1. \A y \in Runs : runtimes'[y] # x
    BY <1>2, NoneIsNone DEF NoneIsNone
  <2>2. \A p \in Requests : req'[p].stage \in Owning => req'[p].host # x
    BY <1>1, <1>13, <1>14 DEF Owned, Registered
  <2>3. \A p \in Requests : req'[p].stage \in Working => req'[p].host # x
    BY <1>11, <1>13, <1>14
  <2>4. QED
    BY <2>1, <2>2, <2>3
<1>15. \A x \in Hosts :
         \/ hosts'[x] = hosts[x]
         \/ /\ ~hosts'[x].busy
            /\ \A p \in Requests : req'[p].stage \in Working => req'[p].host # x
            /\ \A y \in Runs : runtimes'[y] # x
            /\ \A p \in Requests : req'[p].stage \in Owning => req'[p].host # x
  BY <1>6, <1>14, HostTypes
<1>16. ASSUME NEW x \in Requests, req[x].stage \in Working, req[x].run \notin overlapped
       PROVE  FALSE
  <2>1. runtimes[req[x].run] = req[x].host
    BY <1>1, <1>16 DEF Sure
  <2>2. req[x].host \in Registered
    BY <1>11, <1>16, <2>1, NoneIsNone DEF Registered, NoneIsNone
  <2>3. QED
    BY <1>11, <1>16, <2>2
<1>17. /\ \A x \in Requests : req'[x] = req[x] \/ req'[x].host = None
       /\ \A x \in Requests : req[x].stage \in Working => req'[x] = req[x]
       /\ \A x \in Runs : runtimes'[x] \in {runtimes[x], None}
  BY <1>1, <1>2, <1>3, <1>5
<1>18. Pool'
  BY <1>1, <1>2, <1>5, <1>10, <1>15, <1>16, <1>17, NoneIsNone, Releases
<1>19. QED
  BY <1>10, <1>18

\* An app-server process exits and every call that waits on it fails.
LEMMA HostExitsKept ==
  ASSUME IInv, NoneIsNone, Bounds, History, NEW h \in Hosts, HostExits(h)
  PROVE  TypeOK' /\ Pool'
<1> DEFINE working == Holding(h)
           attach == Attaching(h)
           reading == {x \in Requests : req[x].host = h /\ req[x].stage = "read"}
           down == [state |-> "exited", thread |-> hosts[h].thread,
                    busy |-> IF working = {} THEN hosts[h].busy ELSE FALSE]
           left == IF attach # {} THEN NoHost ELSE down
<1>1. /\ TypeOK /\ Shapes /\ Owned /\ Busy /\ Sure /\ Overlaps /\ overlapped \subseteq overlapped'
      /\ hosts \in [Hosts -> Host] /\ hosts[h] \in Host /\ req \in [Requests -> Call] /\ h # None
  BY OthersSame, NoneIsNone DEF IInv, Pool, History, NoneIsNone
<1>2. /\ hosts' = [hosts EXCEPT ![h] = left]
      /\ req' = [x \in Requests |-> IF x \in working \cup attach \cup reading THEN NoCall ELSE req[x]]
      /\ writers' = [t \in Threads |->
             IF \E x \in working : req[x].thread = t /\ writers[t] = req[x].run
             THEN None ELSE writers[t]]
      /\ runtimes' = runtimes
  BY DEF HostExits
<1>3. left \in Host /\ ~left.busy /\ (left.state # "none" \/ attach # {})
  <2>1. working = {} => ~hosts[h].busy
    BY <1>1 DEF Busy, Holding, Working
  <2>2. down \in Host /\ ~down.busy /\ down.state # "none"
    BY <1>1, <2>1 DEF Host
  <2> HIDE DEF down
  <2>3. QED
    BY <2>2, HostTypes
<1>4. \A x \in Requests : IF req[x].host = h /\ req[x].stage \in Working \cup {"attach", "read"}
                          THEN req'[x] = NoCall ELSE req'[x] = req[x]
  BY <1>2 DEF Holding, Attaching, Working
<1> HIDE DEF left
<1>5. req' \in [Requests -> Call] /\ Shapes'
  <2>1. \A x \in Requests : req'[x] = NoCall \/ req'[x] = req[x]
    BY <1>4
  <2>2. req' \in [Requests -> Call]
    <3>1. \A x \in Requests : req'[x] \in Call
      BY <1>1, <2>1, NoCallTypes
    <3>2. QED
      BY <1>2, <3>1
  <2>3. QED
    BY <1>1, <2>1, <2>2, NoCallTypes DEF Shapes
<1>6. hosts' \in [Hosts -> Host] /\ hosts'[h] = left /\ \A x \in Hosts : x # h => hosts'[x] = hosts[x]
  BY <1>1, <1>2, <1>3
<1>7. writers' \in [Threads -> Runs \cup {None}] /\ \A t \in Threads : writers'[t] \in {writers[t], None}
  BY <1>1, <1>2, OthersSame
<1>8. nwriter' \in [Threads -> Hosts \cup {None, Lingering}] /\ usedBefore' \subseteq Hosts \X Hosts
  <2>1. nwriter' \in [Threads -> Hosts \cup {None, Lingering}]
    BY <1>1, OthersSame DEF HostExits
  <2>2. usedBefore' \in {Untracked({h}), Touch(h), usedBefore}
    BY DEF HostExits
  <2>3. QED
    BY <1>1, <2>1, <2>2, UseTypes, OthersSame
<1>9. Others
  BY <1>1, OthersSame, Counts DEF HostExits, Others
<1>10. TypeOK'
  <2>1. PoolTypes
    BY <1>1, <1>2, <1>5, <1>6, <1>7, <1>8, OthersSame DEF PoolTypes
  <2>2. QED
    BY <1>9, <2>1, Typed
<1>11. \A x \in Requests : req[x].stage \in Working =>
          /\ req[x].host \in Hosts /\ req[x].run \in Runs /\ req[x].run # None
          /\ req[x].thread \in Threads /\ req[x].op = "turn"
  BY <1>1, CallTypes, NoneIsNone DEF InHand, Shapes, Shape, NoneIsNone
<1>12. \A x \in Requests : req'[x].stage \in Working \cup Owning => req'[x] = req[x]
  BY <1>4, NoCallTypes DEF Working, Owning
<1>13. \A x \in Requests : req'[x].stage \in Working => req'[x].host # h
  BY <1>4, <1>12, NoCallTypes DEF Working
<1>14. ASSUME attach # {}
       PROVE  /\ \A y \in Runs : runtimes'[y] # h
              /\ \A p \in Requests : req'[p].stage \in Owning => req'[p].host # h
  <2>1. PICK p \in Requests : req[p].host = h /\ req[p].stage = "attach"
    BY <1>14 DEF Attaching
  <2>2. /\ \A y \in Runs : runtimes[y] # h
        /\ \A x \in Requests : req[x].host = h => x = p
    BY <1>1, <2>1 DEF Owned, Owning
  <2>3. req'[p] = NoCall
    BY <1>4, <2>1
  <2>4. QED
    BY <1>2, <1>12, <2>2, <2>3, NoCallTypes DEF Owning
<1>15. \A x \in Hosts :
         \/ hosts'[x] = hosts[x]
         \/ /\ ~hosts'[x].busy
            /\ \A p \in Requests : req'[p].stage \in Working => req'[p].host # x
            /\ \/ hosts'[x].state # "none" \/ hosts[x].state = "none"
               \/ /\ \A y \in Runs : runtimes'[y] # x
                  /\ \A p \in Requests : req'[p].stage \in Owning => req'[p].host # x
  BY <1>3, <1>6, <1>13, <1>14
<1>16. ASSUME NEW x \in Requests, req[x].stage \in Working, req'[x] # req[x]
       PROVE  ~hosts'[req[x].host].busy /\ writers'[req[x].thread] # req[x].run
  <2>1. req[x].host = h /\ x \in working
    BY <1>4, <1>16 DEF Holding, Working
  <2>2. writers'[req[x].thread] # req[x].run
    BY <1>2, <1>11, <1>16, <2>1
  <2>3. QED
    BY <1>3, <1>6, <2>1, <2>2
<1>17. ASSUME NEW x \in Requests, req[x].stage \in Working, req'[x] = req[x], req[x].run \notin overlapped
       PROVE  /\ writers'[req[x].thread] = writers[req[x].thread]
              /\ runtimes'[req[x].run] = runtimes[req[x].run]
  <2>1. writers[req[x].thread] = req[x].run
    BY <1>1, <1>17 DEF Sure
  <2>2. req[x].host # h
    BY <1>13, <1>17
  <2>3. ASSUME NEW p \in working PROVE req[p].run # req[x].run
    <3>1. p \in Requests /\ req[p].host = h /\ req[p].stage \in Working /\ p # x
      BY <2>2 DEF Holding, Working
    <3>2. QED
      BY <1>1, <1>11, <1>17, <3>1 DEF Overlaps
  <2>4. QED
    BY <1>2, <1>11, <1>17, <2>1, <2>3
<1>18. /\ \A x \in Requests : req'[x] = req[x] \/ req'[x].host = None
       /\ \A x \in Runs : runtimes'[x] \in {runtimes[x], None}
  BY <1>2, <1>4, NoCallTypes
<1>19. Pool'
  BY <1>1, <1>5, <1>7, <1>10, <1>15, <1>16, <1>17, <1>18, NoneIsNone, Releases
<1>20. QED
  BY <1>10, <1>19

\* The application starts again with nothing but the registry.
LEMMA RestartKept ==
  ASSUME IInv, NoneIsNone, Bounds, History, Restart
  PROVE  TypeOK' /\ Pool'
<1>1. TypeOK /\ overlapped \subseteq overlapped'
  BY DEF IInv, History
<1>2. /\ runtimes' = [r \in Runs |-> None] /\ writers' = [t \in Threads |-> None]
      /\ ShutDown(Hosts) /\ req' = [x \in Requests |-> NoCall]
      /\ bindings' = file /\ queue' = <<>> /\ releasing' = {} /\ cancelled' = {}
      /\ polls' = [r \in Runs |-> 0]
  BY DEF Restart
<1>3. req' \in [Requests -> Call] /\ Shapes' /\ \A x \in Requests : req'[x] = NoCall
  BY <1>2, NoCallTypes DEF Shapes
<1>4. /\ hosts' \in [Hosts -> Host] /\ nwriter' \in [Threads -> Hosts \cup {None, Lingering}]
      /\ usedBefore' \subseteq Hosts \X Hosts
      /\ \A x \in Hosts : hosts'[x] = NoHost
  BY <1>1, <1>2, ShutDownTypes
<1>5. faults' \in 0..MaxFaults
  BY <1>1, Counts, OthersSame DEF Restart
<1>6. polls' \in [Runs -> 0..MaxPolls]
  BY <1>2 DEF Bounds
<1>7. queue' \in Seq(Write)
  BY <1>2
<1>8. Others
  BY <1>1, <1>2, <1>5, <1>6, <1>7, OthersSame DEF Restart, Others
<1>9. PoolTypes
  BY <1>2, <1>3, <1>4 DEF PoolTypes
<1>10. TypeOK'
  BY <1>8, <1>9, Typed
<1>11. \A x \in Requests : req'[x].host = None /\ req'[x].stage \notin Working \cup Owning
  BY <1>3, NoCallTypes DEF Working, Owning
<1>12. \A x \in Hosts :
         /\ ~hosts'[x].busy
         /\ \A p \in Requests : req'[p].stage \in Working => req'[p].host # x
         /\ \A y \in Runs : runtimes'[y] # x
         /\ \A p \in Requests : req'[p].stage \in Owning => req'[p].host # x
  BY <1>2, <1>4, <1>11, HostTypes, NoneIsNone DEF NoneIsNone
<1>13. \A r \in Runs : runtimes'[r] = None
  BY <1>2
<1>14. \A t \in Threads : writers'[t] = None
  BY <1>2
<1>15. Owned'
  BY <1>11, <1>13 DEF Owned
<1>16. Busy'
  <2>1. \A x \in Requests : req'[x].stage # "busy"
    BY <1>3, NoCallTypes
  <2>2. QED
    BY <1>11, <1>12, <2>1 DEF Busy
<1>17. Sure' /\ WriterHeldByTurn'
  BY <1>11, <1>14 DEF Sure, WriterHeldByTurn
<1>18. QED
  BY <1>3, <1>10, <1>15, <1>16, <1>17 DEF Pool

-----------------------------------------------------------------------------
(* A thread is written by one turn at a time.                              *)

\* The invariant holds when the application starts.
LEMMA Initially ==
  ASSUME NoneIsNone, Bounds, Init
  PROVE  IInv
<1>1. /\ \A r \in Runs : runtimes[r] = None
      /\ \A t \in Threads : writers[t] = None
      /\ \A h \in Hosts : hosts[h] = NoHost
      /\ \A q \in Requests : req[q] = NoCall
  BY DEF Init
<1>2. TypeOK
  <2>1. NoHost \in Host /\ NoCall \in Call
    BY HostTypes, NoCallTypes
  <2>2. 0 \in 0..MaxCalls /\ 0 \in 0..MaxFaults /\ 0 \in 0..MaxPolls
    BY DEF Bounds
  <2>3. queue \in Seq([snapshot : [Runs -> Threads \cup {None}], by : Requests \cup {None}])
    BY DEF Init
  <2>4. /\ hosts \in [Hosts -> Host] /\ req \in [Requests -> Call]
        /\ polls \in [Runs -> 0..MaxPolls]
    BY <2>1, <2>2 DEF Init
  <2>5. /\ daemonRun \in [Runs -> {"running", "terminal"}]
        /\ bindings \in [Runs -> Threads \cup {None}] /\ file \in [Runs -> Threads \cup {None}]
        /\ runtimes \in [Runs -> Hosts \cup {None}] /\ writers \in [Threads -> Runs \cup {None}]
        /\ native \in [Threads -> {"unborn", "stored", "deleted"}]
        /\ nwriter \in [Threads -> Hosts \cup {None, Lingering}]
    BY DEF Init
  <2>6. /\ usedBefore = {} /\ skillDir = {} /\ releasing = {} /\ cancelled = {} /\ overlapped = {}
        /\ calls \in 0..MaxCalls /\ faults \in 0..MaxFaults
    BY <2>2 DEF Init
  <2>7. QED
    BY <2>3, <2>4, <2>5, <2>6 DEF TypeOK, Call
<1>3. \A q \in Requests : /\ Shape(req[q]) /\ req[q].host = None /\ req[q].op = "none"
                          /\ req[q].stage = "idle" /\ req[q].stage \notin Working \cup Owning
  BY <1>1, NoCallTypes DEF Working, Owning
<1>4. Shapes /\ Overlaps
  BY <1>3 DEF Shapes, Overlaps
<1>5. Owned
  BY <1>1, <1>3 DEF Owned
<1>6. Busy
  BY <1>1, <1>3, HostTypes DEF Busy
<1>7. Sure /\ WriterHeldByTurn
  BY <1>1, <1>3 DEF Sure, WriterHeldByTurn
<1>8. QED
  BY <1>2, <1>4, <1>5, <1>6, <1>7 DEF IInv, Pool

\* Every step of a call keeps the types and the pool's invariant.
LEMMA CallStepKept ==
  ASSUME IInv, NoneIsNone, Bounds, History, NEW q \in Requests, CallStep(q)
  PROVE  TypeOK' /\ Pool'
<1>1. CASE Activate(q)
  BY <1>1, ActivateKept
<1>2. CASE PoolRunTurn(q)
  BY <1>2, PoolRunTurnKept
<1>3. CASE Evicted(q)
  BY <1>3, EvictedKept
<1>4. CASE \E t \in Threads : StartThread(q, t)
  BY <1>4, StartThreadKept
<1>5. CASE ResumeForTurn(q)
  BY <1>5, ResumeForTurnKept
<1>6. CASE EntryFree(q)
  BY <1>6, EntryFreeKept
<1>7. CASE TurnStart(q)
  BY <1>7, TurnStartKept
<1>8. CASE TurnFails(q)
  BY <1>8, TurnFailsKept
<1>9. CASE TurnCompletes(q)
  BY <1>9, TurnCompletesKept
<1>10. CASE AskApproval(q)
  BY <1>10, AskApprovalKept
<1>11. CASE ResumeConversation(q)
  BY <1>11, ResumeConversationKept
<1>12. CASE ResumeOnHost(q)
  BY <1>12, ResumeOnHostKept
<1>13. CASE DuplicateGone(q)
  BY <1>13, DuplicateGoneKept
<1>14. CASE ResumeAttached(q)
  BY <1>14, ResumeAttachedKept
<1>15. CASE ResumeRefused(q)
  BY <1>15, ResumeRefusedKept
<1>16. CASE AttachFails(q)
  BY <1>16, AttachFailsKept
<1>17. CASE ConversationAnswered(q)
  BY <1>17, ConversationAnsweredKept
<1>18. CASE DiscardMissingBinding(q)
  BY <1>18, DiscardMissingBindingKept
<1>19. CASE RemoveMissing(q)
  BY <1>19, RemoveMissingKept
<1>20. CASE ClearWorkspace(q)
  BY <1>20, ClearWorkspaceKept
<1>21. CASE DeleteThreads(q)
  BY <1>21, DeleteThreadsKept
<1>22. CASE RemoveWorkspace(q)
  BY <1>22, RemoveWorkspaceKept
<1>23. QED
  BY <1>1, <1>2, <1>3, <1>4, <1>5, <1>6, <1>7, <1>8, <1>9, <1>10, <1>11, <1>12, <1>13, <1>14,
     <1>15, <1>16, <1>17, <1>18, <1>19, <1>20, <1>21, <1>22 DEF CallStep

\* Every step keeps the invariant.
LEMMA Inductive ==
  ASSUME IInv, NoneIsNone, Bounds, [Next]_vars
  PROVE  IInv'
<1>1. CASE Next
  <2>1. overlapped' = overlapped \cup Overlapping'
    BY <1>1 DEF Next
  <2>2. History
    BY <2>1 DEF History, Overlapping, IInv, TypeOK
  <2>3. TypeOK' /\ Pool'
    <3>1. CASE \E q \in Requests : CallStep(q)
      BY <2>2, <3>1, CallStepKept
    <3>2. CASE \E q \in Requests, r \in Runs : Run(q, r) \/ Conversation(q, r)
      BY <2>2, <3>2, RunKept, ConversationKept
    <3>3. CASE \E q \in Requests, r \in Runs, t \in Threads : AskResume(q, r, t)
      BY <2>2, <3>3, AskResumeKept
    <3>4. CASE \E p \in releasing : ReleaseSkills(p)
      BY <2>2, <3>4, ReleaseSkillsKept
    <3>5. CASE \E ok \in BOOLEAN : WriteDone(ok)
      BY <2>2, <3>5, WriteDoneKept
    <3>6. CASE \E r \in Runs : RunEnds(r) \/ Release(r) \/ PollEnds(r)
      BY <2>2, <3>6, RunEndsKept, ReleaseKept, PollEndsKept
    <3>7. CASE \E h \in Hosts : HostExits(h)
      BY <2>2, <3>7, HostExitsKept
    <3>8. CASE \E t \in Threads : LingeringEnds(t)
      BY <2>2, <3>8, LingeringEndsKept
    <3>9. CASE Restart
      BY <2>2, <3>9, RestartKept
    <3>10. QED
      BY <1>1, <3>1, <3>2, <3>3, <3>4, <3>5, <3>6, <3>7, <3>8, <3>9 DEF Next, Step
  <2>4. QED
    BY <2>1, <2>3, OverlapsKept DEF IInv, Pool
<1>2. CASE UNCHANGED vars
  BY <1>2 DEF vars, IInv, TypeOK, Overlaps, Pool, Shapes, Owned, Busy, Sure, WriterHeldByTurn
<1>3. QED
  BY <1>1, <1>2

\* What the pool promises follows from the invariant.
LEMMA Follows ==
  ASSUME IInv, NoneIsNone
  PROVE  TurnOwnsItsThread
<1>1. TypeOK /\ WriterHeldByTurn /\ Sure
  BY DEF IInv, Pool
<1>2. TurnExclusion
  BY <1>1 DEF TurnExclusion, Sure, Working
<1>3. QED
  BY <1>1, <1>2 DEF TurnOwnsItsThread

\* Turns of two runs are never at work in the same thread while neither run has had two
\* calls open at once, and a thread's writer always has a turn at work that will release
\* it (CodexRuntimePool.runTurn, activeThreadWriters, codex-runtime-pool.ts).
THEOREM TurnsOwnThreads ==
  ASSUME NoneIsNone, Bounds
  PROVE  Spec => []TurnOwnsItsThread
<1>1. Init => IInv
  BY Initially
<1>2. IInv /\ [Next]_vars => IInv'
  BY Inductive
<1>3. IInv => TurnOwnsItsThread
  BY Follows
<1>4. QED
  BY <1>1, <1>2, <1>3, PTL DEF Spec

-----------------------------------------------------------------------------
(* The registry on disk follows the store.                                 *)

\* Steps that leave the store alone.
LEMMA StoreSame ==
  ASSUME TypeOK, StoreConverges, UNCHANGED <<bindings, file, queue>>,
         faults' \in {faults, faults + 1}
  PROVE  StoreConverges'
<1>1. faults \in Nat
  BY DEF TypeOK
<1>2. faults' = 0 => faults = 0
  BY <1>1
<1>3. Last(queue)' = Last(queue)
  BY DEF Last
<1>4. QED
  BY <1>2, <1>3 DEF StoreConverges

\* enqueueWrite queues the registry as it is in memory.
LEMMA StoreQueued ==
  ASSUME TypeOK, NEW q, EnqueueWrite(bindings', q)
  PROVE  StoreConverges'
<1> DEFINE w == [snapshot |-> bindings', by |-> q]
<1>1. queue \in Seq(Write) /\ queue' = Append(queue, w)
  BY QueueTypes DEF EnqueueWrite
<1> HIDE DEF w
<1>2. queue \in Seq(Write \cup {w})
  BY <1>1
<1>3. Len(queue') = Len(queue) + 1 /\ queue'[Len(queue) + 1] = w /\ queue' # <<>>
  BY <1>1, <1>2
<1>4. Last(queue)' = w
  BY <1>3 DEF Last
<1>5. w.snapshot = bindings'
  BY DEF w
<1>6. QED
  BY <1>3, <1>4, <1>5 DEF StoreConverges

\* The write loop writes the oldest snapshot, or fails and counts as a fault.
LEMMA StoreWritten ==
  ASSUME TypeOK, StoreConverges, NEW ok \in BOOLEAN, WriteDone(ok)
  PROVE  StoreConverges'
<1>1. /\ queue \in Seq(Write) /\ queue # <<>> /\ faults \in Nat
      /\ queue' = Tail(queue) /\ bindings' = bindings
      /\ file' = IF ok THEN Head(queue).snapshot ELSE file
      /\ faults' = IF ok THEN faults ELSE faults + 1
  BY QueueTypes DEF WriteDone, TypeOK
<1>2. Last(queue).snapshot = bindings
  BY <1>1 DEF StoreConverges
<1>3. CASE Len(queue) = 1
  <2>1. Tail(queue) = <<>> /\ Head(queue) = Last(queue)
    BY <1>1, <1>3 DEF Last
  <2>2. ~ok => faults' # 0
    BY <1>1
  <2>3. QED
    BY <1>1, <1>2, <2>1, <2>2 DEF StoreConverges
<1>4. CASE Len(queue) > 1
  <2>1. /\ queue' \in Seq(Write) /\ Len(queue') = Len(queue) - 1 /\ Len(queue') > 0
        /\ queue'[Len(queue')] = queue[Len(queue)]
    BY <1>1, <1>4
  <2>2. queue' # <<>> /\ Last(queue)' = Last(queue)
    BY <2>1 DEF Last
  <2>3. QED
    BY <1>1, <1>2, <2>2 DEF StoreConverges
<1>5. Len(queue) = 1 \/ Len(queue) > 1
  <2>1. Len(queue) \in Nat /\ Len(queue) # 0
    BY <1>1
  <2>2. QED
    BY <2>1
<1>6. QED
  BY <1>3, <1>4, <1>5

\* store.remove queues the registry unless there was nothing to remove.
LEMMA StoreRemoved ==
  ASSUME TypeOK, StoreConverges, NEW r \in Runs, RemoveBinding(r), UNCHANGED <<file, faults>>
  PROVE  StoreConverges'
<1>1. CASE EnqueueWrite(bindings', None)
  BY <1>1, StoreQueued
<1>2. CASE bindings[r] = None /\ UNCHANGED queue
  <2>1. bindings' = bindings
    BY <1>2, OthersSame DEF RemoveBinding, Bindings
  <2>2. QED
    BY <1>2, <2>1, StoreSame
<1>3. QED
  BY <1>1, <1>2 DEF RemoveBinding

\* store.removeWorkspace queues the registry unless there was nothing to remove.
LEMMA StoreCleared ==
  ASSUME TypeOK, StoreConverges, NEW q \in Requests, RemoveWorkspace(q)
  PROVE  StoreConverges'
<1>1. CASE EnqueueWrite(bindings', q)
  BY <1>1, StoreQueued
<1>2. CASE {r \in Runs : bindings[r] # None} = {} /\ UNCHANGED queue
  <2>1. bindings' = bindings
    BY <1>2, OthersSame DEF RemoveWorkspace, Bindings
  <2>2. UNCHANGED <<file, faults>>
    BY DEF RemoveWorkspace
  <2>3. QED
    BY <1>2, <2>1, <2>2, StoreSame
<1>3. QED
  BY <1>1, <1>2 DEF RemoveWorkspace

\* initialize reads what is on disk.
LEMMA StoreRestarted ==
  ASSUME StoreConverges, Restart
  PROVE  StoreConverges'
BY DEF Restart, StoreConverges

\* Every step of a call keeps what the store promises.
LEMMA StoreCall ==
  ASSUME IInv, StoreConverges, NEW q \in Requests, CallStep(q)
  PROVE  StoreConverges'
<1>1. TypeOK /\ Shapes
  BY DEF IInv, Pool
<1>2. CASE Activate(q) \/ AttachFails(q) \/ DeleteThreads(q)
  <2>1. UNCHANGED <<bindings, file, queue>> /\ faults' \in {faults, faults + 1}
    BY <1>2 DEF Activate, AttachFails, DeleteThreads
  <2>2. QED
    BY <1>1, <2>1, StoreSame
<1>3. CASE \/ PoolRunTurn(q) \/ Evicted(q) \/ ResumeForTurn(q) \/ EntryFree(q) \/ TurnStart(q)
           \/ TurnFails(q) \/ TurnCompletes(q) \/ AskApproval(q) \/ DuplicateGone(q)
           \/ ConversationAnswered(q) \/ DiscardMissingBinding(q) \/ ClearWorkspace(q)
  <2>1. UNCHANGED <<bindings, file, queue, faults>>
    BY <1>3 DEF PoolRunTurn, Evicted, ResumeForTurn, EntryFree, TurnStart, TurnFails, TurnCompletes,
                AskApproval, DuplicateGone, ConversationAnswered, DiscardMissingBinding, ClearWorkspace
  <2>2. QED
    BY <1>1, <2>1, StoreSame
<1>4. CASE \E t \in Threads : StartThread(q, t)
  <2>1. UNCHANGED <<file, faults>> /\ (EnqueueWrite(bindings', q) \/ UNCHANGED <<bindings, queue>>)
    BY <1>4 DEF StartThread
  <2>2. QED
    BY <1>1, <2>1, StoreQueued, StoreSame
<1>5. CASE ResumeConversation(q) \/ ResumeOnHost(q) \/ ResumeAttached(q) \/ ResumeRefused(q)
  <2>1. UNCHANGED <<file, faults>> /\ (EnqueueWrite(bindings', q) \/ UNCHANGED <<bindings, queue>>)
    BY <1>5 DEF ResumeConversation, ResumeOnHost, ResumeAttached, ResumeRefused, RebindOnly
  <2>2. QED
    BY <1>1, <2>1, StoreQueued, StoreSame
<1>6. CASE RemoveMissing(q)
  <2>1. req[q].run \in Runs
    BY <1>1, <1>6, CallTypes DEF RemoveMissing
  <2>2. QED
    BY <1>1, <1>6, <2>1, StoreRemoved DEF RemoveMissing
<1>7. CASE RemoveWorkspace(q)
  BY <1>1, <1>7, StoreCleared
<1>8. QED
  BY <1>2, <1>3, <1>4, <1>5, <1>6, <1>7 DEF CallStep

\* Every step keeps what the store promises.
LEMMA StoreStep ==
  ASSUME IInv, StoreConverges, [Next]_vars
  PROVE  StoreConverges'
<1>1. TypeOK
  BY DEF IInv
<1>2. CASE \E q \in Requests : CallStep(q)
  BY <1>2, StoreCall
<1>3. CASE \/ \E q \in Requests, r \in Runs : Run(q, r) \/ Conversation(q, r)
           \/ \E q \in Requests, r \in Runs, t \in Threads : AskResume(q, r, t)
           \/ \E p \in releasing : ReleaseSkills(p)
           \/ \E r \in Runs : RunEnds(r) \/ Release(r) \/ PollEnds(r)
           \/ \E h \in Hosts : HostExits(h)
           \/ \E t \in Threads : LingeringEnds(t)
           \/ UNCHANGED vars
  <2>1. UNCHANGED <<bindings, file, queue>> /\ faults' \in {faults, faults + 1}
    BY <1>3 DEF Run, Conversation, AskResume, ReleaseSkills, RunEnds, Release, PollEnds, HostExits,
                LingeringEnds, vars
  <2>2. QED
    BY <1>1, <2>1, StoreSame
<1>4. CASE \E ok \in BOOLEAN : WriteDone(ok)
  BY <1>1, <1>4, StoreWritten
<1>5. CASE Restart
  BY <1>5, StoreRestarted
<1>6. QED
  BY <1>2, <1>3, <1>4, <1>5 DEF Next, Step

\* What is on disk, or will be when the queued snapshots are written, is what the store
\* holds in memory; only a write that failed or a crash leaves it behind
\* (CodexThreadStore.bind, rebind, remove and enqueueWrite, codex-thread-store.ts).
THEOREM StoreKept ==
  ASSUME NoneIsNone, Bounds
  PROVE  Spec => []StoreConverges
<1>1. Init => IInv /\ StoreConverges
  BY Initially DEF Init, StoreConverges
<1>2. IInv /\ StoreConverges /\ [Next]_vars => IInv' /\ StoreConverges'
  BY Inductive, StoreStep
<1>3. QED
  BY <1>1, <1>2, PTL DEF Spec
===============================================================================
