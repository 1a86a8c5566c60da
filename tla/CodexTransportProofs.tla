------------------------ MODULE CodexTransportProofs ------------------------
(***************************************************************************)
(* Proofs about the host of the Codex app-server and its JSON-RPC          *)
(* connections (codex-app-server-host.ts, codex-jsonrpc.ts), for any       *)
(* number of calls, processes, turns and faults.                           *)
(*                                                                         *)
(* The invariant follows a request from its line to its answer: an id is   *)
(* in one place at a time, on the wire or among the lines that came back,  *)
(* and stays registered for the call that waits; and it follows the end of *)
(* a turn, which is behind the answer to turn/start or still to come, so   *)
(* that whoever begins to wait has not missed it.                          *)
(*                                                                         *)
(* For the turns themselves three more invariants are needed.  Skilled     *)
(* looks at the last request on the wire that sets skill roots: it is for  *)
(* the configuration the host wants.  Numbered gives a turn to one process *)
(* and lets nobody name it after its end.  Followed says of the turn that  *)
(* a call waits for that a completed item comes after the last delta of    *)
(* its text.                                                               *)
(***************************************************************************)
EXTENDS CodexTransport, SequenceTheorems, TLAPS

Ops == {"start", "resume", "turn", "recover", "read"}
Sent == {"start", "resume", "roots", "list", "iroots", "ilist", "reattach", "read", "turn"}
Methods == {"init", "start", "resume", "roots", "list", "read", "turn"}

Skills == Configs \cup {None}
Line == [kind : {"answer", "delta", "item", "done"}, id : Nat, ok : BOOLEAN, turn : Nat,
         by : Calls \cup {None}]
Req == [id : Nat, method : Methods,
        config : Skills, by : Calls]
Pending == UNION {[S -> Calls] : S \in SUBSET Nat}
Process == [state : {"unborn", "alive", "dying", "crashed", "exited"}, open : BOOLEAN,
            nextId : Nat, pending : Pending, wire : Seq(Req), out : Seq(Line),
            loaded : BOOLEAN, roots : Skills, refused : BOOLEAN, turn : Nat, sent : Nat]
Call == [op : Ops \cup {"none"}, stage : Sent \cup {"init", "idle", "wait"},
         ans : {"none", "ok", "error"}, proc : Procs \cup {None}, turn : Nat,
         config : Skills]
HostState == [thread : BOOLEAN, child : Procs \cup {None}, disposed : BOOLEAN,
              desired : Skills, applied : BOOLEAN, active : Nat,
              completed : SUBSET (Nat \X BOOLEAN), text : [Turns -> Nat]]

TypeOK ==
    /\ host \in HostState
    /\ proc \in [Procs -> Process]
    /\ call \in [Calls -> Call]
    /\ turns \in Nat

\* A connection by itself: every id is registered for its call as long as it is on
\* the wire or in an answer, and it is there once.
Matched(q) ==
    /\ \A i \in DOMAIN q.pending : i < q.nextId
    /\ \A i, j \in DOMAIN q.pending : q.pending[i] = q.pending[j] => i = j
    /\ \A i \in 1..Len(q.wire) : /\ q.wire[i].id \in DOMAIN q.pending
                                 /\ q.pending[q.wire[i].id] = q.wire[i].by
    /\ \A i \in 1..Len(q.out) : q.out[i].kind = "answer" =>
                                 /\ q.out[i].id \in DOMAIN q.pending
                                 /\ q.pending[q.out[i].id] = q.out[i].by
    /\ \A i, j \in 1..Len(q.wire) : q.wire[i].id = q.wire[j].id => i = j
    /\ \A i, j \in 1..Len(q.out) :
          /\ q.out[i].kind = "answer" /\ q.out[j].kind = "answer" /\ q.out[i].id = q.out[j].id
          => i = j
    /\ \A i \in 1..Len(q.wire), j \in 1..Len(q.out) :
          q.out[j].kind = "answer" => q.wire[i].id # q.out[j].id

\* The end of turn t is to come: the turn is worked on, or its end is a line after the
\* first i.
Comes(q, i, t) ==
    \/ t # None /\ q.turn = t
    \/ \E j \in 1..Len(q.out) : j > i /\ q.out[j].kind = "done" /\ q.out[j].turn = t

\* A connection and the calls that wait on it: each waits for one answer, and the end
\* of a turn is not before the answer that names the turn.
Waited(p, q, cs) ==
    /\ \A i \in DOMAIN q.pending :
          /\ cs[q.pending[i]].proc = p /\ cs[q.pending[i]].ans = "none"
          /\ cs[q.pending[i]].stage \notin {"idle", "wait"}
    /\ \A i \in 1..Len(q.wire) : q.wire[i].method = Method(cs[q.wire[i].by].stage)
    /\ \A i \in 1..Len(q.out) :
          q.out[i].kind = "answer" /\ q.out[i].ok /\ cs[q.out[i].by].stage = "turn"
          => Comes(q, i, q.out[i].turn)

Connections == \A p \in Procs : Matched(proc[p]) /\ Waited(p, proc[p], call)

\* A connection is open only to a live process, and the live process is the current one.
Life == \A p \in Procs : proc[p].open => proc[p].state = "alive"

\* One turn at a time; a call that has begun has a process that was spawned.
Stages ==
    /\ \A c, d \in Calls : call[c].op = "turn" /\ call[d].op = "turn" => c = d
    /\ \A c \in Calls :
          /\ call[c].stage \in {"roots", "list", "turn", "wait"} => call[c].op = "turn"
          /\ call[c].stage # "idle" => /\ call[c].op # "none" /\ call[c].proc \in Procs
                                       /\ proc[call[c].proc].state # "unborn"
          /\ call[c].stage = "idle" => call[c].ans = "none"

\* The turn of a call: its end is to come, or has come and is kept for the call.
TurnFollowed(k, h, ps) ==
    /\ k.stage = "wait" => k.turn = h.active
    /\ k.stage = "turn" /\ k.ans = "ok" =>
          /\ ~h.disposed /\ ps[k.proc].state # "crashed"
          /\ ps[k.proc].open => \/ Comes(ps[k.proc], 0, k.turn)
                                \/ \E e \in h.completed : e[1] = k.turn
    /\ k.stage = "wait" /\ k.ans = "none" =>
          /\ ~h.disposed /\ ps[k.proc].state # "crashed"
          /\ ps[k.proc].open => Comes(ps[k.proc], 0, k.turn)

Turning == \A c \in Calls : TurnFollowed(call[c], host, proc)

IInv == TypeOK /\ Connections /\ Life /\ OneProcess /\ Stages /\ Turning

-----------------------------------------------------------------------------
(* One connection.                                                         *)

\* The lines without the first.
LEMMA Rest ==
  ASSUME NEW S, NEW s \in Seq(S), s # <<>>
  PROVE  /\ Len(s) \in Nat /\ 1 \in 1..Len(s) /\ Head(s) = s[1] /\ s[1] \in S
         /\ Tail(s) \in Seq(S) /\ Len(Tail(s)) = Len(s) - 1
         /\ \A j \in 1..Len(Tail(s)) : j + 1 \in 1..Len(s) /\ j + 1 > 1 /\ Tail(s)[j] = s[j + 1]
         /\ \A j \in 1..Len(s) : j # 1 => j - 1 \in 1..Len(Tail(s)) /\ s[j] = Tail(s)[j - 1]
<1>1. Len(s) \in Nat /\ Len(s) >= 1
  OBVIOUS
<1>2. Head(s) = s[1] /\ s[1] \in S
  OBVIOUS
<1>3. /\ Tail(s) \in Seq(S) /\ Len(Tail(s)) = Len(s) - 1
      /\ \A i \in 1..Len(Tail(s)) : Tail(s)[i] = s[i + 1]
  BY HeadTailProperties
<1>4. \A j \in 1..Len(Tail(s)) : j + 1 \in 1..Len(s) /\ j + 1 > 1 /\ Tail(s)[j] = s[j + 1]
  BY <1>1, <1>3
<1>5. ASSUME NEW j \in 1..Len(s), j # 1
      PROVE  j - 1 \in 1..Len(Tail(s)) /\ s[j] = Tail(s)[j - 1]
  <2>1. j - 1 \in 1..Len(Tail(s)) /\ (j - 1) + 1 = j
    BY <1>1, <1>3, <1>5
  <2>2. QED
    BY <1>3, <2>1
<1>6. QED
  BY <1>1, <1>2, <1>3, <1>4, <1>5

\* The lines with one more.
LEMMA More ==
  ASSUME NEW S, NEW s \in Seq(S), NEW x \in S
  PROVE  /\ Len(s) \in Nat
         /\ Append(s, x) \in Seq(S) /\ Len(Append(s, x)) = Len(s) + 1
         /\ \A j \in 1..Len(s) : j \in 1..Len(Append(s, x)) /\ Append(s, x)[j] = s[j]
         /\ Len(s) + 1 \in 1..Len(Append(s, x)) /\ Append(s, x)[Len(s) + 1] = x
         /\ \A j \in 1..Len(Append(s, x)) : j \in 1..Len(s) \/ j = Len(s) + 1
<1>1. Len(s) \in Nat
  OBVIOUS
<1>2. /\ Append(s, x) \in Seq(S) /\ Len(Append(s, x)) = Len(s) + 1
      /\ \A j \in 1..Len(s) : Append(s, x)[j] = s[j]
      /\ Append(s, x)[Len(s) + 1] = x
  BY AppendProperties
<1>3. QED
  BY <1>1, <1>2

\* A notification is taken from the lines that came.
LEMMA NoticeTaken ==
  ASSUME NEW p, NEW cs, NEW q \in Process, NEW r \in Process, Matched(q), Waited(p, q, cs),
         q.out # <<>>, q.out[1].kind # "answer", r.out = Tail(q.out),
         r.pending = q.pending, r.nextId = q.nextId, r.wire = q.wire, r.turn = q.turn
  PROVE  /\ Matched(r) /\ Waited(p, r, cs)
         /\ \A t : Comes(q, 0, t) /\ ~(q.out[1].kind = "done" /\ q.out[1].turn = t)
                      => Comes(r, 0, t)
<1>1. q.out \in Seq(Line)
  BY DEF Process
<1>2. /\ Len(q.out) \in Nat
      /\ \A j \in 1..Len(r.out) : j + 1 \in 1..Len(q.out) /\ j + 1 > 1 /\ r.out[j] = q.out[j + 1]
      /\ \A j \in 1..Len(q.out) : j # 1 => j - 1 \in 1..Len(r.out) /\ q.out[j] = r.out[j - 1]
  BY <1>1, Rest
<1>3. Matched(r)
  <2>1. \A i, j \in 1..Len(r.out) :
           /\ r.out[i].kind = "answer" /\ r.out[j].kind = "answer" /\ r.out[i].id = r.out[j].id
           => i = j
    <3> SUFFICES ASSUME NEW i \in 1..Len(r.out), NEW j \in 1..Len(r.out),
                        r.out[i].kind = "answer", r.out[j].kind = "answer",
                        r.out[i].id = r.out[j].id
                 PROVE  i = j
      OBVIOUS
    <3>1. i + 1 = j + 1
      BY <1>2 DEF Matched
    <3>2. QED
      BY <3>1
  <2>2. QED
    BY <1>2, <2>1 DEF Matched
<1>4. ASSUME NEW i \in Nat, NEW t, Comes(q, i + 1, t) PROVE Comes(r, i, t)
  <2>1. ASSUME NEW j \in 1..Len(q.out), j > i + 1, q.out[j].kind = "done", q.out[j].turn = t
        PROVE  Comes(r, i, t)
    <3>1. j # 1 /\ j - 1 > i
      BY <2>1
    <3>2. QED
      BY <1>2, <2>1, <3>1 DEF Comes
  <2>2. QED
    BY <1>4, <2>1 DEF Comes
<1>5. Waited(p, r, cs)
  <2>1. ASSUME NEW i \in 1..Len(r.out),
               r.out[i].kind = "answer", r.out[i].ok, cs[r.out[i].by].stage = "turn"
        PROVE  Comes(r, i, r.out[i].turn)
    <3>1. Comes(q, i + 1, r.out[i].turn)
      BY <1>2, <2>1 DEF Waited
    <3>2. QED
      BY <1>4, <3>1
  <2>2. QED
    BY <2>1 DEF Waited
<1>6. ASSUME NEW t, Comes(q, 0, t), ~(q.out[1].kind = "done" /\ q.out[1].turn = t)
      PROVE  Comes(r, 0, t)
  <2>1. ASSUME NEW j \in 1..Len(q.out), q.out[j].kind = "done", q.out[j].turn = t
        PROVE  Comes(r, 0, t)
    <3>1. j # 1 /\ j - 1 > 0
      BY <1>6, <2>1
    <3>2. QED
      BY <1>2, <2>1, <3>1 DEF Comes
  <2>2. QED
    BY <1>6, <2>1 DEF Comes
<1>7. QED
  BY <1>3, <1>5, <1>6

\* An answer is taken, and its id forgotten.
LEMMA AnswerTaken ==
  ASSUME NEW p, NEW cs, NEW ds, NEW q \in Process, NEW r \in Process, Matched(q), Waited(p, q, cs),
         q.out # <<>>, q.out[1].kind = "answer", r.out = Tail(q.out),
         \A i : i \in DOMAIN r.pending <=> i \in DOMAIN q.pending /\ i # q.out[1].id,
         \A i : i \in DOMAIN r.pending => r.pending[i] = q.pending[i],
         r.nextId = q.nextId, r.wire = q.wire, r.turn = q.turn,
         \A c \in Calls : c # q.out[1].by => ds[c] = cs[c]
  PROVE  /\ Matched(r) /\ Waited(p, r, ds)
         /\ \A t : Comes(q, 0, t) => Comes(r, 0, t)
         /\ q.out[1].ok /\ cs[q.out[1].by].stage = "turn" => Comes(r, 0, q.out[1].turn)
<1>1. q.out \in Seq(Line) /\ q.wire \in Seq(Req)
  BY DEF Process
<1>2. /\ Len(q.out) \in Nat /\ 1 \in 1..Len(q.out)
      /\ \A j \in 1..Len(r.out) : j + 1 \in 1..Len(q.out) /\ j + 1 > 1 /\ r.out[j] = q.out[j + 1]
      /\ \A j \in 1..Len(q.out) : j # 1 => j - 1 \in 1..Len(r.out) /\ q.out[j] = r.out[j - 1]
  BY <1>1, Rest
<1>3. /\ \A i : i \in DOMAIN r.pending <=> i \in DOMAIN q.pending /\ i # q.out[1].id
      /\ \A i : i \in DOMAIN r.pending => r.pending[i] = q.pending[i]
  OBVIOUS
<1>4. q.out[1].id \in DOMAIN q.pending /\ q.pending[q.out[1].id] = q.out[1].by
  BY <1>2 DEF Matched
<1>5. \A i \in 1..Len(q.wire) :
         q.wire[i].id \in DOMAIN r.pending /\ r.pending[q.wire[i].id] = q.wire[i].by
  <2> SUFFICES ASSUME NEW i \in 1..Len(q.wire)
               PROVE  q.wire[i].id \in DOMAIN r.pending /\ r.pending[q.wire[i].id] = q.wire[i].by
    OBVIOUS
  <2>1. q.wire[i].id \in DOMAIN q.pending /\ q.pending[q.wire[i].id] = q.wire[i].by
    BY DEF Matched
  <2>2. q.wire[i].id # q.out[1].id
    BY <1>2 DEF Matched
  <2>3. QED
    BY <1>3, <2>1, <2>2
<1>6. \A i \in 1..Len(r.out) : r.out[i].kind = "answer" =>
         r.out[i].id \in DOMAIN r.pending /\ r.pending[r.out[i].id] = r.out[i].by
  <2> SUFFICES ASSUME NEW i \in 1..Len(r.out), r.out[i].kind = "answer"
               PROVE  r.out[i].id \in DOMAIN r.pending /\ r.pending[r.out[i].id] = r.out[i].by
    OBVIOUS
  <2>1. i + 1 \in 1..Len(q.out) /\ i + 1 # 1 /\ r.out[i] = q.out[i + 1]
    BY <1>2
  <2>2. q.out[i + 1].id # q.out[1].id
    BY <1>2, <2>1 DEF Matched
  <2>3. q.out[i + 1].id \in DOMAIN q.pending /\ q.pending[q.out[i + 1].id] = q.out[i + 1].by
    BY <2>1 DEF Matched
  <2>4. QED
    BY <1>3, <2>1, <2>2, <2>3
<1>7. Matched(r)
  <2>1. \A i, j \in 1..Len(r.out) :
           /\ r.out[i].kind = "answer" /\ r.out[j].kind = "answer" /\ r.out[i].id = r.out[j].id
           => i = j
    <3> SUFFICES ASSUME NEW i \in 1..Len(r.out), NEW j \in 1..Len(r.out),
                        r.out[i].kind = "answer", r.out[j].kind = "answer",
                        r.out[i].id = r.out[j].id
                 PROVE  i = j
      OBVIOUS
    <3>1. i + 1 = j + 1
      BY <1>2 DEF Matched
    <3>2. QED
      BY <3>1
  <2>2. \A i \in 1..Len(r.wire), j \in 1..Len(r.out) :
           r.out[j].kind = "answer" => r.wire[i].id # r.out[j].id
    <3> SUFFICES ASSUME NEW i \in 1..Len(q.wire), NEW j \in 1..Len(r.out),
                        r.out[j].kind = "answer"
                 PROVE  q.wire[i].id # r.out[j].id
      OBVIOUS
    <3>1. j + 1 \in 1..Len(q.out) /\ r.out[j] = q.out[j + 1]
      BY <1>2
    <3>2. QED
      BY <3>1 DEF Matched
  <2>3. /\ \A i \in DOMAIN r.pending : i < r.nextId
        /\ \A i, j \in DOMAIN r.pending : r.pending[i] = r.pending[j] => i = j
    BY <1>3 DEF Matched
  <2>4. \A i, j \in 1..Len(r.wire) : r.wire[i].id = r.wire[j].id => i = j
    BY DEF Matched
  <2>5. QED
    BY <1>5, <1>6, <2>1, <2>2, <2>3, <2>4 DEF Matched
<1>8. ASSUME NEW i \in Nat, NEW t, Comes(q, i + 1, t) PROVE Comes(r, i, t)
  <2>1. ASSUME NEW j \in 1..Len(q.out), j > i + 1, q.out[j].kind = "done", q.out[j].turn = t
        PROVE  Comes(r, i, t)
    <3>1. j # 1 /\ j - 1 > i
      BY <2>1
    <3>2. j - 1 \in 1..Len(r.out) /\ r.out[j - 1] = q.out[j]
      BY <1>2, <2>1, <3>1
    <3>3. QED
      BY <2>1, <3>1, <3>2 DEF Comes
  <2>2. QED
    BY <1>8, <2>1 DEF Comes
<1>9. ASSUME NEW i \in DOMAIN r.pending
      PROVE  r.pending[i] # q.out[1].by /\ r.pending[i] \in Calls /\ ds[r.pending[i]] = cs[r.pending[i]]
  <2>1. r.pending[i] # q.out[1].by
    BY <1>3, <1>4 DEF Matched
  <2>2. r.pending[i] \in Calls
    <3>1. PICK S \in SUBSET Nat : q.pending \in [S -> Calls]
      BY DEF Process, Pending
    <3>2. QED
      BY <1>3, <3>1
  <2>3. QED
    BY <2>1, <2>2
<1>10. Waited(p, r, ds)
  <2>1. ASSUME NEW i \in 1..Len(r.out),
               r.out[i].kind = "answer", r.out[i].ok, ds[r.out[i].by].stage = "turn"
        PROVE  Comes(r, i, r.out[i].turn)
    <3>1. cs[r.out[i].by].stage = "turn"
      BY <1>6, <1>9, <2>1
    <3>2. Comes(q, i + 1, r.out[i].turn)
      BY <1>2, <2>1, <3>1 DEF Waited
    <3>3. QED
      BY <1>8, <3>2
  <2>2. \A i \in 1..Len(r.wire) : r.wire[i].method = Method(ds[r.wire[i].by].stage)
    <3>1. \A i \in 1..Len(r.wire) : ds[r.wire[i].by] = cs[r.wire[i].by]
      BY <1>5, <1>9
    <3>2. QED
      BY <3>1 DEF Waited
  <2>3. \A i \in DOMAIN r.pending :
           /\ ds[r.pending[i]].proc = p /\ ds[r.pending[i]].ans = "none"
           /\ ds[r.pending[i]].stage \notin {"idle", "wait"}
    BY <1>3, <1>9 DEF Waited
  <2>4. QED
    BY <2>1, <2>2, <2>3 DEF Waited
<1>11. ASSUME NEW t, Comes(q, 0, t) PROVE Comes(r, 0, t)
  <2>1. ASSUME NEW j \in 1..Len(q.out), q.out[j].kind = "done", q.out[j].turn = t
        PROVE  Comes(r, 0, t)
    <3>1. j # 1 /\ j - 1 > 0
      BY <2>1
    <3>2. j - 1 \in 1..Len(r.out) /\ r.out[j - 1] = q.out[j]
      BY <1>2, <2>1, <3>1
    <3>3. QED
      BY <2>1, <3>1, <3>2 DEF Comes
  <2>2. QED
    BY <1>11, <2>1 DEF Comes
<1>12. ASSUME q.out[1].ok, cs[q.out[1].by].stage = "turn" PROVE Comes(r, 0, q.out[1].turn)
  <2>1. Comes(q, 1, q.out[1].turn)
    BY <1>2, <1>12 DEF Waited
  <2>2. Comes(q, 0, q.out[1].turn)
    BY <2>1 DEF Comes
  <2>3. QED
    BY <1>11, <2>2
<1>13. QED
  BY <1>7, <1>10, <1>11, <1>12

\* A notification is said; the end of a turn is said of the turn worked on.
LEMMA NoticeSaid ==
  ASSUME NEW p, NEW cs, NEW q \in Process, NEW r \in Process, Matched(q), Waited(p, q, cs),
         NEW l \in Line, l.kind # "answer", r.out = Append(q.out, l),
         r.pending = q.pending, r.nextId = q.nextId, r.wire = q.wire,
         r.turn = q.turn \/ (l.kind = "done" /\ l.turn = q.turn)
  PROVE  /\ Matched(r) /\ Waited(p, r, cs)
         /\ \A t : Comes(q, 0, t) => Comes(r, 0, t)
<1>1. q.out \in Seq(Line)
  BY DEF Process
<1>2. /\ Len(q.out) \in Nat
      /\ \A j \in 1..Len(q.out) : j \in 1..Len(r.out) /\ r.out[j] = q.out[j]
      /\ Len(q.out) + 1 \in 1..Len(r.out) /\ r.out[Len(q.out) + 1] = l
      /\ \A j \in 1..Len(r.out) : j \in 1..Len(q.out) \/ j = Len(q.out) + 1
  BY <1>1, More
<1>3. \A j \in 1..Len(r.out) : r.out[j].kind = "answer" => j \in 1..Len(q.out) /\ r.out[j] = q.out[j]
  BY <1>2
<1>4. Matched(r)
  BY <1>3 DEF Matched
<1>5. ASSUME NEW i \in 0..Len(q.out), NEW t, Comes(q, i, t) PROVE Comes(r, i, t)
  <2>1. CASE t # None /\ q.turn = t
    <3>1. Len(q.out) + 1 > i
      BY <1>2
    <3>2. QED
      BY <1>2, <2>1, <3>1 DEF Comes
  <2>2. CASE \E j \in 1..Len(q.out) : j > i /\ q.out[j].kind = "done" /\ q.out[j].turn = t
    BY <1>2, <2>2 DEF Comes
  <2>3. QED
    BY <1>5, <2>1, <2>2 DEF Comes
<1>6. Waited(p, r, cs)
  <2>1. ASSUME NEW i \in 1..Len(r.out),
               r.out[i].kind = "answer", r.out[i].ok, cs[r.out[i].by].stage = "turn"
        PROVE  Comes(r, i, r.out[i].turn)
    <3>1. i \in 0..Len(q.out) /\ Comes(q, i, r.out[i].turn)
      BY <1>2, <1>3, <2>1 DEF Waited
    <3>2. QED
      BY <1>5, <3>1
  <2>2. QED
    BY <2>1 DEF Waited
<1>7. \A t : Comes(q, 0, t) => Comes(r, 0, t)
  <2>1. 0 \in 0..Len(q.out)
    BY <1>2
  <2>2. QED
    BY <1>5, <2>1
<1>8. QED
  BY <1>4, <1>6, <1>7

\* The app-server answers the first request; the answer to turn/start begins a turn.
LEMMA RequestAnswered ==
  ASSUME NEW p, NEW cs, NEW q \in Process, NEW r \in Process, Matched(q), Waited(p, q, cs),
         q.wire # <<>>, NEW l \in Line, l.kind = "answer", l.id = q.wire[1].id,
         l.by = q.wire[1].by, r.out = Append(q.out, l), r.wire = Tail(q.wire),
         r.pending = q.pending, r.nextId = q.nextId,
         r.turn = q.turn \/ q.turn = None,
         l.ok /\ q.wire[1].method = "turn" => l.turn # None /\ r.turn = l.turn
  PROVE  /\ Matched(r) /\ Waited(p, r, cs)
         /\ \A t : Comes(q, 0, t) => Comes(r, 0, t)
<1>1. q.out \in Seq(Line) /\ q.wire \in Seq(Req)
  BY DEF Process
<1>2. /\ Len(q.out) \in Nat
      /\ \A j \in 1..Len(q.out) : j \in 1..Len(r.out) /\ r.out[j] = q.out[j]
      /\ Len(q.out) + 1 \in 1..Len(r.out) /\ r.out[Len(q.out) + 1] = l
      /\ \A j \in 1..Len(r.out) : j \in 1..Len(q.out) \/ j = Len(q.out) + 1
  BY <1>1, More
<1>3. /\ 1 \in 1..Len(q.wire)
      /\ \A j \in 1..Len(r.wire) : j + 1 \in 1..Len(q.wire) /\ j + 1 > 1 /\ r.wire[j] = q.wire[j + 1]
  BY <1>1, Rest
<1>4. Matched(r)
  <2>1. \A i \in 1..Len(r.wire) : /\ r.wire[i].id \in DOMAIN r.pending
                                  /\ r.pending[r.wire[i].id] = r.wire[i].by
    BY <1>3 DEF Matched
  <2>2. l.id \in DOMAIN r.pending /\ r.pending[l.id] = l.by
    BY <1>3 DEF Matched
  <2>3. \A i \in 1..Len(r.out) : r.out[i].kind = "answer" =>
           r.out[i].id \in DOMAIN r.pending /\ r.pending[r.out[i].id] = r.out[i].by
    BY <1>2, <2>2 DEF Matched
  <2>4. \A i, j \in 1..Len(r.wire) : r.wire[i].id = r.wire[j].id => i = j
    <3> SUFFICES ASSUME NEW i \in 1..Len(r.wire), NEW j \in 1..Len(r.wire),
                        r.wire[i].id = r.wire[j].id
                 PROVE  i = j
      OBVIOUS
    <3>1. i + 1 = j + 1
      BY <1>3 DEF Matched
    <3>2. QED
      BY <3>1
  <2>5. \A i \in 1..Len(q.out) : q.out[i].kind = "answer" => q.out[i].id # l.id
    BY <1>3 DEF Matched
  <2>6. \A i, j \in 1..Len(r.out) :
           /\ r.out[i].kind = "answer" /\ r.out[j].kind = "answer" /\ r.out[i].id = r.out[j].id
           => i = j
    BY <1>2, <2>5 DEF Matched
  <2>7. \A i \in 1..Len(r.wire) : r.wire[i].id # l.id
    <3> SUFFICES ASSUME NEW i \in 1..Len(r.wire), r.wire[i].id = l.id PROVE FALSE
      OBVIOUS
    <3>1. i + 1 = 1
      BY <1>3 DEF Matched
    <3>2. QED
      BY <1>3, <3>1
  <2>8. \A i \in 1..Len(r.wire), j \in 1..Len(r.out) :
           r.out[j].kind = "answer" => r.wire[i].id # r.out[j].id
    <3> SUFFICES ASSUME NEW i \in 1..Len(r.wire), NEW j \in 1..Len(r.out),
                        r.out[j].kind = "answer"
                 PROVE  r.wire[i].id # r.out[j].id
      OBVIOUS
    <3>1. CASE j \in 1..Len(q.out)
      BY <1>2, <1>3, <3>1 DEF Matched
    <3>2. QED
      BY <1>2, <2>7, <3>1
  <2>9. QED
    BY <2>1, <2>3, <2>4, <2>6, <2>8 DEF Matched
<1>5. ASSUME NEW i, NEW t, Comes(q, i, t) PROVE Comes(r, i, t)
  BY <1>2, <1>5 DEF Comes
<1>6. Waited(p, r, cs)
  <2>1. ASSUME NEW i \in 1..Len(r.out),
               r.out[i].kind = "answer", r.out[i].ok, cs[r.out[i].by].stage = "turn"
        PROVE  Comes(r, i, r.out[i].turn)
    <3>1. CASE i \in 1..Len(q.out)
      <4>1. Comes(q, i, r.out[i].turn)
        BY <1>2, <2>1, <3>1 DEF Waited
      <4>2. QED
        BY <1>5, <4>1
    <3>2. CASE i = Len(q.out) + 1
      <4>1. q.wire[1].method = "turn"
        BY <1>2, <1>3, <2>1, <3>2 DEF Waited, Method
      <4>2. QED
        BY <1>2, <2>1, <3>2, <4>1 DEF Comes
    <3>3. QED
      BY <1>2, <3>1, <3>2
  <2>2. \A i \in 1..Len(r.wire) : r.wire[i].method = Method(cs[r.wire[i].by].stage)
    BY <1>3 DEF Waited
  <2>3. QED
    BY <2>1, <2>2 DEF Waited
<1>7. QED
  BY <1>4, <1>5, <1>6

\* Another request is sent, for a call that was waiting for nothing.
LEMMA RequestSent ==
  ASSUME NEW p, NEW cs, NEW ds, NEW q \in Process, NEW r \in Process, Matched(q), Waited(p, q, cs),
         NEW req \in Req, req.id = q.nextId, r.wire = Append(q.wire, req),
         \A i : i \in DOMAIN r.pending <=> i \in DOMAIN q.pending \/ i = q.nextId,
         \A i : i \in DOMAIN q.pending => r.pending[i] = q.pending[i],
         r.pending[q.nextId] = req.by, r.nextId = q.nextId + 1,
         r.out = q.out, r.turn = q.turn,
         \A i \in DOMAIN q.pending : q.pending[i] # req.by,
         \A c \in Calls : c # req.by => ds[c] = cs[c],
         ds[req.by].proc = p, ds[req.by].ans = "none", ds[req.by].stage \notin {"idle", "wait"},
         req.method = Method(ds[req.by].stage)
  PROVE  /\ Matched(r) /\ Waited(p, r, ds)
         /\ \A t : Comes(q, 0, t) => Comes(r, 0, t)
<1>1. q.wire \in Seq(Req) /\ q.nextId \in Nat
  BY DEF Process
<1>2. /\ Len(q.wire) \in Nat
      /\ \A j \in 1..Len(q.wire) : j \in 1..Len(r.wire) /\ r.wire[j] = q.wire[j]
      /\ Len(q.wire) + 1 \in 1..Len(r.wire) /\ r.wire[Len(q.wire) + 1] = req
      /\ \A j \in 1..Len(r.wire) : j \in 1..Len(q.wire) \/ j = Len(q.wire) + 1
  BY <1>1, More
<1>3. /\ \A i \in DOMAIN q.pending : i \in Nat /\ i < q.nextId /\ q.pending[i] \in Calls
      /\ q.nextId \notin DOMAIN q.pending
  <2>1. PICK S \in SUBSET Nat : q.pending \in [S -> Calls]
    BY DEF Process, Pending
  <2>2. \A i \in DOMAIN q.pending : i \in Nat /\ q.pending[i] \in Calls
    BY <2>1
  <2>3. \A i \in DOMAIN q.pending : i < q.nextId
    BY DEF Matched
  <2>4. QED
    BY <1>1, <2>2, <2>3
<1>4. \A i \in DOMAIN q.pending : ds[q.pending[i]] = cs[q.pending[i]]
  BY <1>3
<1>5. Matched(r)
  <2>1. \A i \in DOMAIN r.pending : i < r.nextId
    BY <1>1, <1>3
  <2>2. \A i, j \in DOMAIN r.pending : r.pending[i] = r.pending[j] => i = j
    BY <1>3 DEF Matched
  <2>3. \A i \in 1..Len(r.wire) : /\ r.wire[i].id \in DOMAIN r.pending
                                  /\ r.pending[r.wire[i].id] = r.wire[i].by
    BY <1>2 DEF Matched
  <2>4. \A i \in 1..Len(r.out) : r.out[i].kind = "answer" =>
           r.out[i].id \in DOMAIN r.pending /\ r.pending[r.out[i].id] = r.out[i].by
    BY DEF Matched
  <2>5. \A i \in 1..Len(q.wire) : q.wire[i].id # req.id
    BY <1>3 DEF Matched
  <2>6. \A i, j \in 1..Len(r.wire) : r.wire[i].id = r.wire[j].id => i = j
    BY <1>2, <2>5 DEF Matched
  <2>7. \A i \in 1..Len(r.out) : r.out[i].kind = "answer" => r.out[i].id # req.id
    BY <1>3 DEF Matched
  <2>8. \A i \in 1..Len(r.wire), j \in 1..Len(r.out) :
           r.out[j].kind = "answer" => r.wire[i].id # r.out[j].id
    BY <1>2, <2>7 DEF Matched
  <2>9. QED
    BY <2>1, <2>2, <2>3, <2>4, <2>6, <2>8, <1>1 DEF Matched
<1>6. \A i, t : Comes(q, i, t) => Comes(r, i, t)
  BY DEF Comes
<1>7. Waited(p, r, ds)
  <2>1. \A i \in DOMAIN r.pending :
           /\ ds[r.pending[i]].proc = p /\ ds[r.pending[i]].ans = "none"
           /\ ds[r.pending[i]].stage \notin {"idle", "wait"}
    BY <1>4 DEF Waited
  <2>2. \A i \in 1..Len(r.wire) : r.wire[i].method = Method(ds[r.wire[i].by].stage)
    <3>1. \A i \in 1..Len(q.wire) : ds[q.wire[i].by] = cs[q.wire[i].by]
      BY <1>4 DEF Matched
    <3>2. QED
      BY <1>2, <3>1 DEF Waited
  <2>3. ASSUME NEW i \in 1..Len(r.out),
               r.out[i].kind = "answer", r.out[i].ok, ds[r.out[i].by].stage = "turn"
        PROVE  Comes(r, i, r.out[i].turn)
    <3>1. cs[r.out[i].by].stage = "turn"
      BY <1>4, <2>3 DEF Matched
    <3>2. QED
      BY <1>6, <2>3, <3>1 DEF Waited
  <2>4. QED
    BY <2>1, <2>2, <2>3 DEF Waited
<1>8. QED
  BY <1>5, <1>6, <1>7

\* A connection that was closed.
LEMMA Closed ==
  ASSUME NEW p, NEW cs, NEW r, r.pending = <<>>, r.wire = <<>>, r.out = <<>>
  PROVE  Matched(r) /\ Waited(p, r, cs)
<1>1. DOMAIN r.pending = {} /\ Len(r.wire) = 0 /\ Len(r.out) = 0
  OBVIOUS
<1>2. 1..0 = {}
  OBVIOUS
<1>3. QED
  BY <1>1, <1>2 DEF Matched, Waited

\* The other connections: whoever waits there is as it was.
LEMMA Elsewhere ==
  ASSUME NEW p, NEW cs, NEW ds, NEW q, Matched(q), Waited(p, q, cs),
         \A i \in DOMAIN q.pending : ds[q.pending[i]] = cs[q.pending[i]]
  PROVE  Waited(p, q, ds)
<1>1. \A i \in 1..Len(q.wire) : ds[q.wire[i].by] = cs[q.wire[i].by]
  BY DEF Matched
<1>2. \A i \in 1..Len(q.out) : q.out[i].kind = "answer" => ds[q.out[i].by] = cs[q.out[i].by]
  BY DEF Matched
<1>3. QED
  BY <1>1, <1>2 DEF Waited

-----------------------------------------------------------------------------
(* The whole state.                                                        *)

\* Ids are registered for calls.
LEMMA PendingCalls ==
  ASSUME NEW q \in Process
  PROVE  \A i \in DOMAIN q.pending : i \in Nat /\ q.pending[i] \in Calls
<1>1. PICK S \in SUBSET Nat : q.pending \in [S -> Calls]
  BY DEF Process, Pending
<1>2. QED
  BY <1>1

LEMMA NothingPending == <<>> \in Pending
<1>1. <<>> \in [{} -> Calls] /\ {} \in SUBSET Nat
  OBVIOUS
<1>2. QED
  BY <1>1 DEF Pending

\* A call that runs on, or that has not begun, waits on no connection.
LEMMA NotWaiting ==
  ASSUME Connections, NEW c, call[c].ans # "none" \/ call[c].stage \in {"idle", "wait"}
  PROVE  \A p \in Procs : \A i \in DOMAIN proc[p].pending : proc[p].pending[i] # c
<1> SUFFICES ASSUME NEW p \in Procs, NEW i \in DOMAIN proc[p].pending, proc[p].pending[i] = c
             PROVE  FALSE
  OBVIOUS
<1>1. Waited(p, proc[p], call)
  BY DEF Connections
<1>2. call[c].ans = "none" /\ call[c].stage \notin {"idle", "wait"}
  BY <1>1 DEF Waited
<1>3. QED
  BY <1>2

\* One connection moves on.
LEMMA OneConnection ==
  ASSUME TypeOK, Connections, NEW p \in Procs,
         Matched(proc'[p]), Waited(p, proc'[p], call'),
         \A o \in Procs : o # p => proc'[o] = proc[o],
         \A o \in Procs : o # p =>
            \A i \in DOMAIN proc[o].pending : call'[proc[o].pending[i]] = call[proc[o].pending[i]]
  PROVE  Connections'
<1>1. ASSUME NEW o \in Procs, o # p PROVE Matched(proc'[o]) /\ Waited(o, proc'[o], call')
  <2>1. Matched(proc[o]) /\ Waited(o, proc[o], call)
    BY DEF Connections
  <2>2. Waited(o, proc[o], call')
    BY <1>1, <2>1, Elsewhere
  <2>3. QED
    BY <1>1, <2>1, <2>2
<1>2. QED
  BY <1>1 DEF Connections

\* No connection moves, and the calls that change wait on none.
LEMMA NoConnection ==
  ASSUME TypeOK, Connections, proc' = proc,
         \A p \in Procs : \A i \in DOMAIN proc[p].pending :
            call'[proc[p].pending[i]] = call[proc[p].pending[i]]
  PROVE  Connections'
<1>1. ASSUME NEW p \in Procs PROVE Matched(proc'[p]) /\ Waited(p, proc'[p], call')
  <2>1. Matched(proc[p]) /\ Waited(p, proc[p], call)
    BY DEF Connections
  <2>2. Waited(p, proc[p], call')
    BY <2>1, Elsewhere
  <2>3. QED
    BY <2>1, <2>2
<1>2. QED
  BY <1>1 DEF Connections

\* A call whose turn nobody touches.
LEMMA TurnStays ==
  ASSUME NEW k, NEW h, NEW g, NEW ps, NEW qs, TurnFollowed(k, h, ps),
         k.stage \in {"turn", "wait"} => k.proc \in Procs,
         g.disposed = h.disposed, g.active = h.active, g.completed = h.completed,
         \A o \in Procs : /\ qs[o].state = "crashed" => ps[o].state = "crashed"
                          /\ qs[o].open =>
                                ps[o].open /\ \A t : Comes(ps[o], 0, t) => Comes(qs[o], 0, t)
  PROVE  TurnFollowed(k, g, qs)
<1>1. CASE k.stage \in {"turn", "wait"}
  BY <1>1 DEF TurnFollowed
<1>2. CASE k.stage \notin {"turn", "wait"}
  BY <1>2 DEF TurnFollowed
<1>3. QED
  BY <1>1, <1>2

\* A process and its connection move on while all calls wait.
LEMMA ProcessStep ==
  ASSUME IInv, NEW p \in Procs, NEW r \in Process, proc' = [proc EXCEPT ![p] = r],
         host' \in HostState, host'.child = host.child, host'.disposed = host.disposed,
         host'.active = host.active, host'.completed = host.completed,
         turns' \in Nat, call' = call,
         r.open = proc[p].open,
         r.state = proc[p].state \/ (proc[p].state # "alive" /\ r.state = "exited"),
         Matched(r), Waited(p, r, call), \A t : Comes(proc[p], 0, t) => Comes(r, 0, t)
  PROVE  IInv'
<1>1. TypeOK /\ Connections /\ Life /\ OneProcess /\ Stages /\ Turning
  BY DEF IInv
<1>2. proc'[p] = r /\ \A o \in Procs : o # p => proc'[o] = proc[o]
  BY <1>1 DEF TypeOK
<1>3. TypeOK'
  BY <1>1, <1>2 DEF TypeOK
<1>4. Connections'
  BY <1>1, <1>2, OneConnection
<1>5. Life' /\ OneProcess'
  BY <1>1, <1>2 DEF Life, OneProcess
<1>6. Stages'
  BY <1>1, <1>2 DEF Stages
<1>7. \A o \in Procs : /\ proc'[o].state = "crashed" => proc[o].state = "crashed"
                       /\ proc'[o].open =>
                             proc[o].open /\ \A t : Comes(proc[o], 0, t) => Comes(proc'[o], 0, t)
  BY <1>2
<1>8. Turning'
  <2>1. ASSUME NEW c \in Calls PROVE TurnFollowed(call'[c], host', proc')
    <3>1. TurnFollowed(call[c], host, proc) /\ (call[c].stage \in {"turn", "wait"} => call[c].proc \in Procs)
      BY <1>1 DEF Stages, Turning
    <3>2. QED
      BY <1>7, <3>1, TurnStays, ZenonT(30)
  <2>2. QED
    BY <2>1 DEF Turning
<1>9. QED
  BY <1>3, <1>4, <1>5, <1>6, <1>8 DEF IInv

\* What the app-server says and is asked has its type.
LEMMA LineTypes ==
  ASSUME NEW q \in Process
  PROVE  /\ q.wire \in Seq(Req) /\ q.out \in Seq(Line)
         /\ q.wire # <<>> => /\ Head(q.wire) = q.wire[1] /\ Head(q.wire) \in Req
                             /\ Tail(q.wire) \in Seq(Req)
         /\ q.out # <<>> => /\ Head(q.out) = q.out[1] /\ Head(q.out) \in Line
                            /\ Tail(q.out) \in Seq(Line)
         /\ \A l \in Line : Append(q.out, l) \in Seq(Line)
         /\ \A r \in Req : Append(q.wire, r) \in Seq(Req)
<1>1. q.wire \in Seq(Req) /\ q.out \in Seq(Line)
  BY DEF Process
<1>2. q.wire # <<>> => /\ Head(q.wire) = q.wire[1] /\ Head(q.wire) \in Req
                       /\ Tail(q.wire) \in Seq(Req)
  BY <1>1, Rest
<1>3. q.out # <<>> => /\ Head(q.out) = q.out[1] /\ Head(q.out) \in Line
                      /\ Tail(q.out) \in Seq(Line)
  BY <1>1, Rest
<1>4. \A l \in Line : Append(q.out, l) \in Seq(Line)
  BY <1>1, More
<1>5. \A r \in Req : Append(q.wire, r) \in Seq(Req)
  BY <1>1, More
<1>6. QED
  BY <1>1, <1>2, <1>3, <1>4, <1>5

LEMMA MessageStep == ASSUME IInv, NEW p \in Procs, HandleMessage(p) PROVE IInv'
<1> DEFINE q == proc[p]
           r == [proc[p] EXCEPT !.out = Tail(@)]
<1>1. q \in Process /\ Matched(q) /\ Waited(p, q, call) /\ host \in HostState /\ turns \in Nat
  BY DEF IInv, TypeOK, Connections
<1>2. q.out # <<>> /\ Head(q.out) = q.out[1] /\ Tail(q.out) \in Seq(Line)
      /\ q.out[1].kind \in {"delta", "item"}
  BY <1>1, LineTypes DEF HandleMessage
<1>3. /\ r \in Process /\ r.out = Tail(q.out) /\ r.pending = q.pending /\ r.nextId = q.nextId
      /\ r.wire = q.wire /\ r.turn = q.turn /\ r.open = q.open /\ r.state = q.state
  BY <1>1, <1>2 DEF Process
<1>4. Matched(r) /\ Waited(p, r, call) /\ \A t : Comes(q, 0, t) => Comes(r, 0, t)
  <2>1. q.out[1].kind # "answer" /\ q.out[1].kind # "done"
    BY <1>2
  <2> HIDE DEF q, r
  <2>2. QED
    BY <1>1, <1>2, <1>3, <2>1, NoticeTaken
<1>5. /\ host' \in HostState /\ host'.child = host.child /\ host'.disposed = host.disposed
      /\ host'.active = host.active /\ host'.completed = host.completed
  <2>1. ASSUME NEW t, NEW b PROVE UpdateAgentMessageItem(host.text, t, b) \in [Turns -> Nat]
    <3>1. host.text \in [Turns -> Nat]
      BY <1>1 DEF HostState
    <3>2. CASE t \in Turns
      <4>1. host.text[t] + 1 \in Nat /\ Pieces \in Nat
        BY <3>1, <3>2 DEF Pieces
      <4>2. QED
        BY <3>1, <4>1 DEF UpdateAgentMessageItem
    <3>3. CASE t \notin Turns
      BY <3>1, <3>3 DEF UpdateAgentMessageItem
    <3>4. QED
      BY <3>2, <3>3
  <2>2. QED
    BY <1>1, <2>1 DEF HandleMessage, HostState
<1>6. proc' = [proc EXCEPT ![p] = r] /\ call' = call /\ turns' \in Nat
  BY <1>1 DEF HandleMessage
<1> HIDE DEF q, r
<1>7. QED
  BY <1>1, <1>3, <1>4, <1>5, <1>6, ProcessStep DEF q

\* The first request is answered.
LEMMA AnswerGiven ==
  ASSUME IInv, NEW p \in Procs, NEW r \in Process, NEW ok \in BOOLEAN, NEW t \in Nat,
         proc' = [proc EXCEPT ![p] = r], proc[p].wire # <<>>,
         r.wire = Tail(proc[p].wire), r.out = Append(proc[p].out, Answer(Head(proc[p].wire), ok, t)),
         r.pending = proc[p].pending, r.nextId = proc[p].nextId, r.open = proc[p].open,
         r.state = proc[p].state, r.turn = proc[p].turn \/ proc[p].turn = None,
         ok /\ Head(proc[p].wire).method = "turn" => t # None /\ r.turn = t,
         host' = host, call' = call, turns' \in Nat
  PROVE  IInv'
<1> DEFINE q == proc[p]
           l == Answer(Head(proc[p].wire), ok, t)
<1>1. q \in Process /\ Matched(q) /\ Waited(p, q, call) /\ host \in HostState
  BY DEF IInv, TypeOK, Connections
<1>2. Head(q.wire) = q.wire[1] /\ Head(q.wire) \in Req
  BY <1>1, LineTypes
<1>3. l \in Line /\ l.kind = "answer" /\ l.id = q.wire[1].id /\ l.by = q.wire[1].by
      /\ l.ok = ok /\ l.turn = t
  BY <1>2 DEF Answer, Line, Req
<1>4. Matched(r) /\ Waited(p, r, call) /\ \A u : Comes(q, 0, u) => Comes(r, 0, u)
  <2>1. r.out = Append(q.out, l) /\ (l.ok /\ q.wire[1].method = "turn" => l.turn # None /\ r.turn = l.turn)
    BY <1>2, <1>3
  <2>2. q.wire # <<>> /\ r.wire = Tail(q.wire) /\ r.pending = q.pending /\ r.nextId = q.nextId
        /\ (r.turn = q.turn \/ q.turn = None)
    OBVIOUS
  <2> HIDE DEF q, l
  <2>3. QED
    BY <1>1, <1>2, <1>3, <2>1, <2>2, RequestAnswered
<1> HIDE DEF q, l
<1>5. QED
  BY <1>1, <1>4, ProcessStep DEF q

LEMMA RefusesStep == ASSUME IInv, NEW p \in Procs, ServerRefuses(p) PROVE IInv'
<1> DEFINE r == [proc[p] EXCEPT !.wire = Tail(@),
                   !.refused = @ \/ Head(proc[p].wire).method = "roots",
                   !.out = Append(@, Answer(Head(proc[p].wire), FALSE, None))]
<1>1. proc[p] \in Process /\ turns \in Nat /\ proc[p].wire # <<>>
  BY DEF IInv, TypeOK, ServerRefuses
<1>2. Tail(proc[p].wire) \in Seq(Req) /\ Head(proc[p].wire) \in Req
  BY <1>1, LineTypes
<1>3. Answer(Head(proc[p].wire), FALSE, None) \in Line
  BY <1>2 DEF Answer, Line, Req, None
<1>4. Append(proc[p].out, Answer(Head(proc[p].wire), FALSE, None)) \in Seq(Line)
  BY <1>1, <1>3, LineTypes
<1>5. /\ r \in Process /\ r.wire = Tail(proc[p].wire)
      /\ r.out = Append(proc[p].out, Answer(Head(proc[p].wire), FALSE, None))
      /\ r.pending = proc[p].pending /\ r.nextId = proc[p].nextId /\ r.open = proc[p].open
      /\ r.state = proc[p].state /\ r.turn = proc[p].turn
  BY <1>1, <1>2, <1>4 DEF Process
<1>6. proc' = [proc EXCEPT ![p] = r] /\ host' = host /\ call' = call /\ turns' \in Nat
  BY <1>1 DEF ServerRefuses
<1> HIDE DEF r
<1>7. QED
  BY <1>1, <1>5, <1>6, AnswerGiven DEF None

LEMMA AnswersStep == ASSUME IInv, NEW p \in Procs, ServerAnswers(p) PROVE IInv'
<1> DEFINE r == [proc[p] EXCEPT !.wire = Tail(@),
                   !.roots = IF Head(proc[p].wire).method = "roots"
                             THEN Head(proc[p].wire).config ELSE @,
                   !.loaded = @ \/ Head(proc[p].wire).method \in {"start", "resume"},
                   !.out = Append(@, Answer(Head(proc[p].wire), TRUE, None))]
<1>1. proc[p] \in Process /\ turns \in Nat /\ proc[p].wire # <<>>
  BY DEF IInv, TypeOK, ServerAnswers
<1>2. Tail(proc[p].wire) \in Seq(Req) /\ Head(proc[p].wire) \in Req
  BY <1>1, LineTypes
<1>3. Answer(Head(proc[p].wire), TRUE, None) \in Line /\ Head(proc[p].wire).config \in Skills
  BY <1>2 DEF Answer, Line, Req, None
<1>4. Append(proc[p].out, Answer(Head(proc[p].wire), TRUE, None)) \in Seq(Line)
  BY <1>1, <1>3, LineTypes
<1>5. /\ r \in Process /\ r.wire = Tail(proc[p].wire)
      /\ r.out = Append(proc[p].out, Answer(Head(proc[p].wire), TRUE, None))
      /\ r.pending = proc[p].pending /\ r.nextId = proc[p].nextId /\ r.open = proc[p].open
      /\ r.state = proc[p].state /\ r.turn = proc[p].turn
  BY <1>1, <1>2, <1>3, <1>4 DEF Process
<1>6. proc' = [proc EXCEPT ![p] = r] /\ host' = host /\ call' = call /\ turns' \in Nat
      /\ Head(proc[p].wire).method # "turn"
  BY <1>1 DEF ServerAnswers
<1> HIDE DEF r
<1>7. QED
  BY <1>1, <1>5, <1>6, AnswerGiven DEF None

LEMMA StartsStep == ASSUME IInv, NEW p \in Procs, ServerStartsTurn(p) PROVE IInv'
<1> DEFINE r == [proc[p] EXCEPT !.wire = Tail(@), !.turn = turns + 1, !.sent = 0,
                   !.out = Append(@, Answer(Head(proc[p].wire), TRUE, turns + 1))]
<1>1. proc[p] \in Process /\ turns \in Nat /\ proc[p].wire # <<>> /\ proc[p].turn = None
  BY DEF IInv, TypeOK, ServerStartsTurn
<1>2. Tail(proc[p].wire) \in Seq(Req) /\ Head(proc[p].wire) \in Req
  BY <1>1, LineTypes
<1>3. Answer(Head(proc[p].wire), TRUE, turns + 1) \in Line /\ turns + 1 \in Nat /\ turns + 1 # None
  BY <1>1, <1>2 DEF Answer, Line, Req, None
<1>4. Append(proc[p].out, Answer(Head(proc[p].wire), TRUE, turns + 1)) \in Seq(Line)
  BY <1>1, <1>3, LineTypes
<1>5. /\ r \in Process /\ r.wire = Tail(proc[p].wire)
      /\ r.out = Append(proc[p].out, Answer(Head(proc[p].wire), TRUE, turns + 1))
      /\ r.pending = proc[p].pending /\ r.nextId = proc[p].nextId /\ r.open = proc[p].open
      /\ r.state = proc[p].state /\ r.turn = turns + 1
  BY <1>1, <1>2, <1>3, <1>4 DEF Process
<1>6. proc' = [proc EXCEPT ![p] = r] /\ host' = host /\ call' = call /\ turns' \in Nat
  BY <1>1 DEF ServerStartsTurn
<1> HIDE DEF r
<1>7. QED
  BY <1>1, <1>3, <1>5, <1>6, AnswerGiven

\* A notification is sent.
LEMMA NoticeGiven ==
  ASSUME IInv, NEW p \in Procs, NEW r \in Process, NEW l \in Line, l.kind # "answer",
         proc' = [proc EXCEPT ![p] = r], r.wire = proc[p].wire, r.out = Append(proc[p].out, l),
         r.pending = proc[p].pending, r.nextId = proc[p].nextId, r.open = proc[p].open,
         r.state = proc[p].state,
         r.turn = proc[p].turn \/ (l.kind = "done" /\ l.turn = proc[p].turn),
         host' = host, call' = call, turns' = turns
  PROVE  IInv'
<1> DEFINE q == proc[p]
<1>1. q \in Process /\ Matched(q) /\ Waited(p, q, call) /\ host \in HostState /\ turns \in Nat
  BY DEF IInv, TypeOK, Connections
<1>2. Matched(r) /\ Waited(p, r, call) /\ \A u : Comes(q, 0, u) => Comes(r, 0, u)
  BY <1>1, NoticeSaid
<1> HIDE DEF q
<1>3. QED
  BY <1>1, <1>2, ProcessStep DEF q

LEMMA StreamsStep == ASSUME IInv, NEW p \in Procs, ServerStreams(p) PROVE IInv'
<1> DEFINE l == Notice(IF proc[p].sent < Pieces THEN "delta" ELSE "item", proc[p].turn, TRUE)
           r == [proc[p] EXCEPT !.sent = @ + 1, !.out = Append(@, l)]
<1>1. proc[p] \in Process
  BY DEF IInv, TypeOK
<1>2. l \in Line /\ l.kind # "answer"
  BY <1>1 DEF Notice, Line, Process, None
<1> HIDE DEF l
<1>3. Append(proc[p].out, l) \in Seq(Line) /\ proc[p].sent + 1 \in Nat
  <2>1. proc[p].sent + 1 \in Nat
    BY <1>1 DEF Process
  <2>2. QED
    BY <1>1, <1>2, <2>1, LineTypes
<1>4. /\ r \in Process /\ r.wire = proc[p].wire /\ r.out = Append(proc[p].out, l)
      /\ r.pending = proc[p].pending /\ r.nextId = proc[p].nextId /\ r.open = proc[p].open
      /\ r.state = proc[p].state /\ r.turn = proc[p].turn
  BY <1>1, <1>3 DEF Process
<1>5. proc' = [proc EXCEPT ![p] = r] /\ host' = host /\ call' = call /\ turns' = turns
  BY DEF ServerStreams, l
<1> HIDE DEF r
<1>6. QED
  BY <1>2, <1>4, <1>5, NoticeGiven

LEMMA CompletesStep ==
  ASSUME IInv, NEW p \in Procs, NEW ok \in BOOLEAN, ServerCompletesTurn(p, ok) PROVE IInv'
<1> DEFINE l == Notice("done", proc[p].turn, ok)
           r == [proc[p] EXCEPT !.turn = None, !.out = Append(@, l)]
<1>1. proc[p] \in Process
  BY DEF IInv, TypeOK
<1>2. l \in Line /\ l.kind = "done" /\ l.turn = proc[p].turn
  BY <1>1 DEF Notice, Line, Process, None
<1> HIDE DEF l
<1>3. Append(proc[p].out, l) \in Seq(Line)
  BY <1>1, <1>2, LineTypes
<1>4. /\ r \in Process /\ r.wire = proc[p].wire /\ r.out = Append(proc[p].out, l)
      /\ r.pending = proc[p].pending /\ r.nextId = proc[p].nextId /\ r.open = proc[p].open
      /\ r.state = proc[p].state
  BY <1>1, <1>3 DEF Process, None
<1>5. proc' = [proc EXCEPT ![p] = r] /\ host' = host /\ call' = call /\ turns' = turns
  BY DEF ServerCompletesTurn, l
<1> HIDE DEF r
<1>6. QED
  BY <1>2, <1>4, <1>5, NoticeGiven

Request(id, method, config, c) == [id |-> id, method |-> method, config |-> config, by |-> c]

\* A request has its type and registers its call under the next id.
LEMMA RequestedIs ==
  ASSUME NEW p, NEW q \in Process, q = proc[p], NEW c \in Calls, NEW config \in Skills,
         NEW method \in Methods
  PROVE  /\ Requested(p, c, method, config) \in Process
         /\ Request(q.nextId, method, config, c) \in Req
         /\ Requested(p, c, method, config).wire =
               Append(q.wire, Request(q.nextId, method, config, c))
         /\ \A i : i \in DOMAIN Requested(p, c, method, config).pending
                      <=> i \in DOMAIN q.pending \/ i = q.nextId
         /\ \A i : i \in DOMAIN q.pending /\ i # q.nextId =>
                     Requested(p, c, method, config).pending[i] = q.pending[i]
         /\ Requested(p, c, method, config).pending[q.nextId] = c
         /\ Requested(p, c, method, config).nextId = q.nextId + 1
         /\ Requested(p, c, method, config).out = q.out
         /\ Requested(p, c, method, config).turn = q.turn
         /\ Requested(p, c, method, config).open = q.open
         /\ Requested(p, c, method, config).state = q.state
<1> DEFINE r == Requested(p, c, method, config)
           req == Request(q.nextId, method, config, c)
           pend == [i \in DOMAIN q.pending \cup {q.nextId} |-> IF i = q.nextId THEN c ELSE q.pending[i]]
<1>1. req \in Req /\ q.nextId \in Nat /\ q.nextId + 1 \in Nat
  BY DEF Req, Process, Request, Methods
<1>2. Append(q.wire, req) \in Seq(Req)
  BY <1>1, LineTypes
<1>3. \A i \in DOMAIN q.pending : i \in Nat /\ q.pending[i] \in Calls
  BY PendingCalls
<1>4. pend \in Pending
  <2>1. DOMAIN q.pending \cup {q.nextId} \in SUBSET Nat
    BY <1>1, <1>3
  <2>2. pend \in [DOMAIN q.pending \cup {q.nextId} -> Calls]
    BY <1>3
  <2>3. QED
    BY <2>1, <2>2 DEF Pending
<1>5. r = [q EXCEPT !.nextId = q.nextId + 1, !.pending = pend, !.wire = Append(q.wire, req)]
  BY DEF Requested, NextId, Request
<1>6. /\ \A i : i \in DOMAIN pend <=> i \in DOMAIN q.pending \/ i = q.nextId
      /\ \A i : i \in DOMAIN q.pending /\ i # q.nextId => pend[i] = q.pending[i]
      /\ pend[q.nextId] = c
  OBVIOUS
<1> HIDE DEF pend, r, req
<1>7. /\ r \in Process /\ r.wire = Append(q.wire, req) /\ r.pending = pend
      /\ r.nextId = q.nextId + 1
      /\ r.out = q.out /\ r.turn = q.turn /\ r.open = q.open /\ r.state = q.state
  BY <1>1, <1>2, <1>4, <1>5 DEF Process
<1>8. QED
  BY <1>1, <1>6, <1>7 DEF r, req

\* A call that runs on, or begins, sends a request.
LEMMA SendStep ==
  ASSUME IInv, NEW c \in Calls, NEW p \in Procs, NEW record \in Call, NEW stage \in Sent,
         NEW config \in Skills, call[c].ans # "none" \/ call[c].stage = "idle",
         Sends(c, record, p, stage, config), record.op # "none",
         stage \in {"roots", "list", "turn"} => record.op = "turn",
         record.op = "turn" => \A d \in Calls : call[d].op = "turn" => d = c,
         host' \in HostState, host'.child = host.child, host'.disposed = host.disposed,
         host'.active = host.active, host'.completed = host.completed, turns' = turns
  PROVE  IInv'
<1> DEFINE q == proc[p]
           r == Requested(p, c, Method(stage), config)
           req == Request(q.nextId, Method(stage), config, c)
<1>1. /\ TypeOK /\ Connections /\ Life /\ OneProcess /\ Stages /\ Turning
      /\ q \in Process /\ Matched(q) /\ Waited(p, q, call) /\ q.open /\ q.state = "alive"
  BY DEF IInv, TypeOK, Connections, Sends, Life
<1>2. Method(stage) \in Methods
  BY DEF Method, Methods, Sent
<1>3. /\ r \in Process /\ req \in Req
      /\ r.wire = Append(q.wire, req)
      /\ \A i : i \in DOMAIN r.pending <=> i \in DOMAIN q.pending \/ i = q.nextId
      /\ \A i : i \in DOMAIN q.pending /\ i # q.nextId => r.pending[i] = q.pending[i]
      /\ r.pending[q.nextId] = c /\ r.nextId = q.nextId + 1
      /\ r.out = q.out /\ r.turn = q.turn /\ r.open = q.open /\ r.state = q.state
  <2>1. q \in Process /\ q = proc[p]
    BY <1>1
  <2> HIDE DEF q
  <2>2. QED
    BY <1>2, <2>1, RequestedIs
<1>4. /\ call' \in [Calls -> Call] /\ \A d \in Calls : d # c => call'[d] = call[d]
      /\ call'[c].stage = stage /\ call'[c].ans = "none" /\ call'[c].proc = p
      /\ call'[c].op = record.op
  <2>1. [record EXCEPT !.stage = stage, !.ans = "none", !.proc = p] \in Call
    BY DEF Call
  <2>2. QED
    BY <1>1, <2>1 DEF Sends, TypeOK, Call
<1>5. \A o \in Procs : \A i \in DOMAIN proc[o].pending : proc[o].pending[i] # c
  BY <1>1, NotWaiting
<1>6. \A i \in DOMAIN q.pending : i # q.nextId
  <2>1. q.nextId \in Nat
    BY <1>1 DEF Process
  <2>2. \A i \in DOMAIN q.pending : i < q.nextId
    BY <1>1 DEF Matched
  <2>3. QED
    BY <2>1, <2>2
<1>7. Matched(r) /\ Waited(p, r, call') /\ \A t : Comes(q, 0, t) => Comes(r, 0, t)
  <2>1. req.id = q.nextId /\ req.by = c /\ req.method = Method(stage)
    BY DEF Request
  <2>2. \A i \in DOMAIN q.pending : q.pending[i] # req.by
    BY <1>5, <2>1
  <2>3. \A d \in Calls : d # req.by => call'[d] = call[d]
    BY <1>4, <2>1
  <2>4. stage \notin {"idle", "wait"}
    BY DEF Sent
  <2>5. \A i : i \in DOMAIN q.pending => r.pending[i] = q.pending[i]
    BY <1>3, <1>6
  <2>6. /\ call'[req.by].proc = p /\ call'[req.by].ans = "none"
        /\ call'[req.by].stage \notin {"idle", "wait"} /\ r.pending[q.nextId] = req.by
        /\ req.method = Method(call'[req.by].stage)
    BY <1>3, <1>4, <2>1, <2>4
  <2> HIDE DEF q, r, req
  <2>7. QED
    BY <1>1, <1>3, <2>1, <2>2, <2>3, <2>5, <2>6, RequestSent, SMTT(30)
<1>8. proc' = [proc EXCEPT ![p] = r]
  BY DEF Sends
<1> HIDE DEF r, req
<1>9. proc'[p] = r /\ \A o \in Procs : o # p => proc'[o] = proc[o]
  BY <1>1, <1>8 DEF TypeOK
<1>10. TypeOK'
  BY <1>1, <1>3, <1>4, <1>8 DEF TypeOK
<1>11. Connections'
  <2>1. \A o \in Procs : \A i \in DOMAIN proc[o].pending : proc[o].pending[i] \in Calls
    BY <1>1, PendingCalls DEF TypeOK
  <2>2. QED
    BY <1>1, <1>4, <1>5, <1>7, <1>9, <2>1, OneConnection
<1>12. Life' /\ OneProcess'
  BY <1>1, <1>3, <1>9 DEF Life, OneProcess
<1>13. Stages'
  <2>1. \A d \in Calls : call[d].op = "turn" /\ record.op = "turn" => d = c
    OBVIOUS
  <2>2. \A o \in Procs : proc[o].state # "unborn" => proc'[o].state # "unborn"
    BY <1>3, <1>9
  <2>3. \A d, e \in Calls : call'[d].op = "turn" /\ call'[e].op = "turn" => d = e
    BY <1>1, <1>4, <2>1 DEF Stages
  <2>4. ASSUME NEW d \in Calls, d # c
        PROVE /\ call'[d].stage \in {"roots", "list", "turn", "wait"} => call'[d].op = "turn"
              /\ call'[d].stage # "idle" => /\ call'[d].op # "none" /\ call'[d].proc \in Procs
                                            /\ proc'[call'[d].proc].state # "unborn"
              /\ call'[d].stage = "idle" => call'[d].ans = "none"
    BY <1>1, <1>4, <2>2, <2>4 DEF Stages
  <2>5. /\ call'[c].stage \in {"roots", "list", "turn", "wait"} => call'[c].op = "turn"
        /\ call'[c].op # "none" /\ call'[c].proc \in Procs
        /\ proc'[call'[c].proc].state # "unborn" /\ call'[c].stage # "idle"
    BY <1>1, <1>3, <1>4, <1>9 DEF Sent
  <2>6. QED
    BY <2>3, <2>4, <2>5 DEF Stages
<1>14. \A o \in Procs : /\ proc'[o].state = "crashed" => proc[o].state = "crashed"
                        /\ proc'[o].open =>
                              proc[o].open /\ \A t : Comes(proc[o], 0, t) => Comes(proc'[o], 0, t)
  BY <1>3, <1>7, <1>9
<1>15. Turning'
  <2>1. TurnFollowed(call'[c], host', proc')
    BY <1>4 DEF Sent, TurnFollowed
  <2>2. ASSUME NEW d \in Calls, d # c PROVE TurnFollowed(call'[d], host', proc')
    <3>1. /\ TurnFollowed(call[d], host, proc) /\ call'[d] = call[d]
          /\ call[d].stage \in {"turn", "wait"} => call[d].proc \in Procs
      BY <1>1, <1>4, <2>2 DEF Stages, Turning
    <3>2. QED
      BY <1>14, <3>1, TurnStays
  <2>3. QED
    BY <2>1, <2>2 DEF Turning
<1>16. QED
  BY <1>10, <1>11, <1>12, <1>13, <1>15 DEF IInv

\* What an operation does once it has a process.
LEMMA ContinuesStep ==
  ASSUME IInv, NEW c \in Calls, NEW p \in Procs, NEW record \in Call,
         call[c].ans # "none" \/ call[c].stage = "idle",
         Continues(c, record, p), record.op # "none",
         record.op = "turn" => \A d \in Calls : call[d].op = "turn" => d = c,
         turns' = turns
  PROVE  IInv'
<1> DEFINE next == IF record.op = "turn" THEN Configured(host, record.config) ELSE host
           after == FirstStage(record.op)
           stage == IF after = "roots" /\ next.applied THEN "list" ELSE after
<1>1. host \in HostState /\ record.op \in Ops /\ record.config \in Skills
  BY DEF IInv, TypeOK, Call
<1>2. /\ next \in HostState /\ next.child = host.child /\ next.disposed = host.disposed
      /\ next.active = host.active /\ next.completed = host.completed /\ next.desired \in Skills
  <2>1. /\ Configured(host, record.config) \in HostState
        /\ Configured(host, record.config).child = host.child
        /\ Configured(host, record.config).disposed = host.disposed
        /\ Configured(host, record.config).active = host.active
        /\ Configured(host, record.config).completed = host.completed
    BY <1>1 DEF Configured, HostState
  <2>2. QED
    BY <1>1, <2>1 DEF HostState
<1>3. /\ stage \in Sent
      /\ stage \in {"roots", "list", "turn"} => record.op = "turn"
  BY <1>1 DEF FirstStage, Sent, Ops
<1>4. Sends(c, record, p, stage, next.desired) /\ host' = next
  BY DEF Continues
<1> HIDE DEF stage, next
<1>5. QED
  BY <1>2, <1>3, <1>4, SendStep

\* A call that has begun.
LEMMA Begun ==
  ASSUME IInv, NEW c \in Calls, call[c].stage # "idle"
  PROVE  /\ call[c] \in Call /\ call[c].op # "none" /\ call[c].proc \in Procs
         /\ call[c].op = "turn" => \A d \in Calls : call[d].op = "turn" => d = c
<1>1. call[c] \in Call
  BY DEF IInv, TypeOK
<1>2. QED
  BY <1>1 DEF IInv, Stages

LEMMA InitializedStep == ASSUME IInv, NEW c \in Calls, Initialized(c) PROVE IInv'
<1>1. call[c].stage = "init" /\ call[c].ans # "none" /\ turns' = turns
  BY DEF Initialized, Answered
<1>2. /\ call[c] \in Call /\ call[c].op # "none" /\ call[c].proc \in Procs
      /\ call[c].op = "turn" => \A d \in Calls : call[d].op = "turn" => d = c
  BY <1>1, Begun
<1>3. CASE host.desired # None
  <2>1. host \in HostState /\ host.desired \in Skills
    BY DEF IInv, TypeOK, HostState
  <2>2. PICK stage \in {"ilist", "iroots"} :
           Sends(c, call[c], call[c].proc, stage, host.desired) /\ host' = host
    BY <1>3 DEF Initialized
  <2>3. stage \in Sent /\ stage \notin {"roots", "list", "turn"}
    BY DEF Sent
  <2>4. QED
    BY <1>1, <1>2, <2>1, <2>2, <2>3, SendStep
<1>4. CASE ~(host.desired # None)
  <2>1. Continues(c, call[c], call[c].proc)
    BY <1>4 DEF Initialized
  <2>2. QED
    BY <1>1, <1>2, <2>1, ContinuesStep
<1>5. QED
  BY <1>3, <1>4

LEMMA RootsSetStep == ASSUME IInv, NEW c \in Calls, RootsSet(c) PROVE IInv'
<1>1. call[c].stage \in {"iroots", "roots"} /\ call[c].ans # "none" /\ turns' = turns
  BY DEF RootsSet, Answered
<1>2. /\ call[c] \in Call /\ call[c].op # "none" /\ call[c].proc \in Procs
      /\ call[c].op = "turn" => \A d \in Calls : call[d].op = "turn" => d = c
      /\ call[c].stage = "roots" => call[c].op = "turn"
  BY <1>1, Begun DEF IInv, Stages
<1>3. host \in HostState /\ host.desired \in Skills
  BY DEF IInv, TypeOK, HostState
<1>4. /\ host' \in HostState /\ host'.child = host.child /\ host'.disposed = host.disposed
      /\ host'.active = host.active /\ host'.completed = host.completed
  BY <1>3 DEF RootsSet, HostState
<1>5. PICK stage \in {"ilist", "list"} :
         /\ Sends(c, call[c], call[c].proc, stage, host.desired)
         /\ stage = "list" => call[c].stage = "roots"
  BY DEF RootsSet
<1>6. stage \in Sent /\ (stage \in {"roots", "list", "turn"} => call[c].op = "turn")
  BY <1>2, <1>5 DEF Sent
<1>7. QED
  BY <1>1, <1>2, <1>3, <1>4, <1>5, <1>6, SendStep

LEMMA SkillsListedStep == ASSUME IInv, NEW c \in Calls, SkillsListed(c) PROVE IInv'
<1>1. call[c].stage = "ilist" /\ call[c].ans # "none" /\ turns' = turns
      /\ Continues(c, call[c], call[c].proc)
  BY DEF SkillsListed, Answered
<1>2. /\ call[c] \in Call /\ call[c].op # "none" /\ call[c].proc \in Procs
      /\ call[c].op = "turn" => \A d \in Calls : call[d].op = "turn" => d = c
  BY <1>1, Begun
<1>3. QED
  BY <1>1, <1>2, ContinuesStep

LEMMA PromptSentStep == ASSUME IInv, NEW c \in Calls, PromptSent(c) PROVE IInv'
<1>1. call[c].stage = "list" /\ call[c].ans # "none" /\ turns' = turns /\ host' = host
      /\ Open(c) /\ Sends(c, call[c], host.child, "turn", None)
  BY DEF PromptSent, Answered
<1>2. /\ call[c] \in Call /\ call[c].op # "none" /\ call[c].proc \in Procs
      /\ call[c].op = "turn" /\ \A d \in Calls : call[d].op = "turn" => d = c
  BY <1>1, Begun DEF IInv, Stages
<1>3. host.child \in Procs /\ host \in HostState
  BY <1>1, <1>2 DEF Open, IInv, Life, OneProcess, TypeOK
<1>4. "turn" \in Sent /\ None \in Skills
  BY DEF Sent, Skills
<1>5. QED
  BY <1>1, <1>2, <1>3, <1>4, SendStep

LEMMA CallOnLiveStep ==
  ASSUME IInv, NEW c \in Calls, NEW op \in Ops,
         NEW config \in (IF op = "turn" THEN Configs ELSE {None}), CallOnLive(c, op, config)
  PROVE  IInv'
<1> DEFINE record == [NoCall EXCEPT !.op = op, !.config = config]
<1>1. record \in Call /\ record.op = op /\ op # "none"
  <2>1. config \in Skills
    BY DEF Skills
  <2>2. QED
    BY <2>1 DEF NoCall, Call, Ops, None
<1>2. /\ call[c] = NoCall /\ MayCall(op) /\ Live /\ Continues(c, record, host.child)
      /\ turns' = turns
  BY DEF CallOnLive, Begins
<1>3. call[c].stage = "idle" /\ host.child \in Procs
  BY <1>2 DEF NoCall, Live, IInv, TypeOK, HostState
<1>4. ASSUME op = "turn", NEW d \in Calls, call[d].op = "turn" PROVE d = c
  BY <1>2, <1>4 DEF MayCall
<1> HIDE DEF record
<1>5. QED
  BY <1>1, <1>2, <1>3, <1>4, ContinuesStep

\* A call ends; what a turn has left behind is forgotten with it.
LEMMA EndStep ==
  ASSUME IInv, NEW c \in Calls, call[c].ans # "none", Ends(c), proc' = proc, turns' = turns,
         host' \in HostState, host'.child = host.child, host'.disposed = host.disposed,
         call[c].op # "turn" => host'.active = host.active /\ host'.completed = host.completed
  PROVE  IInv'
<1>1. /\ TypeOK /\ Connections /\ Life /\ OneProcess /\ Stages /\ Turning
  BY DEF IInv
<1>2. /\ call' \in [Calls -> Call] /\ \A d \in Calls : d # c => call'[d] = call[d]
      /\ call'[c] = NoCall
  <2>1. NoCall \in Call
    BY DEF NoCall, Call, Skills, None
  <2>2. QED
    BY <1>1, <2>1 DEF Ends, TypeOK
<1>3. TypeOK'
  BY <1>1, <1>2 DEF TypeOK
<1>4. Connections'
  <2>1. \A o \in Procs : \A i \in DOMAIN proc[o].pending :
           proc[o].pending[i] \in Calls /\ proc[o].pending[i] # c
    BY <1>1, PendingCalls, NotWaiting DEF TypeOK
  <2>2. QED
    BY <1>1, <1>2, <2>1, NoConnection
<1>5. Life' /\ OneProcess'
  BY <1>1 DEF Life, OneProcess
<1>6. Stages'
  <2>1. NoCall.stage = "idle" /\ NoCall.op = "none" /\ NoCall.ans = "none"
    BY DEF NoCall
  <2>2. QED
    BY <1>1, <1>2, <2>1 DEF Stages
<1>7. Turning'
  <2>1. TurnFollowed(call'[c], host', proc')
    BY <1>2 DEF NoCall, TurnFollowed
  <2>2. ASSUME NEW d \in Calls, d # c PROVE TurnFollowed(call'[d], host', proc')
    <3>1. /\ TurnFollowed(call[d], host, proc) /\ call'[d] = call[d]
          /\ call[d].stage \in {"turn", "wait"} => call[d].proc \in Procs /\ call[d].op = "turn"
      BY <1>1, <1>2, <2>2 DEF Stages, Turning
    <3>2. CASE call[c].op # "turn"
      BY <3>1, <3>2, TurnStays
    <3>3. CASE call[c].op = "turn"
      <4>1. call[d].stage \notin {"turn", "wait"}
        BY <1>1, <2>2, <3>1, <3>3 DEF Stages
      <4>2. QED
        BY <3>1, <4>1 DEF TurnFollowed
    <3>4. QED
      BY <3>2, <3>3
  <2>3. QED
    BY <2>1, <2>2 DEF Turning
<1>8. QED
  BY <1>3, <1>4, <1>5, <1>6, <1>7 DEF IInv

\* The end of a turn call leaves the host in its type.
LEMMA Forgotten ==
  ASSUME IInv, NEW t \in Nat
  PROVE  /\ TurnForgotten(t) \in HostState /\ TurnForgotten(t).child = host.child
         /\ TurnForgotten(t).disposed = host.disposed
<1>1. host \in HostState
  BY DEF IInv, TypeOK
<1>2. [host.text EXCEPT ![t] = 0] \in [Turns -> Nat]
  BY <1>1 DEF HostState
<1>3. {e \in host.completed : e[1] # t} \in SUBSET (Nat \X BOOLEAN)
  BY <1>1 DEF HostState
<1>4. (IF host.active = t THEN None ELSE host.active) \in Nat
  BY <1>1 DEF HostState, None
<1>5. QED
  BY <1>1, <1>2, <1>3, <1>4 DEF TurnForgotten, HostState

LEMMA TurnOverStep ==
  ASSUME IInv, NEW c \in Calls, TurnReturns(c) \/ TurnThrows(c) PROVE IInv'
<1>1. /\ call[c].stage = "wait" /\ call[c].ans # "none" /\ Ends(c) /\ proc' = proc
      /\ turns' = turns /\ host' = TurnForgotten(call[c].turn)
  BY DEF TurnReturns, TurnThrows, Answered
<1>2. call[c].op = "turn" /\ call[c].turn \in Nat
  BY <1>1 DEF IInv, TypeOK, Stages, Call
<1>3. QED
  BY <1>1, <1>2, Forgotten, EndStep

LEMMA CallOverStep ==
  ASSUME IInv, NEW c \in Calls, ThreadAttached(c) \/ ReadAnswered(c) \/ CallThrows(c) PROVE IInv'
<1>1. host \in HostState
  BY DEF IInv, TypeOK
<1>2. /\ call[c].ans # "none" /\ Ends(c) /\ proc' = proc /\ turns' = turns
  BY DEF ThreadAttached, ReadAnswered, CallThrows, Answered
<1>3. /\ host' \in HostState /\ host'.child = host.child /\ host'.disposed = host.disposed
      /\ host'.active = host.active /\ host'.completed = host.completed
  <2>1. CASE ThreadAttached(c)
    BY <1>1, <2>1 DEF ThreadAttached, HostState
  <2>2. CASE ReadAnswered(c)
    BY <1>1, <2>2 DEF ReadAnswered
  <2>3. CASE CallThrows(c)
    <3>1. host' = host \/ host' = [host EXCEPT !.applied = TRUE]
      BY <2>3 DEF CallThrows
    <3>2. QED
      BY <1>1, <3>1 DEF HostState
  <2>4. QED
    BY <2>1, <2>2, <2>3
<1>4. QED
  BY <1>2, <1>3, EndStep

LEMMA TurnStartedStep == ASSUME IInv, NEW c \in Calls, TurnStarted(c) PROVE IInv'
<1> DEFINE t == call[c].turn
           w == WaitForTurn(c, call[c].turn)
<1>1. /\ TypeOK /\ Connections /\ Life /\ OneProcess /\ Stages /\ Turning
      /\ call[c] \in Call /\ host \in HostState
  BY DEF IInv, TypeOK
<1>2. /\ call[c].stage = "turn" /\ call[c].ans = "ok" /\ proc' = proc /\ turns' = turns
      /\ call' = [call EXCEPT ![c] = [call[c] EXCEPT !.stage = "wait", !.ans = w]]
      /\ host' = [host EXCEPT !.active = t, !.completed = {e \in host.completed : e[1] # t}]
  BY DEF TurnStarted, Answered
<1>3. w \in {"none", "ok", "error"} /\ (w = "none" => ~\E e \in host.completed : e[1] = t)
  BY DEF WaitForTurn
<1>4. t \in Nat
  BY <1>1 DEF Call
<1> HIDE DEF w, t
<1>5. /\ call' \in [Calls -> Call] /\ \A d \in Calls : d # c => call'[d] = call[d]
      /\ call'[c].stage = "wait" /\ call'[c].ans = w /\ call'[c].turn = call[c].turn
      /\ call'[c].proc = call[c].proc /\ call'[c].op = call[c].op
  <2>1. [call[c] EXCEPT !.stage = "wait", !.ans = w] \in Call
    BY <1>1, <1>3 DEF Call
  <2>2. QED
    BY <1>1, <1>2, <2>1 DEF TypeOK, Call
<1>6. host' \in HostState /\ host'.child = host.child /\ host'.disposed = host.disposed
      /\ host'.active = t
  <2>1. {e \in host.completed : e[1] # t} \in SUBSET (Nat \X BOOLEAN)
    BY <1>1 DEF HostState
  <2>2. QED
    BY <1>1, <1>2, <1>4, <2>1 DEF HostState
<1>7. TypeOK'
  BY <1>1, <1>2, <1>5, <1>6 DEF TypeOK
<1>8. Connections'
  <2>1. \A o \in Procs : \A i \in DOMAIN proc[o].pending :
           proc[o].pending[i] \in Calls /\ proc[o].pending[i] # c
    BY <1>1, <1>2, PendingCalls, NotWaiting DEF TypeOK
  <2>2. QED
    BY <1>1, <1>2, <1>5, <2>1, NoConnection
<1>9. Life' /\ OneProcess'
  BY <1>1, <1>2, <1>6 DEF Life, OneProcess
<1>10. Stages'
  <2>1. call[c].op = "turn" /\ call[c].proc \in Procs /\ proc[call[c].proc].state # "unborn"
    BY <1>1, <1>2 DEF Stages
  <2>2. QED
    BY <1>1, <1>2, <1>5, <2>1 DEF Stages
<1>11. Turning'
  <2>1. TurnFollowed(call'[c], host', proc')
    <3>1. TurnFollowed(call[c], host, proc)
      BY <1>1 DEF Turning
    <3>2. QED
      BY <1>2, <1>3, <1>5, <1>6, <3>1 DEF TurnFollowed, t
  <2>2. ASSUME NEW d \in Calls, d # c PROVE TurnFollowed(call'[d], host', proc')
    <3>1. call'[d].stage \notin {"turn", "wait"}
      BY <1>1, <1>2, <1>5, <2>2 DEF Stages
    <3>2. QED
      BY <3>1 DEF TurnFollowed
  <2>3. QED
    BY <2>1, <2>2 DEF Turning
<1>12. QED
  BY <1>7, <1>8, <1>9, <1>10, <1>11 DEF IInv

LEMMA ResponseStep == ASSUME IInv, NEW p \in Procs, HandleResponse(p) PROVE IInv'
<1> DEFINE q == proc[p]
           l == Head(proc[p].out)
           c == proc[p].pending[l.id]
           r == [proc[p] EXCEPT !.out = Tail(proc[p].out),
                   !.pending = Restrict(proc[p].pending, DOMAIN proc[p].pending \ {l.id})]
           w == IF l.ok THEN "ok" ELSE "error"
<1>1. /\ TypeOK /\ Connections /\ Life /\ OneProcess /\ Stages /\ Turning
      /\ q \in Process /\ Matched(q) /\ Waited(p, q, call)
  BY DEF IInv, TypeOK, Connections
<1>2. /\ q.open /\ q.out # <<>> /\ l.kind = "answer" /\ l.id \in DOMAIN q.pending
      /\ call' = [call EXCEPT ![c] = [call[c] EXCEPT !.ans = w, !.turn = l.turn]]
      /\ proc' = [proc EXCEPT ![p] = r] /\ host' = host /\ turns' = turns
  BY DEF HandleResponse, Arrives
<1>3. l = q.out[1] /\ l \in Line /\ Tail(q.out) \in Seq(Line) /\ l.turn \in Nat
      /\ 1 \in 1..Len(q.out)
  <2>1. l = q.out[1] /\ l \in Line /\ Tail(q.out) \in Seq(Line) /\ q.out \in Seq(Line)
    BY <1>1, <1>2, LineTypes
  <2>2. QED
    BY <1>2, <2>1, Rest DEF Line
<1>4. c = l.by /\ c \in Calls
  <2>1. c \in Calls
    BY <1>1, <1>2, PendingCalls
  <2>2. \A k \in 1..Len(q.out) : q.out[k].kind = "answer" =>
           q.pending[q.out[k].id] = q.out[k].by
    BY <1>1 DEF Matched
  <2>3. q.pending[q.out[1].id] = q.out[1].by
    BY <1>2, <1>3, <2>2
  <2>4. QED
    BY <1>3, <2>1, <2>3
<1>5. call[c].proc = p /\ call[c].ans = "none" /\ call[c].stage \notin {"idle", "wait"}
  BY <1>1, <1>2 DEF Waited
<1>6. /\ r \in Process /\ r.out = Tail(q.out) /\ r.nextId = q.nextId /\ r.wire = q.wire
      /\ r.turn = q.turn /\ r.open = q.open /\ r.state = q.state
      /\ \A i : i \in DOMAIN r.pending <=> i \in DOMAIN q.pending /\ i # l.id
      /\ \A i : i \in DOMAIN r.pending => r.pending[i] = q.pending[i]
  <2> DEFINE pend == Restrict(q.pending, DOMAIN q.pending \ {l.id})
  <2>1. \A i \in DOMAIN q.pending : i \in Nat /\ q.pending[i] \in Calls
    BY <1>1, PendingCalls
  <2>2. pend \in [DOMAIN q.pending \ {l.id} -> Calls] /\ DOMAIN q.pending \ {l.id} \in SUBSET Nat
    BY <2>1 DEF Restrict
  <2>3. pend \in Pending
    BY <2>2 DEF Pending
  <2>4. /\ \A i : i \in DOMAIN pend <=> i \in DOMAIN q.pending /\ i # l.id
        /\ \A i : i \in DOMAIN pend => pend[i] = q.pending[i]
    BY DEF Restrict
  <2> HIDE DEF pend
  <2>5. r = [q EXCEPT !.out = Tail(q.out), !.pending = pend]
    BY DEF pend
  <2>6. /\ r \in Process /\ r.out = Tail(q.out) /\ r.nextId = q.nextId /\ r.wire = q.wire
        /\ r.turn = q.turn /\ r.open = q.open /\ r.state = q.state /\ r.pending = pend
    BY <1>1, <1>3, <2>3, <2>5 DEF Process
  <2> HIDE DEF r
  <2>7. QED
    BY <2>4, <2>6
<1> HIDE DEF r, c, w, l
<1>7. /\ call' \in [Calls -> Call] /\ \A d \in Calls : d # c => call'[d] = call[d]
      /\ call'[c].stage = call[c].stage /\ call'[c].ans = w /\ call'[c].turn = l.turn
      /\ call'[c].proc = p /\ call'[c].op = call[c].op
  <2>1. [call[c] EXCEPT !.ans = w, !.turn = l.turn] \in Call
    <3>1. call[c] \in Call
      BY <1>1, <1>4 DEF TypeOK
    <3>2. w \in {"none", "ok", "error"} /\ l.turn \in Nat
      BY <1>3 DEF w
    <3>3. QED
      BY <3>1, <3>2 DEF Call
  <2>2. QED
    BY <1>1, <1>2, <1>4, <1>5, <2>1 DEF TypeOK, Call
<1>8. /\ Matched(r) /\ Waited(p, r, call') /\ \A t : Comes(q, 0, t) => Comes(r, 0, t)
      /\ l.ok /\ call[c].stage = "turn" => Comes(r, 0, l.turn)
  <2>1. \A d \in Calls : d # q.out[1].by => call'[d] = call[d]
    BY <1>3, <1>4, <1>7
  <2>2. /\ q \in Process /\ Matched(q) /\ Waited(p, q, call) /\ q.out # <<>>
        /\ q.out[1].kind = "answer" /\ q.out[1].by = c /\ q.out[1] = l
    BY <1>1, <1>2, <1>3, <1>4
  <2>3. /\ \A i : i \in DOMAIN r.pending <=> i \in DOMAIN q.pending /\ i # q.out[1].id
        /\ \A i : i \in DOMAIN r.pending => r.pending[i] = q.pending[i]
    BY <1>3, <1>6
  <2>4. /\ r \in Process /\ r.out = Tail(q.out) /\ r.nextId = q.nextId /\ r.wire = q.wire
        /\ r.turn = q.turn
    BY <1>6
  <2> HIDE DEF q
  <2>5. /\ Matched(r) /\ Waited(p, r, call') /\ \A t : Comes(q, 0, t) => Comes(r, 0, t)
        /\ q.out[1].ok /\ call[q.out[1].by].stage = "turn" => Comes(r, 0, q.out[1].turn)
    BY <2>1, <2>2, <2>3, <2>4, AnswerTaken
  <2>6. QED
    BY <2>2, <2>5
<1>9. proc'[p] = r /\ \A o \in Procs : o # p => proc'[o] = proc[o]
  BY <1>1, <1>2 DEF TypeOK
<1>10. TypeOK'
  BY <1>1, <1>2, <1>6, <1>7 DEF TypeOK
<1>11. Connections'
  <2>1. ASSUME NEW o \in Procs, o # p, NEW i \in DOMAIN proc[o].pending
        PROVE  proc[o].pending[i] \in Calls /\ proc[o].pending[i] # c
    <3>1. proc[o].pending[i] \in Calls
      BY <1>1, PendingCalls DEF TypeOK
    <3>2. call[proc[o].pending[i]].proc = o
      BY <1>1 DEF Connections, Waited
    <3>3. QED
      BY <1>5, <2>1, <3>1, <3>2
  <2>2. QED
    BY <1>1, <1>7, <1>8, <1>9, <2>1, OneConnection
<1>12. Life' /\ OneProcess'
  BY <1>1, <1>2, <1>6, <1>9 DEF Life, OneProcess
<1>13. Stages'
  <2>1. \A o \in Procs : proc'[o].state = proc[o].state
    BY <1>6, <1>9
  <2>2. \A d \in Calls : /\ call'[d].op = call[d].op /\ call'[d].stage = call[d].stage
                         /\ call'[d].proc = call[d].proc
                         /\ call[d].stage = "idle" => call'[d].ans = call[d].ans
    BY <1>5, <1>7
  <2>3. QED
    BY <1>1, <2>1, <2>2 DEF Stages
<1>14. \A o \in Procs : /\ proc'[o].state = "crashed" => proc[o].state = "crashed"
                        /\ proc'[o].open =>
                              proc[o].open /\ \A t : Comes(proc[o], 0, t) => Comes(proc'[o], 0, t)
  BY <1>6, <1>8, <1>9
<1>15. Turning'
  <2>1. TurnFollowed(call'[c], host', proc')
    <3>1. ~host'.disposed /\ proc'[p].state = "alive"
      BY <1>1, <1>2, <1>6, <1>9 DEF Life, OneProcess
    <3>2. w = "ok" => l.ok
      BY DEF w
    <3>3. QED
      BY <1>5, <1>7, <1>8, <1>9, <3>1, <3>2 DEF TurnFollowed
  <2>2. ASSUME NEW d \in Calls, d # c PROVE TurnFollowed(call'[d], host', proc')
    <3>1. /\ TurnFollowed(call[d], host, proc) /\ call'[d] = call[d]
          /\ call[d].stage \in {"turn", "wait"} => call[d].proc \in Procs
      BY <1>1, <1>7, <2>2 DEF Stages, Turning
    <3>2. host' = host
      BY <1>2
    <3>3. QED
      BY <1>14, <3>1, <3>2, TurnStays
  <2>3. QED
    BY <2>1, <2>2 DEF Turning
<1>16. QED
  BY <1>10, <1>11, <1>12, <1>13, <1>15 DEF IInv

LEMMA TurnCompletedStep == ASSUME IInv, NEW p \in Procs, HandleTurnCompleted(p) PROVE IInv'
<1> DEFINE q == proc[p]
           l == Head(proc[p].out)
           r == [proc[p] EXCEPT !.out = Tail(proc[p].out)]
           w == IF l.ok THEN "ok" ELSE "error"
           waiting == {c \in Calls : /\ call[c].stage = "wait" /\ call[c].turn = l.turn
                                     /\ call[c].ans = "none"}
<1>1. /\ TypeOK /\ Connections /\ Life /\ OneProcess /\ Stages /\ Turning
      /\ q \in Process /\ Matched(q) /\ Waited(p, q, call) /\ host \in HostState
  BY DEF IInv, TypeOK, Connections
<1>2. /\ q.out # <<>> /\ l.kind = "done" /\ turns' = turns
      /\ call' = [c \in Calls |-> IF c \in waiting THEN [call[c] EXCEPT !.ans = w] ELSE call[c]]
      /\ proc' = [proc EXCEPT ![p] = r]
      /\ host' = IF waiting # {} THEN host
                 ELSE [host EXCEPT !.completed = host.completed \cup {<<l.turn, l.ok>>}]
  BY DEF HandleTurnCompleted, Arrives
<1>3. l = q.out[1] /\ l \in Line /\ Tail(q.out) \in Seq(Line)
      /\ l.turn \in Nat /\ l.ok \in BOOLEAN
  <2>1. l = q.out[1] /\ l \in Line /\ Tail(q.out) \in Seq(Line)
    BY <1>1, <1>2, LineTypes
  <2>2. QED
    BY <2>1 DEF Line
<1>4. /\ r \in Process /\ r.out = Tail(q.out) /\ r.nextId = q.nextId /\ r.wire = q.wire
      /\ r.turn = q.turn /\ r.open = q.open /\ r.state = q.state /\ r.pending = q.pending
  BY <1>1, <1>3 DEF Process
<1>5. \A d \in waiting : d \in Calls /\ call[d].stage = "wait" /\ call[d].turn = l.turn /\ call[d].ans = "none"
  OBVIOUS
<1>6. w \in {"none", "ok", "error"} /\ w # "none"
  OBVIOUS
<1>7. /\ host' \in HostState /\ host'.child = host.child /\ host'.disposed = host.disposed
      /\ host'.active = host.active /\ \A e \in host.completed : e \in host'.completed
      /\ waiting = {} => <<l.turn, l.ok>> \in host'.completed
  <2>1. host.completed \cup {<<l.turn, l.ok>>} \in SUBSET (Nat \X BOOLEAN)
    BY <1>1, <1>3 DEF HostState
  <2> HIDE DEF l, waiting
  <2>2. QED
    BY <1>1, <1>2, <2>1 DEF HostState
<1>8. \A d \in Calls : call[d].stage = "wait" /\ call[d].turn = l.turn /\ call[d].ans = "none"
                          => d \in waiting
  OBVIOUS
<1> HIDE DEF r, w, l, waiting
<1>9. /\ call' \in [Calls -> Call] /\ \A d \in Calls : d \notin waiting => call'[d] = call[d]
      /\ \A d \in waiting : /\ call'[d].stage = call[d].stage /\ call'[d].ans = w
                            /\ call'[d].turn = call[d].turn /\ call'[d].proc = call[d].proc
                            /\ call'[d].op = call[d].op
  <2>1. \A d \in Calls : call[d] \in Call /\ [call[d] EXCEPT !.ans = w] \in Call
    <3>1. ASSUME NEW k \in Call PROVE [k EXCEPT !.ans = w] \in Call
      BY <1>6 DEF Call
    <3>2. QED
      BY <1>1, <3>1 DEF TypeOK
  <2>2. call' \in [Calls -> Call] /\ \A d \in Calls : d \notin waiting => call'[d] = call[d]
    BY <1>2, <2>1
  <2>3. ASSUME NEW d \in waiting
        PROVE  /\ call'[d].stage = call[d].stage /\ call'[d].ans = w
               /\ call'[d].turn = call[d].turn /\ call'[d].proc = call[d].proc
               /\ call'[d].op = call[d].op
    <3>1. d \in Calls /\ call[d] \in Call /\ call'[d] = [call[d] EXCEPT !.ans = w]
      BY <1>2, <1>5, <2>1
    <3>2. QED
      BY <3>1 DEF Call
  <2>4. QED
    BY <2>2, <2>3
<1>10. \A o \in Procs : \A i \in DOMAIN proc[o].pending :
          call'[proc[o].pending[i]] = call[proc[o].pending[i]]
  <2> SUFFICES ASSUME NEW o \in Procs, NEW i \in DOMAIN proc[o].pending
               PROVE  call'[proc[o].pending[i]] = call[proc[o].pending[i]]
    OBVIOUS
  <2>1. proc[o].pending[i] \in Calls
    BY <1>1, PendingCalls DEF TypeOK
  <2>2. call[proc[o].pending[i]].stage \notin {"idle", "wait"}
    BY <1>1 DEF Connections, Waited
  <2>3. QED
    BY <1>5, <1>9, <2>1, <2>2
<1>11. /\ Matched(r) /\ Waited(p, r, call')
       /\ \A t : Comes(q, 0, t) /\ t # l.turn => Comes(r, 0, t)
  <2>1. /\ Matched(r) /\ Waited(p, r, call)
        /\ \A t : Comes(q, 0, t) /\ ~(q.out[1].kind = "done" /\ q.out[1].turn = t)
                     => Comes(r, 0, t)
    <3>1. q.out[1].kind # "answer"
      BY <1>2, <1>3
    <3> HIDE DEF q
    <3>2. QED
      BY <1>1, <1>2, <1>4, <3>1, NoticeTaken
  <2>2. Waited(p, r, call')
    BY <1>4, <1>10, <2>1, Elsewhere
  <2>3. QED
    BY <1>3, <2>1, <2>2
<1>12. proc'[p] = r /\ \A o \in Procs : o # p => proc'[o] = proc[o]
  BY <1>1, <1>2 DEF TypeOK
<1>13. TypeOK'
  BY <1>1, <1>2, <1>4, <1>7, <1>9 DEF TypeOK
<1>14. Connections'
  BY <1>1, <1>10, <1>11, <1>12, OneConnection
<1>15. Life' /\ OneProcess'
  BY <1>1, <1>4, <1>7, <1>12 DEF Life, OneProcess
<1>16. Stages'
  <2>1. \A o \in Procs : proc'[o].state = proc[o].state
    BY <1>4, <1>12
  <2>2. \A d \in Calls : /\ call'[d].op = call[d].op /\ call'[d].stage = call[d].stage
                         /\ call'[d].proc = call[d].proc
                         /\ call[d].stage = "idle" => call'[d].ans = call[d].ans
    BY <1>5, <1>9
  <2>3. QED
    BY <1>1, <2>1, <2>2 DEF Stages
<1>17. Turning'
  <2>1. ASSUME NEW d \in waiting PROVE TurnFollowed(call'[d], host', proc')
    <3>1. call[d].turn = host.active
      BY <1>1, <1>5 DEF Turning, TurnFollowed
    <3>2. QED
      BY <1>5, <1>6, <1>7, <1>9, <3>1 DEF TurnFollowed
  <2>2. ASSUME NEW d \in Calls, d \notin waiting PROVE TurnFollowed(call'[d], host', proc')
    <3>1. /\ TurnFollowed(call[d], host, proc) /\ call'[d] = call[d]
      BY <1>1, <1>9, <2>2 DEF Turning
    <3>2. CASE call[d].stage \notin {"turn", "wait"}
      BY <3>1, <3>2 DEF TurnFollowed
    <3>3. CASE call[d].stage \in {"turn", "wait"}
      <4>1. call[d].proc \in Procs /\ call[d].op = "turn"
        BY <1>1, <3>3 DEF Stages
      <4>2. /\ proc'[call[d].proc].state = proc[call[d].proc].state
            /\ proc'[call[d].proc].open = proc[call[d].proc].open
            /\ \A t : Comes(proc[call[d].proc], 0, t) /\ t # l.turn => Comes(proc'[call[d].proc], 0, t)
        BY <1>4, <1>11, <1>12, <4>1
      <4>3. CASE call[d].turn # l.turn
        BY <1>7, <3>1, <4>2, <4>3 DEF TurnFollowed
      <4>4. CASE call[d].turn = l.turn
        <5>1. call[d].stage = "turn" => waiting = {}
          <6>1. ASSUME NEW e \in waiting, call[d].stage = "turn" PROVE FALSE
            <7>1. e \in Calls /\ call[e].stage = "wait"
              BY <1>5
            <7>2. call[e].op = "turn"
              BY <1>1, <7>1 DEF Stages
            <7>3. e = d
              BY <1>1, <4>1, <7>1, <7>2 DEF Stages
            <7>4. QED
              BY <6>1, <7>1, <7>3
          <6>2. QED
            BY <6>1
        <5>2. <<l.turn, l.ok>>[1] = l.turn
          OBVIOUS
        <5>3. call[d].stage = "turn" => \E e \in host'.completed : e[1] = call[d].turn
          BY <1>7, <4>4, <5>1, <5>2
        <5>4. ~(call[d].stage = "wait" /\ call[d].ans = "none")
          BY <1>8, <2>2, <4>4
        <5>5. QED
          BY <1>7, <3>1, <4>2, <5>3, <5>4 DEF TurnFollowed
      <4>5. QED
        BY <4>3, <4>4
    <3>4. QED
      BY <3>2, <3>3
  <2>3. QED
    BY <2>1, <2>2 DEF Turning
<1>18. QED
  BY <1>13, <1>14, <1>15, <1>16, <1>17 DEF IInv

-----------------------------------------------------------------------------
(* Connections that are closed and turns that are rejected.                *)

\* m is the call k, rejected.
Errs(k, m) == /\ m \in Call /\ m.ans = "error" /\ m.op = k.op /\ m.stage = k.stage
              /\ m.proc = k.proc /\ m.turn = k.turn
\* Call c waits for an answer of process p.
Awaits(p, c) == \E i \in DOMAIN proc[p].pending : proc[p].pending[i] = c
\* Call k waits for the end of the active turn.
WaitsActive(k) == k.stage = "wait" /\ k.turn = host.active /\ k.ans = "none"

LEMMA ErrorCall == ASSUME NEW k \in Call PROVE Errs(k, [k EXCEPT !.ans = "error"])
<1>1. [k EXCEPT !.ans = "error"] \in Call
  BY DEF Call
<1>2. QED
  BY <1>1 DEF Errs, Call

LEMMA RejectedIs ==
  ASSUME NEW p, NEW cs \in [Calls -> Call]
  PROVE  /\ Rejected(cs, p) \in [Calls -> Call]
         /\ \A d \in Calls : \/ Awaits(p, d) /\ Errs(cs[d], Rejected(cs, p)[d])
                             \/ ~Awaits(p, d) /\ Rejected(cs, p)[d] = cs[d]
<1>1. \A d : d \in Range(proc[p].pending) <=> Awaits(p, d)
  BY DEF Range, Awaits
<1>2. \A d \in Calls : cs[d] \in Call /\ Errs(cs[d], [cs[d] EXCEPT !.ans = "error"])
  BY ErrorCall
<1>3. \A d \in Calls : Rejected(cs, p)[d] = IF Awaits(p, d) THEN [cs[d] EXCEPT !.ans = "error"] ELSE cs[d]
  BY <1>1 DEF Rejected
<1>4. \A d \in Calls : [cs[d] EXCEPT !.ans = "error"] \in Call
  BY <1>2 DEF Errs
<1>5. Rejected(cs, p) \in [Calls -> Call]
  BY <1>2, <1>4 DEF Rejected
<1>6. QED
  BY <1>2, <1>3, <1>5

LEMMA ActiveRejected ==
  ASSUME NEW cs \in [Calls -> Call]
  PROVE  /\ RejectActiveTurn(cs) \in [Calls -> Call]
         /\ \A d \in Calls : \/ WaitsActive(cs[d]) /\ Errs(cs[d], RejectActiveTurn(cs)[d])
                             \/ ~WaitsActive(cs[d]) /\ RejectActiveTurn(cs)[d] = cs[d]
<1>1. \A d \in Calls : cs[d] \in Call /\ Errs(cs[d], [cs[d] EXCEPT !.ans = "error"])
  BY ErrorCall
<1>2. \A d \in Calls : RejectActiveTurn(cs)[d] =
                          IF WaitsActive(cs[d]) THEN [cs[d] EXCEPT !.ans = "error"] ELSE cs[d]
  BY DEF RejectActiveTurn, WaitsActive
<1>3. \A d \in Calls : [cs[d] EXCEPT !.ans = "error"] \in Call
  BY <1>1 DEF Errs
<1>4. RejectActiveTurn(cs) \in [Calls -> Call]
  BY <1>1, <1>3 DEF RejectActiveTurn
<1>5. QED
  BY <1>1, <1>2, <1>4

\* Who waits for an answer has begun, and waits for one process.
LEMMA AwaitsOne ==
  ASSUME IInv, NEW p \in Procs, NEW c, Awaits(p, c)
  PROVE  /\ c \in Calls /\ call[c].proc = p /\ call[c].ans = "none"
         /\ call[c].stage \notin {"idle", "wait"}
<1>1. PICK i \in DOMAIN proc[p].pending : proc[p].pending[i] = c
  BY DEF Awaits
<1>2. c \in Calls
  BY <1>1, PendingCalls DEF IInv, TypeOK
<1>3. Waited(p, proc[p], call)
  BY DEF IInv, Connections
<1>4. QED
  BY <1>1, <1>2, <1>3 DEF Waited

\* After an exit or a shutdown nobody waits for process p or for a turn.
LEMMA AllRejected ==
  ASSUME IInv, Quiet, NEW p \in Procs, NEW cs, cs = RejectActiveTurn(Rejected(call, p))
  PROVE  /\ cs \in [Calls -> Call]
         /\ \A d \in Calls : cs[d] = call[d] \/ (Errs(call[d], cs[d]) /\ call[d].stage # "idle")
         /\ \A o \in Procs : o # p =>
               \A i \in DOMAIN proc[o].pending : cs[proc[o].pending[i]] = call[proc[o].pending[i]]
         /\ \A d \in Calls : cs[d].ans # "ok" /\ ~(cs[d].stage = "wait" /\ cs[d].ans = "none")
<1> DEFINE rs == Rejected(call, p)
<1>1. call \in [Calls -> Call]
  BY DEF IInv, TypeOK
<1>2. /\ rs \in [Calls -> Call]
      /\ \A d \in Calls : \/ Awaits(p, d) /\ Errs(call[d], rs[d])
                          \/ ~Awaits(p, d) /\ rs[d] = call[d]
  BY <1>1, RejectedIs
<1> HIDE DEF rs
<1>3. /\ cs \in [Calls -> Call]
      /\ \A d \in Calls : \/ WaitsActive(rs[d]) /\ Errs(rs[d], cs[d])
                          \/ ~WaitsActive(rs[d]) /\ cs[d] = rs[d]
  BY <1>2, ActiveRejected DEF rs
<1>4. \A d \in Calls : \/ /\ Awaits(p, d) /\ Errs(call[d], cs[d])
                       \/ /\ ~Awaits(p, d) /\ WaitsActive(call[d]) /\ Errs(call[d], cs[d])
                       \/ /\ ~Awaits(p, d) /\ ~WaitsActive(call[d]) /\ cs[d] = call[d]
  <2>1. \A d \in Calls : Awaits(p, d) => cs[d] = rs[d]
    BY <1>2, <1>3 DEF Errs, WaitsActive
  <2>2. QED
    BY <1>2, <1>3, <2>1
<1>5. \A d \in Calls : cs[d] = call[d] \/ (Errs(call[d], cs[d]) /\ call[d].stage # "idle")
  BY <1>4, AwaitsOne DEF WaitsActive
<1>6. ASSUME NEW o \in Procs, o # p, NEW i \in DOMAIN proc[o].pending
      PROVE  cs[proc[o].pending[i]] = call[proc[o].pending[i]]
  <2>1. Awaits(o, proc[o].pending[i])
    BY DEF Awaits
  <2>2. /\ proc[o].pending[i] \in Calls /\ call[proc[o].pending[i]].proc = o
        /\ call[proc[o].pending[i]].stage # "wait"
    BY <2>1, AwaitsOne
  <2>3. ~Awaits(p, proc[o].pending[i])
    BY <1>6, <2>2, AwaitsOne
  <2>4. QED
    BY <1>4, <2>2, <2>3 DEF WaitsActive
<1>7. ASSUME NEW d \in Calls
      PROVE  cs[d].ans # "ok" /\ ~(cs[d].stage = "wait" /\ cs[d].ans = "none")
  <2>1. call[d].ans = "none" /\ (call[d].stage = "wait" => call[d].turn = host.active)
    BY DEF Quiet, IInv, Turning, TurnFollowed
  <2>2. QED
    BY <1>4, <2>1 DEF Errs, WaitsActive
<1>8. QED
  BY <1>3, <1>5, <1>6, <1>7

\* The connection of process p is closed.
LEMMA CloseStep ==
  ASSUME IInv, NEW p \in Procs, NEW r \in Process, proc' = [proc EXCEPT ![p] = r],
         r.pending = <<>>, r.wire = <<>>, r.out = <<>>, r.open = FALSE,
         r.state = "unborn" => proc[p].state = "unborn",
         call' \in [Calls -> Call],
         \A d \in Calls : \/ call'[d] = call[d]
                          \/ call'[d] = NoCall
                          \/ Errs(call[d], call'[d]) /\ call[d].stage # "idle",
         \A o \in Procs : o # p =>
            \A i \in DOMAIN proc[o].pending : call'[proc[o].pending[i]] = call[proc[o].pending[i]],
         host' \in HostState, host'.active = host.active, host'.completed = host.completed,
         turns' = turns, OneProcess',
         \/ /\ host'.disposed = host.disposed
            /\ r.state = "crashed" => proc[p].state = "crashed"
         \/ \A d \in Calls : call'[d].ans # "ok" /\ ~(call'[d].stage = "wait" /\ call'[d].ans = "none")
  PROVE  IInv'
<1>1. TypeOK /\ Connections /\ Life /\ OneProcess /\ Stages /\ Turning
  BY DEF IInv
<1>2. proc'[p] = r /\ \A o \in Procs : o # p => proc'[o] = proc[o]
  BY <1>1 DEF TypeOK
<1>3. TypeOK'
  BY <1>1 DEF TypeOK
<1>4. Connections'
  <2>1. Matched(proc'[p]) /\ Waited(p, proc'[p], call')
    BY <1>2, Closed
  <2>2. QED
    BY <1>1, <1>2, <2>1, OneConnection
<1>5. Life'
  BY <1>1, <1>2 DEF Life
<1>6. NoCall.stage = "idle" /\ NoCall.op = "none" /\ NoCall.ans = "none"
  BY DEF NoCall
<1>7. Stages'
  <2>1. \A o \in Procs : proc[o].state # "unborn" => proc'[o].state # "unborn"
    BY <1>2
  <2>2. \A d \in Calls : \/ call'[d] = NoCall
                         \/ /\ call'[d].op = call[d].op /\ call'[d].stage = call[d].stage
                            /\ call'[d].proc = call[d].proc
                            /\ call[d].stage = "idle" => call'[d].ans = call[d].ans
    BY DEF Errs
  <2>3. QED
    BY <1>1, <1>6, <2>1, <2>2 DEF Stages
<1>8. Turning'
  <2>1. ASSUME NEW d \in Calls PROVE TurnFollowed(call'[d], host', proc')
    <3>1. TurnFollowed(call[d], host, proc)
      BY <1>1 DEF Turning
    <3>2. CASE call'[d] = NoCall
      BY <1>6, <3>2 DEF TurnFollowed
    <3>3. CASE Errs(call[d], call'[d])
      BY <3>1, <3>3 DEF TurnFollowed, Errs
    <3>4. CASE call'[d] = call[d]
      <4>1. CASE call'[d].ans # "ok" /\ ~(call'[d].stage = "wait" /\ call'[d].ans = "none")
        BY <3>1, <3>4, <4>1 DEF TurnFollowed
      <4>2. CASE /\ host'.disposed = host.disposed
                 /\ r.state = "crashed" => proc[p].state = "crashed"
        <5>1. call[d].stage \in {"turn", "wait"} => call[d].proc \in Procs
          BY <1>1 DEF Stages
        <5>2. \A o \in Procs :
                 /\ proc'[o].state = "crashed" => proc[o].state = "crashed"
                 /\ proc'[o].open =>
                       proc[o].open /\ \A t : Comes(proc[o], 0, t) => Comes(proc'[o], 0, t)
          BY <1>2, <4>2
        <5>3. host'.disposed = host.disposed
          BY <4>2
        <5>4. TurnFollowed(call[d], host', proc')
          BY <3>1, <5>1, <5>2, <5>3, TurnStays, ZenonT(30)
        <5>5. QED
          BY <3>4, <5>4
      <4>3. QED
        BY <4>1, <4>2
    <3>5. QED
      BY <3>2, <3>3, <3>4
  <2>2. QED
    BY <2>1 DEF Turning
<1>9. QED
  BY <1>3, <1>4, <1>5, <1>7, <1>8 DEF IInv

LEMMA FailedIs ==
  ASSUME IInv, NEW p \in Procs
  PROVE  /\ Failed(p) \in Process /\ Failed(p).pending = <<>> /\ Failed(p).wire = <<>>
         /\ Failed(p).out = <<>> /\ Failed(p).open = FALSE /\ Failed(p).state = proc[p].state
<1>1. proc[p] \in Process
  BY DEF IInv, TypeOK
<1>2. <<>> \in Seq(Req) /\ <<>> \in Seq(Line)
  OBVIOUS
<1>3. QED
  BY <1>1, <1>2, NothingPending DEF Failed, Process

\* A process that is killed was alive and is dying, or is as it was.
LEMMA KilledIs ==
  ASSUME IInv, NEW p \in Procs
  PROVE  /\ Killed(p) \in Process /\ Killed(p).pending = <<>> /\ Killed(p).wire = <<>>
         /\ Killed(p).out = <<>> /\ Killed(p).open = FALSE /\ Killed(p).state # "alive"
         /\ Killed(p).state \in {"unborn", "crashed"} => Killed(p).state = proc[p].state
<1> DEFINE s == IF proc[p].state = "alive" THEN "dying" ELSE proc[p].state
           r == [Failed(p) EXCEPT !.state = s]
<1>1. s \in {"unborn", "alive", "dying", "crashed", "exited"} /\ s # "alive"
  <2>1. proc[p] \in Process
    BY DEF IInv, TypeOK
  <2>2. QED
    BY <2>1 DEF Process
<1>2. Killed(p) = [Failed(p) EXCEPT !.state = s]
  <2>1. Failed(p).state = proc[p].state
    BY FailedIs
  <2>2. QED
    BY <2>1 DEF Killed
<1>3. s \in {"unborn", "crashed"} => s = proc[p].state
  OBVIOUS
<1> HIDE DEF s
<1>4. /\ r \in Process /\ r.pending = <<>> /\ r.wire = <<>>
      /\ r.out = <<>> /\ r.open = FALSE /\ r.state = s
  <2>1. /\ Failed(p) \in Process /\ Failed(p).pending = <<>> /\ Failed(p).wire = <<>>
        /\ Failed(p).out = <<>> /\ Failed(p).open = FALSE
    BY FailedIs
  <2>2. QED
    BY <1>1, <2>1 DEF Process
<1>5. Killed(p) = r
  BY <1>2
<1> HIDE DEF r
<1>6. QED
  BY <1>1, <1>3, <1>4, <1>5

LEMMA MalformedStep == ASSUME IInv, NEW p \in Procs, HandleMalformed(p) PROVE IInv'
<1>1. /\ call \in [Calls -> Call] /\ host \in HostState /\ OneProcess
      /\ proc \in [Procs -> Process]
  BY DEF IInv, TypeOK
<1>2. /\ call' = Rejected(call, p) /\ proc' = [proc EXCEPT ![p] = Failed(p)]
      /\ host' = host /\ turns' = turns
  BY DEF HandleMalformed
<1>3. /\ call' \in [Calls -> Call]
      /\ \A d \in Calls : \/ Awaits(p, d) /\ Errs(call[d], call'[d])
                          \/ ~Awaits(p, d) /\ call'[d] = call[d]
  BY <1>1, <1>2, RejectedIs
<1>4. \A d \in Calls : \/ call'[d] = call[d]
                       \/ Errs(call[d], call'[d]) /\ call[d].stage # "idle"
  BY <1>3, AwaitsOne
<1>5. ASSUME NEW o \in Procs, o # p, NEW i \in DOMAIN proc[o].pending
      PROVE  call'[proc[o].pending[i]] = call[proc[o].pending[i]]
  <2>1. Awaits(o, proc[o].pending[i])
    BY DEF Awaits
  <2>2. proc[o].pending[i] \in Calls /\ ~Awaits(p, proc[o].pending[i])
    BY <1>5, <2>1, AwaitsOne
  <2>3. QED
    BY <1>3, <2>2
<1>6. /\ Failed(p) \in Process /\ Failed(p).pending = <<>> /\ Failed(p).wire = <<>>
      /\ Failed(p).out = <<>> /\ Failed(p).open = FALSE /\ Failed(p).state = proc[p].state
  BY FailedIs
<1>7. OneProcess'
  <2>1. \A o \in Procs : proc'[o].state = proc[o].state
    BY <1>1, <1>2, <1>6
  <2>2. QED
    BY <1>1, <1>2, <2>1 DEF OneProcess
<1>8. QED
  BY <1>1, <1>2, <1>3, <1>4, <1>5, <1>6, <1>7, CloseStep, ZenonT(30)

LEMMA ProcessExitsStep == ASSUME IInv, NEW p \in Procs, ProcessExits(p) PROVE IInv'
<1> DEFINE r == [Failed(p) EXCEPT !.state = "crashed"]
<1>1. /\ Quiet /\ host.child = p /\ proc' = [proc EXCEPT ![p] = r]
      /\ call' = RejectActiveTurn(Rejected(call, p)) /\ host' = ExitHandled /\ turns' = turns
  BY DEF ProcessExits
<1>2. /\ r \in Process /\ r.pending = <<>> /\ r.wire = <<>> /\ r.out = <<>> /\ r.open = FALSE
      /\ r.state = "crashed"
  BY FailedIs DEF Process
<1> HIDE DEF r
<1>3. /\ call' \in [Calls -> Call]
      /\ \A d \in Calls : call'[d] = call[d] \/ (Errs(call[d], call'[d]) /\ call[d].stage # "idle")
      /\ \A o \in Procs : o # p =>
            \A i \in DOMAIN proc[o].pending : call'[proc[o].pending[i]] = call[proc[o].pending[i]]
      /\ \A d \in Calls : call'[d].ans # "ok" /\ ~(call'[d].stage = "wait" /\ call'[d].ans = "none")
  BY <1>1, AllRejected
<1>4. host' \in HostState /\ host'.active = host.active /\ host'.completed = host.completed
  <2>1. host \in HostState
    BY DEF IInv, TypeOK
  <2>2. QED
    BY <1>1, <2>1 DEF ExitHandled, HostState, None
<1>5. OneProcess'
  <2>1. ASSUME NEW o \in Procs PROVE proc'[o].state # "alive"
    <3>1. proc \in [Procs -> Process] /\ OneProcess
      BY DEF IInv, TypeOK
    <3>2. CASE o = p
      BY <1>1, <1>2, <3>1, <3>2
    <3>3. CASE o # p
      BY <1>1, <3>1, <3>3 DEF OneProcess
    <3>4. QED
      BY <3>2, <3>3
  <2>2. QED
    BY <2>1 DEF OneProcess
<1>6. QED
  BY <1>1, <1>2, <1>3, <1>4, <1>5, CloseStep

LEMMA InitializeFailsStep == ASSUME IInv, NEW c \in Calls, InitializeFails(c) PROVE IInv'
<1> DEFINE p == call[c].proc
           cs == [call EXCEPT ![c] = NoCall]
<1>1. /\ call[c].stage \in {"init", "iroots", "ilist"} /\ call[c].ans # "none"
      /\ call' = Rejected(cs, p) /\ proc' = [proc EXCEPT ![p] = Killed(p)]
      /\ host' = IF host.child = p THEN [host EXCEPT !.child = None] ELSE host
      /\ turns' = turns
  BY DEF InitializeFails, GivenUp
<1>2. /\ call \in [Calls -> Call] /\ host \in HostState /\ OneProcess
      /\ proc \in [Procs -> Process] /\ p \in Procs /\ Connections
  BY <1>1 DEF IInv, TypeOK, Stages
<1> HIDE DEF p
<1>3. cs \in [Calls -> Call] /\ cs[c] = NoCall /\ \A d \in Calls : d # c => cs[d] = call[d]
  <2>1. NoCall \in Call
    BY DEF NoCall, Call, Skills, None
  <2>2. QED
    BY <1>2, <2>1
<1> HIDE DEF cs
<1>4. /\ call' \in [Calls -> Call]
      /\ \A d \in Calls : \/ Awaits(p, d) /\ Errs(cs[d], call'[d])
                          \/ ~Awaits(p, d) /\ call'[d] = cs[d]
  BY <1>1, <1>3, RejectedIs
<1>5. \A o \in Procs : ~Awaits(o, c)
  BY <1>1, AwaitsOne
<1>6. \A d \in Calls : \/ call'[d] = call[d]
                       \/ call'[d] = NoCall
                       \/ Errs(call[d], call'[d]) /\ call[d].stage # "idle"
  <2> SUFFICES ASSUME NEW d \in Calls
               PROVE  \/ call'[d] = call[d]
                      \/ call'[d] = NoCall
                      \/ Errs(call[d], call'[d]) /\ call[d].stage # "idle"
    OBVIOUS
  <2>1. CASE d = c
    BY <1>2, <1>3, <1>4, <1>5, <2>1
  <2>2. CASE d # c
    BY <1>2, <1>3, <1>4, <2>2, AwaitsOne
  <2>3. QED
    BY <2>1, <2>2
<1>7. ASSUME NEW o \in Procs, o # p, NEW i \in DOMAIN proc[o].pending
      PROVE  call'[proc[o].pending[i]] = call[proc[o].pending[i]]
  <2>1. Awaits(o, proc[o].pending[i])
    BY DEF Awaits
  <2>2. proc[o].pending[i] \in Calls /\ ~Awaits(p, proc[o].pending[i]) /\ proc[o].pending[i] # c
    BY <1>2, <1>5, <1>7, <2>1, AwaitsOne
  <2>3. QED
    BY <1>3, <1>4, <2>2
<1>8. /\ Killed(p) \in Process /\ Killed(p).pending = <<>> /\ Killed(p).wire = <<>>
      /\ Killed(p).out = <<>> /\ Killed(p).open = FALSE /\ Killed(p).state # "alive"
      /\ Killed(p).state \in {"unborn", "crashed"} => Killed(p).state = proc[p].state
  BY <1>2, KilledIs
<1>9. /\ host' \in HostState /\ host'.active = host.active /\ host'.completed = host.completed
      /\ host'.disposed = host.disposed /\ (host.child # p => host'.child = host.child)
  <2>1. /\ [host EXCEPT !.child = None] \in HostState
        /\ [host EXCEPT !.child = None].active = host.active
        /\ [host EXCEPT !.child = None].completed = host.completed
        /\ [host EXCEPT !.child = None].disposed = host.disposed
    BY <1>2 DEF HostState
  <2>2. QED
    BY <1>1, <1>2, <2>1
<1>10. OneProcess'
  <2>1. ASSUME NEW o \in Procs, proc'[o].state = "alive" PROVE host'.child = o /\ ~host'.disposed
    <3>1. o # p
      BY <1>1, <1>2, <1>8, <2>1
    <3>2. proc[o].state = "alive"
      BY <1>1, <1>2, <2>1, <3>1
    <3>3. QED
      BY <1>2, <1>9, <3>1, <3>2 DEF OneProcess
  <2>2. QED
    BY <2>1 DEF OneProcess
<1>11. QED
  BY <1>1, <1>2, <1>4, <1>6, <1>7, <1>8, <1>9, <1>10, CloseStep, ZenonT(30)

\* Turns are rejected and no connection changes.
LEMMA RejectStep ==
  ASSUME IInv, call' = RejectActiveTurn(call), proc' = proc, turns' = turns,
         host' \in HostState, host'.active = host.active, host'.completed = host.completed,
         OneProcess', host'.disposed = host.disposed \/ Quiet
  PROVE  IInv'
<1>1. TypeOK /\ Connections /\ Life /\ Stages /\ Turning /\ call \in [Calls -> Call]
  BY DEF IInv, TypeOK
<1>2. /\ call' \in [Calls -> Call]
      /\ \A d \in Calls : \/ WaitsActive(call[d]) /\ Errs(call[d], call'[d])
                          \/ ~WaitsActive(call[d]) /\ call'[d] = call[d]
  BY <1>1, ActiveRejected
<1>3. TypeOK'
  BY <1>1, <1>2 DEF TypeOK
<1>4. Connections'
  <2>1. ASSUME NEW o \in Procs, NEW i \in DOMAIN proc[o].pending
        PROVE  call'[proc[o].pending[i]] = call[proc[o].pending[i]]
    <3>1. Awaits(o, proc[o].pending[i])
      BY DEF Awaits
    <3>2. proc[o].pending[i] \in Calls /\ call[proc[o].pending[i]].stage # "wait"
      BY <3>1, AwaitsOne
    <3>3. QED
      BY <1>2, <3>2 DEF WaitsActive
  <2>2. QED
    BY <1>1, <2>1, NoConnection
<1>5. Life'
  BY <1>1 DEF Life
<1>6. Stages'
  <2>1. \A d \in Calls : /\ call'[d].op = call[d].op /\ call'[d].stage = call[d].stage
                         /\ call'[d].proc = call[d].proc
                         /\ call[d].stage = "idle" => call'[d].ans = call[d].ans
    BY <1>2 DEF Errs, WaitsActive
  <2>2. QED
    BY <1>1, <2>1 DEF Stages
<1>7. Turning'
  <2>1. ASSUME NEW d \in Calls PROVE TurnFollowed(call'[d], host', proc')
    <3>1. TurnFollowed(call[d], host, proc)
      BY <1>1 DEF Turning
    <3>2. CASE WaitsActive(call[d]) /\ Errs(call[d], call'[d])
      BY <3>1, <3>2 DEF TurnFollowed, Errs
    <3>3. CASE ~WaitsActive(call[d]) /\ call'[d] = call[d]
      <4>1. ~(call[d].stage = "wait" /\ call[d].ans = "none")
        BY <3>1, <3>3 DEF TurnFollowed, WaitsActive
      <4>2. call[d].ans = "ok" => host'.disposed = host.disposed
        BY DEF Quiet
      <4>3. QED
        BY <3>1, <3>3, <4>1, <4>2 DEF TurnFollowed
    <3>4. QED
      BY <1>2, <3>2, <3>3
  <2>2. QED
    BY <2>1 DEF Turning
<1>8. QED
  BY <1>3, <1>4, <1>5, <1>6, <1>7 DEF IInv

LEMMA InvalidStep == ASSUME IInv, NEW p \in Procs, HandleInvalidNotification(p) PROVE IInv'
<1>1. call' = RejectActiveTurn(call) /\ proc' = proc /\ turns' = turns /\ host' = host
  BY DEF HandleInvalidNotification
<1>2. host \in HostState /\ OneProcess'
  BY <1>1 DEF IInv, TypeOK, OneProcess
<1>3. QED
  BY <1>1, <1>2, RejectStep

LEMMA OtherExitsStep == ASSUME IInv, NEW p \in Procs, OtherExits(p) PROVE IInv'
<1> DEFINE r == [proc[p] EXCEPT !.state = "exited"]
<1>1. /\ proc[p] \in Process /\ Matched(proc[p]) /\ Waited(p, proc[p], call) /\ turns \in Nat
      /\ host \in HostState /\ OneProcess
  BY DEF IInv, TypeOK, Connections
<1>2. proc' = [proc EXCEPT ![p] = r] /\ call' = call /\ host' = host /\ turns' = turns
      /\ host.child # p
  BY DEF OtherExits
<1>3. /\ r \in Process /\ r.out = proc[p].out /\ r.pending = proc[p].pending
      /\ r.nextId = proc[p].nextId /\ r.wire = proc[p].wire /\ r.turn = proc[p].turn
      /\ r.open = proc[p].open /\ r.state = "exited"
  BY <1>1 DEF Process
<1> HIDE DEF r
<1>4. proc[p].state # "alive"
  BY <1>1, <1>2 DEF OneProcess
<1>5. \A t : Comes(proc[p], 0, t) => Comes(r, 0, t)
  BY <1>3 DEF Comes
<1>6. Matched(r)
  BY <1>1, <1>3, SMTT(30) DEF Matched
<1>7. Waited(p, r, call)
  BY <1>1, <1>3 DEF Waited, Comes
<1>8. QED
  BY <1>1, <1>2, <1>3, <1>4, <1>5, <1>6, <1>7, ProcessStep

\* Shutdown; None is not a process, so a host without a child has no live one.
LEMMA ShutdownStep == ASSUME IInv, None \notin Procs, Shutdown PROVE IInv'
<1>1. host \in HostState /\ OneProcess /\ proc \in [Procs -> Process]
  BY DEF IInv, TypeOK
<1>2. Quiet /\ turns' = turns
  BY DEF Shutdown
<1>3. /\ host' \in HostState /\ host'.active = host.active /\ host'.completed = host.completed
  BY <1>1 DEF Shutdown, HostState, Skills
<1>4. CASE host.child # None
  <2> DEFINE p == host.child
  <2>1. /\ call' = RejectActiveTurn(Rejected(call, p))
        /\ proc' = [proc EXCEPT ![p] = Killed(p)] /\ p \in Procs
    BY <1>1, <1>4 DEF Shutdown, HostState
  <2> HIDE DEF p
  <2>2. /\ call' \in [Calls -> Call]
        /\ \A d \in Calls : call'[d] = call[d] \/ (Errs(call[d], call'[d]) /\ call[d].stage # "idle")
        /\ \A o \in Procs : o # p =>
              \A i \in DOMAIN proc[o].pending : call'[proc[o].pending[i]] = call[proc[o].pending[i]]
        /\ \A d \in Calls : call'[d].ans # "ok" /\ ~(call'[d].stage = "wait" /\ call'[d].ans = "none")
    BY <1>2, <2>1, AllRejected
  <2>3. /\ Killed(p) \in Process /\ Killed(p).pending = <<>> /\ Killed(p).wire = <<>>
        /\ Killed(p).out = <<>> /\ Killed(p).open = FALSE /\ Killed(p).state # "alive"
        /\ Killed(p).state \in {"unborn", "crashed"} => Killed(p).state = proc[p].state
    BY <2>1, KilledIs
  <2>4. OneProcess'
    <3>1. ASSUME NEW o \in Procs PROVE proc'[o].state # "alive"
      <4>1. CASE o = p
        BY <1>1, <2>1, <2>3, <4>1
      <4>2. CASE o # p
        BY <1>1, <2>1, <4>2 DEF OneProcess, p
      <4>3. QED
        BY <4>1, <4>2
    <3>2. QED
      BY <3>1 DEF OneProcess
  <2>5. QED
    BY <1>2, <1>3, <2>1, <2>2, <2>3, <2>4, CloseStep
<1>5. CASE host.child = None
  <2>1. call' = RejectActiveTurn(call) /\ proc' = proc
    BY <1>5 DEF Shutdown
  <2>2. OneProcess'
    BY <1>1, <1>5, <2>1 DEF OneProcess
  <2>3. QED
    BY <1>2, <1>3, <2>1, <2>2, RejectStep
<1>6. QED
  BY <1>4, <1>5

\* The connection of a process that was just spawned.
LEMMA SpawnedIs ==
  ASSUME NEW c \in Calls, NEW p, NEW cs, cs[c].proc = p, cs[c].ans = "none", cs[c].stage = "init",
         NEW r, r = [NoProc EXCEPT !.state = "alive", !.open = TRUE, !.nextId = 2,
                       !.pending = <<c>>,
                       !.wire = <<[id |-> 1, method |-> "init", config |-> None, by |-> c]>>]
  PROVE  r \in Process /\ r.state = "alive" /\ Matched(r) /\ Waited(p, r, cs)
<1> DEFINE req == [id |-> 1, method |-> "init", config |-> None, by |-> c]
<1>1. req \in Req /\ req.id = 1 /\ req.by = c /\ req.method = "init"
  BY DEF Req, Methods, Skills, None
<1> HIDE DEF req
<1>2. <<c>> \in Pending /\ <<req>> \in Seq(Req) /\ <<>> \in Seq(Line)
  <2>1. <<c>> \in [1..1 -> Calls] /\ 1..1 \in SUBSET Nat
    OBVIOUS
  <2>2. <<req>> \in Seq(Req) /\ <<>> \in Seq(Line)
    BY <1>1
  <2>3. QED
    BY <2>1, <2>2 DEF Pending
<1>3. /\ r \in Process /\ r.state = "alive" /\ r.nextId = 2 /\ r.pending = <<c>>
      /\ r.wire = <<req>> /\ r.out = <<>>
  BY <1>2 DEF Process, NoProc, None, Skills, req
<1>4. /\ \A i : i \in DOMAIN r.pending <=> i = 1
      /\ r.pending[1] = c
      /\ \A i : i \in 1..Len(r.wire) <=> i = 1
      /\ r.wire[1] = req
      /\ \A i : i \notin 1..Len(r.out)
  <2>1. DOMAIN <<c>> = 1..1 /\ Len(<<req>>) = 1 /\ Len(<<>>) = 0 /\ <<c>>[1] = c /\ <<req>>[1] = req
    OBVIOUS
  <2>2. \A i : (i \in 1..1 <=> i = 1) /\ i \notin 1..0
    OBVIOUS
  <2>3. QED
    BY <1>3, <2>1, <2>2
<1>5. Matched(r)
  BY <1>1, <1>3, <1>4 DEF Matched
<1>6. Waited(p, r, cs)
  BY <1>1, <1>4 DEF Waited, Method
<1>7. QED
  BY <1>3, <1>5, <1>6

LEMMA CallSpawnsStep ==
  ASSUME IInv, None \notin Procs, NEW c \in Calls, NEW op \in Ops,
         NEW config \in (IF op = "turn" THEN Configs ELSE {None}), CallSpawns(c, op, config)
  PROVE  IInv'
<1> DEFINE record == [NoCall EXCEPT !.op = op, !.config = config]
<1>1. /\ TypeOK /\ Connections /\ Life /\ OneProcess /\ Stages /\ Turning
      /\ host \in HostState /\ call \in [Calls -> Call] /\ proc \in [Procs -> Process]
  BY DEF IInv, TypeOK
<1>2. /\ call[c] = NoCall /\ MayCall(op) /\ ~Live /\ Spawns(c, record)
      /\ turns' = turns /\ ~host.disposed
  BY DEF CallSpawns, Begins
<1>3. record \in Call /\ record.op = op /\ op # "none" /\ record.ans = "none"
  <2>1. config \in Skills
    BY DEF Skills
  <2>2. QED
    BY <2>1 DEF NoCall, Call, Ops, None
<1> HIDE DEF record
<1>4. PICK p \in Procs :
         /\ proc[p].state = "unborn"
         /\ call' = [call EXCEPT ![c] = [record EXCEPT !.stage = "init", !.proc = p]]
         /\ proc' = [proc EXCEPT ![p] =
                       [NoProc EXCEPT !.state = "alive", !.open = TRUE, !.nextId = 2,
                          !.pending = <<c>>,
                          !.wire = <<[id |-> 1, method |-> "init", config |-> None,
                                      by |-> c]>>]]
         /\ host' = Spawned(p)
  BY <1>2 DEF Spawns
<1>5. /\ call' \in [Calls -> Call] /\ \A d \in Calls : d # c => call'[d] = call[d]
      /\ call'[c].stage = "init" /\ call'[c].ans = "none" /\ call'[c].proc = p
      /\ call'[c].op = op
  <2>1. [record EXCEPT !.stage = "init", !.proc = p] \in Call
    BY <1>3 DEF Call
  <2>2. QED
    BY <1>1, <1>3, <1>4, <2>1 DEF Call
<1>6. /\ host' \in HostState /\ host'.child = p /\ host'.disposed = host.disposed
      /\ host'.active = host.active /\ host'.completed = host.completed
  BY <1>1, <1>4 DEF Spawned, HostState
<1>7. /\ proc'[p] \in Process /\ proc'[p].state = "alive"
      /\ Matched(proc'[p]) /\ Waited(p, proc'[p], call')
      /\ \A o \in Procs : o # p => proc'[o] = proc[o]
  <2> DEFINE r == [NoProc EXCEPT !.state = "alive", !.open = TRUE, !.nextId = 2,
                     !.pending = <<c>>,
                     !.wire = <<[id |-> 1, method |-> "init", config |-> None, by |-> c]>>]
  <2>1. r \in Process /\ r.state = "alive" /\ Matched(r) /\ Waited(p, r, call')
    BY <1>5, SpawnedIs, ZenonT(30)
  <2>2. proc' = [proc EXCEPT ![p] = r]
    BY <1>4
  <2> HIDE DEF r
  <2>3. QED
    BY <1>1, <2>1, <2>2
<1>8. TypeOK'
  <2>1. proc' \in [Procs -> Process]
    BY <1>1, <1>4, <1>7
  <2>2. QED
    BY <1>1, <1>2, <1>5, <1>6, <2>1 DEF TypeOK
<1>9. Connections'
  <2>1. call[c].stage = "idle"
    BY <1>2 DEF NoCall
  <2>2. \A o \in Procs : \A i \in DOMAIN proc[o].pending :
           proc[o].pending[i] \in Calls /\ proc[o].pending[i] # c
    BY <1>1, <2>1, PendingCalls, NotWaiting
  <2>3. QED
    BY <1>1, <1>5, <1>7, <2>2, OneConnection
<1>10. \A o \in Procs : proc[o].state # "alive"
  BY <1>1, <1>2 DEF OneProcess, Live
<1>11. Life' /\ OneProcess'
  <2>1. Life'
    BY <1>1, <1>7 DEF Life
  <2>2. ASSUME NEW o \in Procs, proc'[o].state = "alive" PROVE host'.child = o /\ ~host'.disposed
    BY <1>2, <1>6, <1>7, <1>10, <2>2
  <2>3. QED
    BY <2>1, <2>2 DEF OneProcess
<1>12. Stages'
  <2>1. ASSUME op = "turn", NEW d \in Calls, call[d].op = "turn" PROVE FALSE
    BY <1>2, <2>1 DEF MayCall
  <2>2. \A d, e \in Calls : call'[d].op = "turn" /\ call'[e].op = "turn" => d = e
    BY <1>1, <1>5, <2>1 DEF Stages
  <2>3. \A o \in Procs : proc[o].state # "unborn" => proc'[o].state # "unborn"
    BY <1>7
  <2>4. ASSUME NEW d \in Calls, d # c
        PROVE /\ call'[d].stage \in {"roots", "list", "turn", "wait"} => call'[d].op = "turn"
              /\ call'[d].stage # "idle" => /\ call'[d].op # "none" /\ call'[d].proc \in Procs
                                            /\ proc'[call'[d].proc].state # "unborn"
              /\ call'[d].stage = "idle" => call'[d].ans = "none"
    BY <1>1, <1>5, <2>3, <2>4 DEF Stages
  <2>5. /\ call'[c].stage \notin {"roots", "list", "turn", "wait", "idle"}
        /\ call'[c].op # "none" /\ call'[c].proc \in Procs
        /\ proc'[call'[c].proc].state # "unborn"
    BY <1>3, <1>5, <1>7
  <2>6. QED
    BY <2>2, <2>4, <2>5 DEF Stages
<1>13. Turning'
  <2>1. TurnFollowed(call'[c], host', proc')
    BY <1>5 DEF TurnFollowed
  <2>2. ASSUME NEW d \in Calls, d # c PROVE TurnFollowed(call'[d], host', proc')
    <3>1. TurnFollowed(call[d], host, proc) /\ call'[d] = call[d]
      BY <1>1, <1>5, <2>2 DEF Turning
    <3>2. CASE call[d].stage \notin {"turn", "wait"}
      BY <3>1, <3>2 DEF TurnFollowed
    <3>3. CASE call[d].stage \in {"turn", "wait"}
      <4>1. call[d].proc \in Procs /\ proc[call[d].proc].state # "unborn"
        BY <1>1, <3>3 DEF Stages
      <4>2. proc'[call[d].proc] = proc[call[d].proc]
        BY <1>4, <1>7, <4>1
      <4>3. QED
        BY <1>6, <3>1, <4>2 DEF TurnFollowed
    <3>4. QED
      BY <3>2, <3>3
  <2>3. QED
    BY <2>1, <2>2 DEF Turning
<1>14. QED
  BY <1>8, <1>9, <1>11, <1>12, <1>13 DEF IInv

-----------------------------------------------------------------------------
(* The specification.                                                      *)

LEMMA Initially == Init => IInv
<1> SUFFICES ASSUME Init PROVE IInv
  OBVIOUS
<1>1. NoProc \in Process /\ NoCall \in Call /\ NoHost \in HostState
  <2>1. <<>> \in Seq(Req) /\ <<>> \in Seq(Line)
    OBVIOUS
  <2>2. NoProc \in Process
    BY <2>1, NothingPending DEF NoProc, Process, None, Skills
  <2>3. NoCall \in Call
    BY DEF NoCall, Call, None, Skills
  <2>4. [t \in Turns |-> 0] \in [Turns -> Nat]
    OBVIOUS
  <2>5. NoHost \in HostState
    BY <2>4 DEF NoHost, HostState, None, Skills
  <2>6. QED
    BY <2>2, <2>3, <2>5
<1>2. TypeOK
  BY <1>1 DEF Init, TypeOK
<1>3. NoProc.state = "unborn" /\ NoProc.open = FALSE /\ NoProc.pending = <<>> /\ NoProc.wire = <<>>
      /\ NoProc.out = <<>>
  BY DEF NoProc
<1>4. NoCall.stage = "idle" /\ NoCall.op = "none" /\ NoCall.ans = "none"
  BY DEF NoCall
<1>5. /\ \A p \in Procs : proc[p] = NoProc
      /\ \A c \in Calls : call[c] = NoCall
  BY DEF Init
<1>6. Connections
  BY <1>3, <1>5, Closed DEF Connections
<1>7. Life /\ OneProcess /\ Stages /\ Turning
  BY <1>3, <1>4, <1>5 DEF Life, OneProcess, Stages, Turning, TurnFollowed
<1>8. QED
  BY <1>2, <1>6, <1>7 DEF IInv

\* Every step keeps the invariant.
LEMMA Inductive == ASSUME None \notin Procs PROVE IInv /\ [Next]_vars => IInv'
<1> SUFFICES ASSUME IInv, [Next]_vars PROVE IInv'
  OBVIOUS
<1>1. CASE ConnectionSteps
  BY <1>1, ResponseStep, MalformedStep, MessageStep, TurnCompletedStep, InvalidStep
     DEF ConnectionSteps
<1>2. CASE ServerSteps
  BY <1>2, RefusesStep, AnswersStep, StartsStep, StreamsStep, CompletesStep DEF ServerSteps
<1>3. CASE HostSteps
  <2>1. ASSUME NEW c \in Calls, NEW op \in Ops,
               NEW config \in (IF op = "turn" THEN Configs ELSE {None}),
               CallOnLive(c, op, config) \/ CallSpawns(c, op, config)
        PROVE  IInv'
    BY <2>1, CallOnLiveStep, CallSpawnsStep
  <2>2. ASSUME NEW c \in Calls,
               \/ Initialized(c) \/ RootsSet(c) \/ SkillsListed(c) \/ InitializeFails(c)
               \/ PromptSent(c) \/ TurnStarted(c) \/ TurnReturns(c) \/ TurnThrows(c)
               \/ ThreadAttached(c) \/ ReadAnswered(c) \/ CallThrows(c)
        PROVE  IInv'
    BY <2>2, InitializedStep, RootsSetStep, SkillsListedStep, InitializeFailsStep,
       PromptSentStep, TurnStartedStep, TurnOverStep, CallOverStep
  <2>3. ASSUME NEW p \in Procs, ProcessExits(p) \/ OtherExits(p) PROVE IInv'
    BY <2>3, ProcessExitsStep, OtherExitsStep
  <2>4. QED
    BY <1>3, <2>1, <2>2, <2>3, ShutdownStep DEF HostSteps, Ops
<1>4. CASE UNCHANGED vars
  BY <1>4 DEF vars, IInv, TypeOK, Connections, Life, OneProcess, Stages, Turning
<1>5. QED
  BY <1>1, <1>2, <1>3, <1>4 DEF Next

\* Every answer of the app-server goes to the call that asked for it, a call that waits for
\* its turn waits for something that can still come or is rejected, and at most one process
\* runs that was not told to stop, for any number of calls, processes, turns and faults
\* (codex-app-server-host.ts, codex-jsonrpc.ts).  A process is never the absent one (null).
THEOREM NobodyWaits ==
  ASSUME None \notin Procs
  PROVE  Spec => []NobodyWaitsInVain
<1>1. IInv => NobodyWaitsInVain
  <2> SUFFICES ASSUME IInv PROVE NobodyWaitsInVain
    OBVIOUS
  <2>1. AnswersMatch
    <3>1. ASSUME NEW p \in Procs, NEW i \in DOMAIN proc[p].out, proc[p].out[i].kind = "answer"
          PROVE  /\ proc[p].out[i].id \in DOMAIN proc[p].pending
                 /\ proc[p].pending[proc[p].out[i].id] = proc[p].out[i].by
      <4>1. proc[p].out \in Seq(Line) /\ Matched(proc[p])
        BY LineTypes DEF IInv, TypeOK, Connections
      <4>2. i \in 1..Len(proc[p].out)
        BY <4>1
      <4>3. QED
        BY <3>1, <4>1, <4>2 DEF Matched
    <3>2. QED
      BY <3>1 DEF AnswersMatch
  <2>2. WaitIsNotInVain
    <3>1. ASSUME NEW c \in Calls, call[c].stage = "wait", call[c].ans = "none"
          PROVE  LET p == call[c].proc
                 IN /\ ~host.disposed /\ proc[p].state # "crashed"
                    /\ proc[p].open => \/ proc[p].turn = call[c].turn
                                       \/ \E i \in DOMAIN proc[p].out :
                                             /\ proc[p].out[i].kind = "done"
                                             /\ proc[p].out[i].turn = call[c].turn
      <4> DEFINE p == call[c].proc
      <4>1. p \in Procs
        BY <3>1 DEF IInv, Stages
      <4>2. proc[p].out \in Seq(Line)
        BY <4>1, LineTypes DEF IInv, TypeOK
      <4>3. DOMAIN proc[p].out = 1..Len(proc[p].out)
        BY <4>2
      <4>4. /\ ~host.disposed /\ proc[p].state # "crashed"
            /\ proc[p].open => Comes(proc[p], 0, call[c].turn)
        BY <3>1 DEF IInv, Turning, TurnFollowed
      <4> HIDE DEF p
      <4>5. QED
        BY <4>3, <4>4 DEF Comes, p
    <3>2. QED
      BY <3>1 DEF WaitIsNotInVain
  <2>3. QED
    BY <2>1, <2>2 DEF NobodyWaitsInVain, IInv
<1>2. IInv /\ [Next]_vars => IInv'
  BY None \notin Procs, Inductive
<1>3. QED
  BY <1>1, <1>2, Initially, PTL DEF Spec

-----------------------------------------------------------------------------
(* Turns are as asked.                                                     *)

\* Of the positions before n, the last one that is good or bad is good; when there is
\* none, things were good from the start.
Lasts(good, bad, n, start) ==
    /\ \A k \in bad : k < n => \E j \in good : k < j /\ j < n
    /\ start \/ \E j \in good : j < n

\* A process has a skill configuration once the requests before the n-th are handled.
Roots(q, config) ==
    {k \in 1..Len(q.wire) : q.wire[k].method = "roots" /\ q.wire[k].config = config}
OtherRoots(q, config) ==
    {k \in 1..Len(q.wire) : q.wire[k].method = "roots" /\ q.wire[k].config # config}
HasSkills(q, n, config) ==
    Lasts(Roots(q, config), OtherRoots(q, config), n, q.roots = config)

SkillStages == {"iroots", "roots", "list"}

\* A connection that is closed has no requests.
Emptied == \A p \in Procs : ~proc[p].open => proc[p].pending = <<>> /\ proc[p].wire = <<>>

\* A prompt finds the skills of its call.
Prompted(q, cs) ==
    \A i \in 1..Len(q.wire) : q.wire[i].method = "turn" /\ ~q.refused =>
       HasSkills(q, i, cs[q.wire[i].by].config)

\* A process whose skills are set, or are being set, has those the host wants.
Equipped(p, q, cs, h) ==
    q.open /\ ~q.refused
    /\ (h.applied \/ \E c \in Calls : cs[c].stage \in SkillStages /\ cs[c].proc = p)
    => HasSkills(q, Len(q.wire) + 1, h.desired)

\* The host wants the skills of the turn that is being prepared.
Wanted ==
    \A c \in Calls : call[c].stage \in {"roots", "list"} /\ proc[call[c].proc].open =>
       call[c].config = host.desired

\* A call that runs on is about the process that is connected.
Connected ==
    \A c \in Calls : call[c].ans # "none" /\ call[c].stage # "wait" =>
       \A p \in Procs : proc[p].open => p = call[c].proc

Skilled ==
    /\ Emptied
    /\ \A p \in Procs : Prompted(proc[p], call)
    /\ \A p \in Procs : Equipped(p, proc[p], call, host)
    /\ Wanted
    /\ Connected

\* The first position is taken away.
LEMMA LastsRest ==
  ASSUME NEW good \in SUBSET Nat, NEW bad \in SUBSET Nat, NEW rest, NEW others,
         NEW n \in Nat \ {0}, NEW start, NEW now,
         \A k \in Nat \ {0} : k \in rest <=> k + 1 \in good,
         \A k \in others : k \in Nat \ {0} /\ k + 1 \in bad,
         0 \notin good, 1 \in good => now, 1 \notin good /\ 1 \notin bad /\ start => now,
         Lasts(good, bad, n + 1, start)
  PROVE  Lasts(rest, others, n, now)
<1>1. ASSUME NEW k \in others, k < n PROVE \E j \in rest : k < j /\ j < n
  <2>1. k + 1 \in bad /\ k + 1 < n + 1 /\ k \in Nat
    BY <1>1
  <2>2. PICK j \in good : k + 1 < j /\ j < n + 1
    BY <2>1 DEF Lasts
  <2>3. j - 1 \in Nat \ {0} /\ k < j - 1 /\ j - 1 < n /\ (j - 1) + 1 = j
    BY <2>1, <2>2
  <2>4. QED
    BY <2>2, <2>3
<1>2. ASSUME ~now PROVE \E j \in rest : j < n
  <2>1. PICK j \in good : j < n + 1
    <3>1. CASE start
      <4>1. 1 \in bad
        BY <1>2, <3>1
      <4>2. 1 < n + 1
        OBVIOUS
      <4>3. QED
        BY <4>1, <4>2 DEF Lasts
    <3>2. CASE ~start
      BY <3>2 DEF Lasts
    <3>3. QED
      BY <3>1, <3>2
  <2>2. j # 1 /\ j # 0 /\ j \in Nat
    BY <1>2, <2>1
  <2>3. j - 1 \in Nat \ {0} /\ j - 1 < n /\ (j - 1) + 1 = j
    BY <2>1, <2>2
  <2>4. QED
    BY <2>1, <2>3
<1>3. QED
  BY <1>1, <1>2 DEF Lasts

\* Nothing changes before n.
LEMMA LastsSame ==
  ASSUME NEW good, NEW bad, NEW good2, NEW bad2, NEW n, NEW start, NEW now,
         \A k : k < n /\ k \in good => k \in good2,
         \A k : k < n /\ k \in bad2 => k \in bad, start => now,
         Lasts(good, bad, n, start)
  PROVE  Lasts(good2, bad2, n, now)
BY DEF Lasts

\* One more position, which is not bad.
LEMMA LastsMore ==
  ASSUME NEW good, NEW bad, NEW good2, NEW bad2 \in SUBSET Nat, NEW n \in Nat, NEW start, NEW now,
         \A k : k \in good => k \in good2,
         \A k : k < n /\ k \in bad2 => k \in bad, n \notin bad2, start => now,
         good \in SUBSET Nat,
         Lasts(good, bad, n, start)
  PROVE  Lasts(good2, bad2, n + 1, now)
<1>1. ASSUME NEW k \in bad2, k < n + 1 PROVE \E j \in good2 : k < j /\ j < n + 1
  <2>1. k < n /\ k \in bad
    BY <1>1
  <2>2. PICK j \in good : k < j /\ j < n
    BY <2>1 DEF Lasts
  <2>3. QED
    BY <2>2
<1>2. now \/ \E j \in good2 : j < n + 1
  BY DEF Lasts
<1>3. QED
  BY <1>1, <1>2 DEF Lasts

\* One more position, which is good.
LEMMA LastsGood ==
  ASSUME NEW good \in SUBSET Nat, NEW bad \in SUBSET Nat, NEW n \in Nat, NEW start,
         n \in good, n \notin bad
  PROVE  Lasts(good, bad, n + 1, start)
<1>1. ASSUME NEW k \in bad, k < n + 1 PROVE k < n /\ n < n + 1
  BY <1>1
<1>2. QED
  BY <1>1 DEF Lasts

\* The same requests and the same skills.
LEMMA SkillsSame ==
  ASSUME NEW q, NEW r, r.wire = q.wire, r.roots = q.roots, NEW n, NEW config,
         HasSkills(q, n, config)
  PROVE  HasSkills(r, n, config)
BY DEF HasSkills, Roots, OtherRoots

\* One request more.
LEMMA SkillsMore ==
  ASSUME NEW q \in Process, NEW r, NEW x \in Req, r.wire = Append(q.wire, x),
         r.roots = q.roots, NEW config
  PROVE  /\ \A n \in 1..(Len(q.wire) + 1) : HasSkills(q, n, config) => HasSkills(r, n, config)
         /\ x.method # "roots" /\ HasSkills(q, Len(q.wire) + 1, config)
               => HasSkills(r, Len(r.wire) + 1, config)
         /\ x.method = "roots" /\ x.config = config => HasSkills(r, Len(r.wire) + 1, config)
<1> DEFINE N == Len(q.wire)
<1>1. /\ N \in Nat /\ Len(r.wire) = N + 1 /\ r.wire[N + 1] = x
      /\ \A j \in 1..N : j \in 1..Len(r.wire) /\ r.wire[j] = q.wire[j]
      /\ \A j \in 1..Len(r.wire) : j \in 1..N \/ j = N + 1
      /\ N + 1 \in 1..Len(r.wire)
  <2>1. q.wire \in Seq(Req)
    BY DEF Process
  <2> HIDE DEF N
  <2>2. QED
    BY <2>1, More DEF N
<1>2. /\ Roots(q, config) \in SUBSET Nat /\ Roots(r, config) \in SUBSET Nat
      /\ OtherRoots(r, config) \in SUBSET Nat
  BY DEF Roots, OtherRoots
<1>3. /\ \A k \in Roots(q, config) : k \in Roots(r, config)
      /\ \A k : k < N + 1 /\ k \in OtherRoots(r, config) => k \in OtherRoots(q, config)
  BY <1>1 DEF Roots, OtherRoots
<1> HIDE DEF N
<1>4. ASSUME NEW n \in 1..(N + 1), HasSkills(q, n, config) PROVE HasSkills(r, n, config)
  <2>1. \A k : k < n /\ k \in OtherRoots(r, config) => k \in OtherRoots(q, config)
    <3> SUFFICES ASSUME NEW k \in OtherRoots(r, config), k < n PROVE k \in OtherRoots(q, config)
      OBVIOUS
    <3>1. k < N + 1
      BY <1>1, <1>2
    <3>2. QED
      BY <1>3, <3>1
  <2>2. QED
    BY <1>3, <1>4, <2>1, LastsSame DEF HasSkills
<1>5. ASSUME x.method # "roots", HasSkills(q, N + 1, config)
      PROVE  HasSkills(r, (N + 1) + 1, config)
  <2>1. N + 1 \notin OtherRoots(r, config)
    BY <1>1, <1>5 DEF OtherRoots
  <2>2. N + 1 \in Nat
    BY <1>1
  <2>3. Lasts(Roots(q, config), OtherRoots(q, config), N + 1, q.roots = config)
    BY <1>5 DEF HasSkills
  <2>4. Lasts(Roots(r, config), OtherRoots(r, config), (N + 1) + 1, r.roots = config)
    BY <1>2, <1>3, <2>1, <2>2, <2>3, LastsMore
  <2>5. QED
    BY <2>4 DEF HasSkills
<1>6. ASSUME x.method = "roots", x.config = config PROVE HasSkills(r, (N + 1) + 1, config)
  <2>1. N + 1 \in Roots(r, config) /\ N + 1 \notin OtherRoots(r, config) /\ N + 1 \in Nat
    BY <1>1, <1>6 DEF Roots, OtherRoots
  <2>2. QED
    BY <1>2, <2>1, LastsGood DEF HasSkills
<1>7. QED
  BY <1>1, <1>4, <1>5, <1>6 DEF N

\* The first request is handled.
LEMMA SkillsRest ==
  ASSUME NEW q \in Process, NEW r, q.wire # <<>>, r.wire = Tail(q.wire), NEW config,
         NEW n \in Nat \ {0},
         q.wire[1].method = "roots" => r.roots = q.wire[1].config,
         q.wire[1].method # "roots" => r.roots = q.roots,
         HasSkills(q, n + 1, config)
  PROVE  HasSkills(r, n, config)
<1>1. /\ Len(q.wire) \in Nat /\ 1 \in 1..Len(q.wire)
      /\ \A j \in 1..Len(r.wire) : j + 1 \in 1..Len(q.wire) /\ r.wire[j] = q.wire[j + 1]
      /\ \A j \in 1..Len(q.wire) : j # 1 => j - 1 \in 1..Len(r.wire) /\ q.wire[j] = r.wire[j - 1]
      /\ r.wire \in Seq(Req)
  <2>1. q.wire \in Seq(Req)
    BY DEF Process
  <2>2. QED
    BY <2>1, Rest
<1>2. /\ Roots(q, config) \in SUBSET Nat /\ OtherRoots(q, config) \in SUBSET Nat
      /\ 0 \notin Roots(q, config)
  BY DEF Roots, OtherRoots
<1>3. ASSUME NEW k \in Nat \ {0} PROVE k \in Roots(r, config) <=> k + 1 \in Roots(q, config)
  <2>1. ASSUME k + 1 \in 1..Len(q.wire)
        PROVE k \in 1..Len(r.wire) /\ r.wire[k] = q.wire[k + 1]
    <3>1. k + 1 # 1 /\ (k + 1) - 1 = k
      OBVIOUS
    <3>2. QED
      BY <1>1, <2>1, <3>1
  <2>2. QED
    BY <1>1, <2>1 DEF Roots
<1>4. \A k \in OtherRoots(r, config) : k \in Nat \ {0} /\ k + 1 \in OtherRoots(q, config)
  BY <1>1 DEF OtherRoots
<1>5. /\ 1 \in Roots(q, config) => r.roots = config
      /\ 1 \notin Roots(q, config) /\ 1 \notin OtherRoots(q, config) /\ q.roots = config
            => r.roots = config
  BY <1>1 DEF Roots, OtherRoots
<1>6. Lasts(Roots(q, config), OtherRoots(q, config), n + 1, q.roots = config)
  BY DEF HasSkills
<1>7. Lasts(Roots(r, config), OtherRoots(r, config), n, r.roots = config)
  BY <1>2, <1>3, <1>4, <1>5, <1>6, LastsRest
<1>8. QED
  BY <1>7 DEF HasSkills

\* Only one connection is open, that of the live process.
LEMMA OneOpen ==
  ASSUME IInv, NEW p \in Procs, proc[p].open
  PROVE  /\ host.child = p /\ ~host.disposed /\ proc[p].state = "alive"
         /\ \A o \in Procs : proc[o].open => o = p
BY DEF IInv, Life, OneProcess

\* Whoever asks waits.
LEMMA Askers ==
  ASSUME NEW p, NEW cs, NEW q \in Process, Matched(q), Waited(p, q, cs),
         NEW i \in 1..Len(q.wire)
  PROVE  /\ q.wire[i] \in Req /\ q.wire[i].by \in Calls
         /\ cs[q.wire[i].by].ans = "none" /\ cs[q.wire[i].by].proc = p
         /\ cs[q.wire[i].by].stage \notin {"idle", "wait"}
         /\ q.wire[i].method = Method(cs[q.wire[i].by].stage)
<1>1. q.wire[i] \in Req
  <2>1. q.wire \in Seq(Req)
    BY DEF Process
  <2>2. QED
    BY <2>1
<1>2. q.wire[i].id \in DOMAIN q.pending /\ q.pending[q.wire[i].id] = q.wire[i].by
  BY DEF Matched
<1>3. QED
  BY <1>1, <1>2 DEF Waited, Req

\* Nothing is asked and no skills are set; a call goes on waiting, waits for its turn, or
\* ends.
LEMMA SkillsQuiet ==
  ASSUME IInv, IInv', Skilled,
         \A p \in Procs :
            /\ proc'[p].wire = proc[p].wire /\ proc'[p].roots = proc[p].roots
            /\ proc'[p].refused = proc[p].refused /\ proc'[p].open = proc[p].open
            /\ ~proc[p].open => proc'[p].pending = proc[p].pending,
         \A c \in Calls :
            \/ call'[c].stage \in {"idle", "wait"}
            \/ /\ call'[c].stage = call[c].stage /\ call'[c].config = call[c].config
               /\ call'[c].proc = call[c].proc
               /\ call'[c].ans # "none" => call[c].ans # "none" \/ proc[call[c].proc].open,
         host'.desired = host.desired,
         host'.applied = host.applied \/ \A p \in Procs : ~proc[p].open
  PROVE  Skilled'
<1>1. Emptied'
  BY DEF Skilled, Emptied
<1>2. ASSUME NEW p \in Procs PROVE Prompted(proc'[p], call')
  <2> SUFFICES ASSUME NEW i \in 1..Len(proc'[p].wire), proc'[p].wire[i].method = "turn",
                      ~proc'[p].refused
               PROVE  HasSkills(proc'[p], i, call'[proc'[p].wire[i].by].config)
    BY DEF Prompted
  <2> DEFINE c == proc'[p].wire[i].by
  <2>1. c \in Calls /\ call'[c].stage \notin {"idle", "wait"}
    <3>1. proc'[p] \in Process /\ Matched(proc'[p]) /\ Waited(p, proc'[p], call')
      BY DEF IInv, TypeOK, Connections
    <3>2. QED
      BY <3>1, Askers
  <2>2. call'[c].config = call[c].config
    BY <2>1
  <2>3. HasSkills(proc[p], i, call[c].config)
    BY DEF Skilled, Prompted
  <2> HIDE DEF c
  <2>4. HasSkills(proc'[p], i, call[c].config)
    BY <2>3, SkillsSame
  <2>5. QED
    BY <2>2, <2>4 DEF c
<1>3. ASSUME NEW p \in Procs PROVE Equipped(p, proc'[p], call', host')
  <2> SUFFICES ASSUME proc'[p].open, ~proc'[p].refused,
                      host'.applied \/ \E c \in Calls : call'[c].stage \in SkillStages /\ call'[c].proc = p
               PROVE  HasSkills(proc'[p], Len(proc'[p].wire) + 1, host'.desired)
    BY DEF Equipped
  <2>1. host.applied \/ \E c \in Calls : call[c].stage \in SkillStages /\ call[c].proc = p
    BY DEF SkillStages
  <2>2. HasSkills(proc[p], Len(proc[p].wire) + 1, host.desired)
    BY <2>1 DEF Skilled, Equipped
  <2>3. HasSkills(proc'[p], Len(proc[p].wire) + 1, host.desired)
    BY <2>2, SkillsSame
  <2>4. QED
    BY <2>3
<1>4. Wanted'
  <2> SUFFICES ASSUME NEW c \in Calls, call'[c].stage \in {"roots", "list"},
                      proc'[call'[c].proc].open
               PROVE  call'[c].config = host'.desired
    BY DEF Wanted
  <2>1. /\ call[c].stage \in {"roots", "list"} /\ call'[c].config = call[c].config
        /\ call'[c].proc = call[c].proc
    OBVIOUS
  <2>2. call[c].proc \in Procs
    BY <2>1 DEF IInv, Stages
  <2>3. QED
    BY <2>1, <2>2 DEF Skilled, Wanted
<1>5. Connected'
  <2> SUFFICES ASSUME NEW c \in Calls, call'[c].ans # "none", call'[c].stage # "wait",
                      NEW p \in Procs, proc'[p].open
               PROVE  p = call'[c].proc
    BY DEF Connected
  <2>1. call'[c].stage # "idle"
    BY DEF IInv, Stages
  <2>2. /\ call'[c].proc = call[c].proc /\ call[c].stage # "wait" /\ proc[p].open
        /\ call[c].ans # "none" \/ proc[call[c].proc].open
        /\ call[c].stage # "idle"
    BY <2>1
  <2>3. CASE call[c].ans # "none"
    BY <2>2, <2>3 DEF Skilled, Connected
  <2>4. CASE proc[call[c].proc].open
    <3>1. call[c].proc \in Procs
      BY <2>2 DEF IInv, Stages
    <3>2. QED
      BY <2>2, <2>4, <3>1, OneOpen
  <2>5. QED
    BY <2>2, <2>3, <2>4
<1>6. QED
  BY <1>1, <1>2, <1>3, <1>4, <1>5 DEF Skilled

\* No connection is left.
LEMMA SkillsClosed ==
  ASSUME IInv', \A p \in Procs : ~proc'[p].open /\ proc'[p].pending = <<>> /\ proc'[p].wire = <<>>
  PROVE  Skilled'
<1>1. Emptied'
  BY DEF Emptied
<1>2. \A p \in Procs : Prompted(proc'[p], call')
  <2>1. \A p \in Procs : Len(proc'[p].wire) = 0
    OBVIOUS
  <2>2. \A p \in Procs : \A i \in 1..Len(proc'[p].wire) : FALSE
    BY <2>1
  <2>3. QED
    BY <2>2 DEF Prompted
<1>3. \A p \in Procs : Equipped(p, proc'[p], call', host')
  BY DEF Equipped
<1>4. Wanted'
  <2>1. \A c \in Calls : call'[c].stage \in {"roots", "list"} => call'[c].proc \in Procs
    BY DEF IInv, Stages
  <2>2. QED
    BY <2>1 DEF Wanted
<1>5. Connected'
  BY DEF Connected
<1>6. QED
  BY <1>1, <1>2, <1>3, <1>4, <1>5 DEF Skilled

\* Process p takes the first request.
LEMMA SkillsServed ==
  ASSUME IInv, Skilled, NEW p \in Procs, NEW r, proc' = [proc EXCEPT ![p] = r],
         proc[p].wire # <<>>, r.wire = Tail(proc[p].wire), r.open = proc[p].open,
         r.pending = proc[p].pending, ~r.refused => ~proc[p].refused,
         ~r.refused /\ proc[p].wire[1].method = "roots" => r.roots = proc[p].wire[1].config,
         proc[p].wire[1].method # "roots" => r.roots = proc[p].roots,
         call' = call, host' = host
  PROVE  Skilled'
<1> DEFINE q == proc[p]
<1>1. q \in Process /\ proc'[p] = r /\ \A o \in Procs : o # p => proc'[o] = proc[o]
  BY DEF IInv, TypeOK
<1>2. ASSUME ~r.refused, NEW n \in Nat \ {0}, NEW config, HasSkills(q, n + 1, config)
      PROVE  HasSkills(r, n, config)
  <2>1. /\ q.wire # <<>> /\ r.wire = Tail(q.wire)
        /\ q.wire[1].method = "roots" => r.roots = q.wire[1].config
        /\ q.wire[1].method # "roots" => r.roots = q.roots
    BY <1>2
  <2> HIDE DEF q
  <2>2. QED
    BY <1>1, <1>2, <2>1, SkillsRest
<1>3. /\ Len(r.wire) \in Nat /\ Len(q.wire) = Len(r.wire) + 1
      /\ \A j \in 1..Len(r.wire) : j + 1 \in 1..Len(q.wire) /\ r.wire[j] = q.wire[j + 1]
  <2> DEFINE s == q.wire
  <2>1. s \in Seq(Req) /\ s # <<>> /\ r.wire = Tail(s)
    BY <1>1 DEF Process
  <2> HIDE DEF s
  <2>2. /\ Len(s) \in Nat /\ Len(Tail(s)) = Len(s) - 1 /\ 1 \in 1..Len(s)
        /\ \A j \in 1..Len(Tail(s)) : j + 1 \in 1..Len(s) /\ Tail(s)[j] = s[j + 1]
    BY <2>1, Rest
  <2>3. Len(s) = (Len(s) - 1) + 1 /\ Len(s) - 1 \in Nat
    BY <2>2
  <2>4. QED
    BY <2>1, <2>2, <2>3 DEF s
<1>4. Emptied'
  <2>1. q.open
    BY DEF Skilled, Emptied
  <2>2. QED
    BY <1>1, <2>1 DEF Skilled, Emptied
<1>5. ASSUME NEW o \in Procs PROVE Prompted(proc'[o], call')
  <2>1. CASE o # p
    BY <1>1, <2>1 DEF Skilled
  <2>2. ASSUME NEW i \in 1..Len(r.wire), r.wire[i].method = "turn", ~r.refused
        PROVE  HasSkills(r, i, call[r.wire[i].by].config)
    <3>1. i + 1 \in 1..Len(q.wire) /\ r.wire[i] = q.wire[i + 1] /\ ~q.refused /\ i \in Nat \ {0}
      BY <1>3, <2>2
    <3>2. HasSkills(q, i + 1, call[q.wire[i + 1].by].config)
      BY <2>2, <3>1 DEF Skilled, Prompted
    <3>3. QED
      BY <1>2, <2>2, <3>1, <3>2
  <2>3. QED
    BY <1>1, <2>1, <2>2 DEF Prompted
<1>6. ASSUME NEW o \in Procs PROVE Equipped(o, proc'[o], call', host')
  <2>1. CASE o # p
    BY <1>1, <2>1 DEF Skilled
  <2>2. ASSUME r.open, ~r.refused,
               host.applied \/ \E c \in Calls : call[c].stage \in SkillStages /\ call[c].proc = p
        PROVE  HasSkills(r, Len(r.wire) + 1, host.desired)
    <3>1. HasSkills(q, Len(q.wire) + 1, host.desired)
      BY <2>2 DEF Skilled, Equipped
    <3>2. Len(r.wire) + 1 \in Nat \ {0} /\ Len(q.wire) + 1 = (Len(r.wire) + 1) + 1
      BY <1>3
    <3> HIDE DEF q
    <3>3. QED
      BY <1>2, <2>2, <3>1, <3>2
  <2>3. QED
    BY <1>1, <2>1, <2>2 DEF Equipped
<1>7. \A o \in Procs : proc'[o].open = proc[o].open
  BY <1>1
<1>8. Wanted'
  <2>1. \A c \in Calls : call[c].stage \in {"roots", "list"} => call[c].proc \in Procs
    BY DEF IInv, Stages
  <2>2. QED
    BY <1>7, <2>1 DEF Skilled, Wanted
<1>9. Connected'
  BY <1>7 DEF Skilled, Connected
<1>10. QED
  BY <1>4, <1>5, <1>6, <1>8, <1>9 DEF Skilled

\* Call c sends a request: a prompt when its skills are set, the skills the host wants, or
\* something else when the host wants the same as before.
LEMMA SkillsSent ==
  ASSUME IInv, IInv', Skilled, NEW c \in Calls, NEW p \in Procs, NEW record \in Call,
         NEW stage \in Sent, NEW config \in Skills,
         call[c].ans # "none" \/ call[c].stage = "idle", Sends(c, record, p, stage, config),
         stage = "turn" => /\ call[c].stage = "list" /\ call[c].proc = p
                           /\ record.config = host.desired,
         Method(stage) = "roots" => config = host'.desired,
         Method(stage) # "roots" /\ (host'.applied \/ \E d \in Calls :
                                        call'[d].stage \in SkillStages /\ call'[d].proc = p)
            => /\ host'.desired = host.desired
               /\ host.applied \/ (call[c].stage \in SkillStages /\ call[c].proc = p)
                  \/ \E d \in Calls \ {c} : call[d].stage \in SkillStages /\ call[d].proc = p,
         stage \in {"roots", "list"} => record.config = host'.desired,
         host'.desired # host.desired => record.op = "turn"
  PROVE  Skilled'
<1> DEFINE q == proc[p]
           r == proc'[p]
           req == Request(q.nextId, Method(stage), config, c)
<1>1. /\ TypeOK /\ q \in Process /\ Matched(q) /\ Waited(p, q, call) /\ q.open
      /\ \A o \in Procs : proc[o].open => o = p
      /\ \A o \in Procs : Matched(proc'[o]) /\ Waited(o, proc'[o], call') /\ proc'[o] \in Process
  BY OneOpen DEF IInv, TypeOK, Connections, Sends
<1>2. Method(stage) \in Methods
  BY DEF Method, Methods, Sent
<1>3. /\ req \in Req /\ req.method = Method(stage) /\ req.config = config /\ req.by = c
      /\ r.wire = Append(q.wire, req) /\ r.roots = q.roots
      /\ r.refused = q.refused /\ r.open = q.open
      /\ \A o \in Procs : o # p => proc'[o] = proc[o]
  <2>1. q \in Process /\ q = proc[p]
    BY <1>1
  <2> DEFINE s == Requested(p, c, Method(stage), config)
  <2>2. s.roots = q.roots /\ s.refused = q.refused
    BY <1>1 DEF Requested, Process
  <2>3. proc' = [proc EXCEPT ![p] = s] /\ proc \in [Procs -> Process]
    BY <1>1 DEF Sends, TypeOK
  <2> HIDE DEF q
  <2>4. req \in Req /\ s.wire = Append(q.wire, req) /\ s.open = q.open
    BY <1>2, <2>1, RequestedIs
  <2>5. req.method = Method(stage) /\ req.config = config /\ req.by = c
    BY DEF Request
  <2> HIDE DEF s, req
  <2>6. QED
    BY <2>2, <2>3, <2>4, <2>5
<1>4. /\ call' \in [Calls -> Call] /\ \A d \in Calls : d # c => call'[d] = call[d]
      /\ call'[c].stage = stage /\ call'[c].ans = "none" /\ call'[c].proc = p
      /\ call'[c].op = record.op /\ call'[c].config = record.config
  <2>1. [record EXCEPT !.stage = stage, !.ans = "none", !.proc = p] \in Call
    BY DEF Call
  <2>2. QED
    BY <1>1, <2>1 DEF Sends, TypeOK, Call
<1>5. \A o \in Procs : proc'[o].open = proc[o].open
  BY <1>3
<1>6. Emptied'
  BY <1>1, <1>3 DEF Skilled, Emptied
<1>7. ASSUME NEW o \in Procs, o # p PROVE ~proc'[o].open /\ proc'[o].wire = <<>>
  BY <1>1, <1>3, <1>7 DEF Skilled, Emptied
<1>8. /\ Len(q.wire) \in Nat /\ Len(r.wire) = Len(q.wire) + 1 /\ r.wire[Len(q.wire) + 1] = req
      /\ \A j \in 1..Len(q.wire) : r.wire[j] = q.wire[j]
      /\ \A j \in 1..Len(r.wire) : j \in 1..Len(q.wire) \/ j = Len(q.wire) + 1
  <2>1. q.wire \in Seq(Req)
    BY <1>1 DEF Process
  <2> HIDE DEF q, r, req
  <2>2. QED
    BY <1>3, <2>1, More
<1>9. ASSUME NEW conf
      PROVE  /\ \A n \in 1..(Len(q.wire) + 1) : HasSkills(q, n, conf) => HasSkills(r, n, conf)
             /\ req.method # "roots" /\ HasSkills(q, Len(q.wire) + 1, conf)
                   => HasSkills(r, Len(r.wire) + 1, conf)
             /\ req.method = "roots" /\ req.config = conf => HasSkills(r, Len(r.wire) + 1, conf)
  <2> HIDE DEF q, r, req
  <2>1. QED
    BY <1>1, <1>3, SkillsMore
<1>10. ASSUME NEW o \in Procs PROVE Prompted(proc'[o], call')
  <2>1. CASE o # p
    <3>1. \A i \in 1..Len(proc'[o].wire) : FALSE
      BY <1>7, <2>1
    <3>2. QED
      BY <3>1 DEF Prompted
  <2>2. ASSUME NEW i \in 1..Len(r.wire), r.wire[i].method = "turn", ~r.refused
        PROVE  HasSkills(r, i, call'[r.wire[i].by].config)
    <3>1. CASE i \in 1..Len(q.wire)
      <4>1. r.wire[i] = q.wire[i] /\ ~q.refused /\ i \in 1..(Len(q.wire) + 1)
        BY <1>3, <1>8, <2>2, <3>1
      <4>2. /\ q.wire[i].by \in Calls /\ call[q.wire[i].by].ans = "none"
            /\ call[q.wire[i].by].stage \notin {"idle", "wait"}
        <5> HIDE DEF q, r, req
        <5>1. QED
          BY <1>1, <3>1, Askers
      <4>3. call'[q.wire[i].by] = call[q.wire[i].by]
        BY <1>4, <4>2
      <4>4. HasSkills(q, i, call[q.wire[i].by].config)
        BY <2>2, <3>1, <4>1 DEF Skilled, Prompted
      <4> HIDE DEF q, r, req
      <4>5. QED
        BY <1>9, <4>1, <4>3, <4>4
    <3>2. CASE i = Len(q.wire) + 1
      <4>1. r.wire[i] = req /\ req.by = c /\ stage = "turn"
        <5>1. Method(stage) = "turn"
          BY <1>3, <1>8, <2>2, <3>2
        <5>2. stage = "turn"
          BY <5>1 DEF Method
        <5>3. QED
          BY <1>3, <1>8, <3>2, <5>2
      <4>2. HasSkills(q, Len(q.wire) + 1, host.desired)
        BY <1>1, <1>3, <2>2, <4>1 DEF Skilled, Equipped, SkillStages
      <4>3. Len(q.wire) + 1 \in 1..(Len(q.wire) + 1) /\ call'[c].config = host.desired
        BY <1>4, <1>8, <4>1
      <4> HIDE DEF q, r, req
      <4>4. QED
        BY <1>9, <3>2, <4>1, <4>2, <4>3
    <3>3. QED
      BY <1>8, <3>1, <3>2
  <2>3. QED
    BY <2>1, <2>2 DEF Prompted
<1>11. ASSUME NEW o \in Procs PROVE Equipped(o, proc'[o], call', host')
  <2>1. CASE o # p
    BY <1>7, <2>1 DEF Equipped
  <2>2. ASSUME ~r.refused,
               host'.applied \/ \E d \in Calls : call'[d].stage \in SkillStages /\ call'[d].proc = p
        PROVE  HasSkills(r, Len(r.wire) + 1, host'.desired)
    <3>1. CASE Method(stage) = "roots"
      <4>1. req.method = "roots" /\ req.config = host'.desired
        BY <1>3, <3>1
      <4> HIDE DEF q, r, req
      <4>2. QED
        BY <1>9, <4>1
    <3>2. CASE Method(stage) # "roots"
      <4>1. /\ host'.desired = host.desired
            /\ host.applied \/ \E d \in Calls : call[d].stage \in SkillStages /\ call[d].proc = p
        BY <2>2, <3>2
      <4>2. HasSkills(q, Len(q.wire) + 1, host.desired)
        BY <1>1, <1>3, <2>2, <4>1 DEF Skilled, Equipped
      <4> HIDE DEF q, r, req
      <4>3. QED
        BY <1>3, <1>9, <3>2, <4>1, <4>2
    <3>3. QED
      BY <3>1, <3>2
  <2>3. QED
    BY <2>1, <2>2 DEF Equipped
<1>12. Wanted'
  <2> SUFFICES ASSUME NEW d \in Calls, call'[d].stage \in {"roots", "list"},
                      proc'[call'[d].proc].open
               PROVE  call'[d].config = host'.desired
    BY DEF Wanted
  <2>1. CASE d = c
    BY <1>4, <2>1
  <2>2. CASE d # c
    <3>1. call'[d] = call[d] /\ call[d].op = "turn" /\ call[d].proc \in Procs /\ call'[d].op = "turn"
      BY <1>4, <2>2 DEF IInv, Stages
    <3>2. host'.desired = host.desired
      <4>1. record.op # "turn"
        BY <1>4, <2>2, <3>1 DEF IInv, Stages
      <4>2. QED
        BY <4>1
    <3>3. QED
      BY <1>5, <3>1, <3>2 DEF Skilled, Wanted
  <2>3. QED
    BY <2>1, <2>2
<1>13. Connected'
  BY <1>4, <1>5 DEF Skilled, Connected
<1>14. QED
  BY <1>6, <1>10, <1>11, <1>12, <1>13 DEF Skilled

\* What an operation asks once it has a process: a turn has its skills set first, or listed
\* when they are set already.
LEMMA SkillsContinue ==
  ASSUME IInv, IInv', Skilled, NEW c \in Calls, NEW p \in Procs, NEW record \in Call,
         call[c].ans # "none" \/ call[c].stage = "idle", record.op # "none",
         Continues(c, record, p)
  PROVE  Skilled'
<1> DEFINE next == IF record.op = "turn" THEN Configured(host, record.config) ELSE host
           after == FirstStage(record.op)
           stage == IF after = "roots" /\ next.applied THEN "list" ELSE after
<1>1. host \in HostState /\ record.op \in Ops /\ record.config \in Skills
  BY DEF IInv, TypeOK, Call
<1>2. Sends(c, record, p, stage, next.desired) /\ host' = next
  BY DEF Continues
<1>3. stage \in Sent /\ stage # "turn" /\ next.desired \in Skills
      /\ (stage \in {"roots", "list"} => record.op = "turn")
      /\ (stage \notin {"roots", "list"} => record.op # "turn" /\ stage \notin SkillStages
                                            /\ Method(stage) # "roots")
  BY <1>1 DEF FirstStage, Sent, Ops, Configured, HostState, SkillStages, Method
<1>4. /\ record.op = "turn" => next.desired = record.config
      /\ record.op = "turn" /\ next.applied => host.applied /\ host.desired = record.config
      /\ record.op # "turn" => next = host
      /\ stage = "list" => next.applied
      /\ stage = "list" \/ stage = "roots" \/ record.op # "turn"
      /\ stage = "roots" => Method(stage) = "roots"
  BY <1>1 DEF Configured, HostState, FirstStage, Method, Ops
<1>5. Method(stage) = "roots" => next.desired = host'.desired
  BY <1>2
<1>6. \A d \in Calls \ {c} : call'[d] = call[d]
  BY <1>2 DEF Sends, IInv, TypeOK
<1>7. call'[c].stage = stage
  <2>1. [record EXCEPT !.stage = stage, !.ans = "none", !.proc = p].stage = stage
    BY DEF Call
  <2>2. call \in [Calls -> Call]
    BY DEF IInv, TypeOK
  <2> HIDE DEF stage, next
  <2>3. QED
    BY <1>2, <2>1, <2>2 DEF Sends
<1> HIDE DEF stage, next
<1>8. ASSUME Method(stage) # "roots",
             host'.applied \/ \E d \in Calls : call'[d].stage \in SkillStages /\ call'[d].proc = p
      PROVE  /\ host'.desired = host.desired
             /\ host.applied \/ (call[c].stage \in SkillStages /\ call[c].proc = p)
                \/ \E d \in Calls \ {c} : call[d].stage \in SkillStages /\ call[d].proc = p
  <2>1. CASE stage = "list"
    BY <1>2, <1>3, <1>4, <2>1
  <2>2. CASE stage # "list"
    <3>1. stage \notin SkillStages /\ next = host
      BY <1>3, <1>4, <1>8, <2>2
    <3>2. QED
      BY <1>2, <1>6, <1>7, <1>8, <3>1
  <2>3. QED
    BY <2>1, <2>2
<1>9. stage \in {"roots", "list"} => record.config = host'.desired
  BY <1>2, <1>3, <1>4
<1>10. host'.desired # host.desired => record.op = "turn"
  BY <1>2, <1>4
<1>11. QED
  BY <1>2, <1>3, <1>5, <1>8, <1>9, <1>10, SkillsSent

LEMMA InitializedSkills ==
  ASSUME IInv, IInv', Skilled, NEW c \in Calls, Initialized(c) PROVE Skilled'
<1>1. call[c].stage = "init" /\ call[c].ans # "none" /\ call[c] \in Call /\ call[c].op # "none"
      /\ call[c].proc \in Procs
  BY Begun DEF Initialized, Answered
<1>2. CASE host.desired # None
  <2>1. host.desired \in Skills
    BY DEF IInv, TypeOK, HostState
  <2>2. PICK stage \in {"ilist", "iroots"} :
           /\ Sends(c, call[c], call[c].proc, stage, host.desired) /\ host' = host
           /\ stage = "ilist" => host.applied
    BY <1>2 DEF Initialized
  <2>3. stage \in Sent /\ stage \notin {"roots", "list", "turn"}
        /\ (Method(stage) # "roots" => host.applied)
    BY <2>2 DEF Sent, Method
  <2>4. QED
    BY <1>1, <2>1, <2>2, <2>3, SkillsSent
<1>3. CASE ~(host.desired # None)
  BY <1>1, <1>3, SkillsContinue DEF Initialized
<1>4. QED
  BY <1>2, <1>3

LEMMA RootsSetSkills ==
  ASSUME IInv, IInv', Skilled, NEW c \in Calls, RootsSet(c) PROVE Skilled'
<1>1. call[c].stage \in {"iroots", "roots"} /\ call[c].ans # "none" /\ call[c] \in Call
      /\ call[c].proc \in Procs /\ proc[call[c].proc].open
  BY Begun DEF RootsSet, Answered, Open
<1>2. host.desired \in Skills /\ host'.desired = host.desired
  BY DEF IInv, TypeOK, HostState, RootsSet
<1>3. PICK stage \in {"ilist", "list"} :
         /\ Sends(c, call[c], call[c].proc, stage, host.desired)
         /\ stage = "list" => call[c].stage = "roots"
  BY DEF RootsSet
<1>4. stage \in Sent /\ stage # "turn" /\ stage # "roots" /\ call[c].stage \in SkillStages
  BY <1>1, <1>3 DEF Sent, SkillStages
<1>5. stage = "list" => call[c].config = host.desired
  BY <1>1, <1>3 DEF Skilled, Wanted
<1>6. QED
  BY <1>1, <1>2, <1>3, <1>4, <1>5, SkillsSent

LEMMA SkillsListedSkills ==
  ASSUME IInv, IInv', Skilled, NEW c \in Calls, SkillsListed(c) PROVE Skilled'
<1>1. /\ call[c].ans # "none" /\ call[c] \in Call /\ call[c].op # "none" /\ call[c].proc \in Procs
      /\ Continues(c, call[c], call[c].proc)
  BY Begun DEF SkillsListed, Answered
<1>2. QED
  BY <1>1, SkillsContinue

LEMMA PromptSentSkills ==
  ASSUME IInv, IInv', Skilled, NEW c \in Calls, PromptSent(c) PROVE Skilled'
<1>1. call[c].stage = "list" /\ call[c].ans # "none" /\ host' = host /\ call[c] \in Call
      /\ call[c].proc \in Procs /\ proc[call[c].proc].open
      /\ Sends(c, call[c], host.child, "turn", None)
  BY Begun DEF PromptSent, Answered, Open
<1>2. host.child = call[c].proc /\ call[c].config = host.desired
  BY <1>1, OneOpen DEF Skilled, Wanted
<1>3. "turn" \in Sent /\ None \in Skills /\ Method("turn") = "turn" /\ call[c].stage \in SkillStages
  BY <1>1 DEF Sent, Skills, Method, SkillStages
<1>4. QED
  BY <1>1, <1>2, <1>3, SkillsSent

LEMMA CallOnLiveSkills ==
  ASSUME IInv, IInv', Skilled, NEW c \in Calls, NEW op \in Ops,
         NEW config \in (IF op = "turn" THEN Configs ELSE {None}), CallOnLive(c, op, config)
  PROVE  Skilled'
<1> DEFINE record == [NoCall EXCEPT !.op = op, !.config = config]
<1>1. record \in Call /\ record.op # "none"
  <2>1. config \in Skills
    BY DEF Skills
  <2>2. QED
    BY <2>1 DEF NoCall, Call, Ops, None
<1>2. call[c].stage = "idle" /\ Continues(c, record, host.child) /\ host.child \in Procs
  BY DEF CallOnLive, Begins, NoCall, Live, IInv, TypeOK, HostState
<1> HIDE DEF record
<1>3. QED
  BY <1>1, <1>2, SkillsContinue

\* A process that was just spawned has not been asked anything but to initialize.
LEMMA CallSpawnsSkills ==
  ASSUME IInv, IInv', Skilled, None \notin Procs, NEW c \in Calls, NEW op, NEW config,
         CallSpawns(c, op, config)
  PROVE  Skilled'
<1> DEFINE record == [NoCall EXCEPT !.op = op, !.config = config]
<1>1. /\ Spawns(c, record) /\ proc \in [Procs -> Process] /\ call \in [Calls -> Call] /\ Quiet
  BY DEF CallSpawns, Begins, IInv, TypeOK
<1>2. \A o \in Procs : ~proc[o].open
  BY DEF CallSpawns, Live, IInv, Life, OneProcess
<1> HIDE DEF record
<1> DEFINE req == [id |-> 1, method |-> "init", config |-> None, by |-> c]
           spawned == [NoProc EXCEPT !.state = "alive", !.open = TRUE, !.nextId = 2,
                         !.pending = <<c>>, !.wire = <<req>>]
<1>3. PICK p \in Procs :
         /\ proc[p].state = "unborn"
         /\ call' = [call EXCEPT ![c] = [record EXCEPT !.stage = "init", !.proc = p]]
         /\ proc' = [proc EXCEPT ![p] = spawned]
         /\ host' = Spawned(p)
  BY <1>1 DEF Spawns
<1>4. spawned.wire = <<req>> /\ req.method = "init" /\ spawned.open
  BY DEF NoProc
<1>5. host'.applied = FALSE
  BY <1>3 DEF Spawned, IInv, TypeOK, HostState
<1>6. proc'[p] = spawned /\ \A o \in Procs : o # p => proc'[o] = proc[o]
  BY <1>1, <1>3
<1>7. ASSUME NEW d \in Calls, call'[d].proc = p, call'[d].stage # "idle"
      PROVE  call'[d].stage = "init"
  <2>1. CASE d # c
    <3>1. call'[d] = call[d]
      BY <1>1, <1>3, <2>1
    <3>2. QED
      BY <1>3, <1>7, <3>1 DEF IInv, Stages
  <2>2. CASE d = c
    <3>1. call'[c] = [record EXCEPT !.stage = "init", !.proc = p]
      BY <1>1, <1>3
    <3>2. QED
      BY <2>2, <3>1 DEF record, NoCall
  <2>3. QED
    BY <2>1, <2>2
<1>8. \A d \in Calls : call'[d].ans = "none"
  <2>1. call'[c] = [record EXCEPT !.stage = "init", !.proc = p]
    BY <1>1, <1>3
  <2>2. call'[c].ans = "none"
    BY <2>1 DEF record, NoCall
  <2>3. \A d \in Calls : d # c => call'[d] = call[d]
    BY <1>1, <1>3
  <2>4. QED
    BY <1>1, <2>2, <2>3 DEF Quiet
<1>9. Len(<<req>>) = 1 /\ <<req>>[1] = req
  OBVIOUS
<1> HIDE DEF req, spawned
<1>10. Emptied'
  BY <1>4, <1>6 DEF Skilled, Emptied
<1>11. ASSUME NEW o \in Procs PROVE Prompted(proc'[o], call')
  <2>1. CASE o # p
    <3>1. proc'[o].wire = <<>>
      BY <1>2, <1>6, <2>1 DEF Skilled, Emptied
    <3>2. Len(proc'[o].wire) = 0
      BY <3>1
    <3>3. QED
      BY <3>2 DEF Prompted
  <2>2. CASE o = p
    <3>1. proc'[o].wire = <<req>>
      BY <1>4, <1>6, <2>2
    <3>2. \A i \in 1..Len(proc'[o].wire) : proc'[o].wire[i].method = "init"
      BY <1>4, <1>9, <3>1
    <3>3. QED
      BY <3>2 DEF Prompted
  <2>3. QED
    BY <2>1, <2>2
<1>12. ASSUME NEW o \in Procs PROVE Equipped(o, proc'[o], call', host')
  <2>1. CASE o # p
    BY <1>2, <1>6, <2>1 DEF Equipped
  <2>2. CASE o = p
    BY <1>5, <1>7, <2>2 DEF Equipped, SkillStages
  <2>3. QED
    BY <2>1, <2>2
<1>13. Wanted'
  <2> SUFFICES ASSUME NEW d \in Calls, call'[d].stage \in {"roots", "list"},
                      proc'[call'[d].proc].open
               PROVE  FALSE
    BY DEF Wanted
  <2>1. call'[d].proc \in Procs
    BY DEF IInv, Stages
  <2>2. call'[d].proc = p
    BY <1>2, <1>6, <2>1
  <2>3. QED
    BY <1>7, <2>2
<1>14. Connected'
  BY <1>8 DEF Connected
<1>15. QED
  BY <1>10, <1>11, <1>12, <1>13, <1>14 DEF Skilled

\* The only connection is closed.
LEMMA OneClosed ==
  ASSUME IInv, NEW p \in Procs, NEW r, proc' = [proc EXCEPT ![p] = r],
         ~r.open, r.pending = <<>>, r.wire = <<>>, Emptied,
         \A o \in Procs : proc[o].open => o = p
  PROVE  \A o \in Procs : ~proc'[o].open /\ proc'[o].pending = <<>> /\ proc'[o].wire = <<>>
<1>1. proc'[p] = r /\ \A o \in Procs : o # p => proc'[o] = proc[o]
  BY DEF IInv, TypeOK
<1>2. QED
  BY <1>1 DEF Emptied

LEMMA ResponseSkills ==
  ASSUME IInv, IInv', Skilled, NEW p \in Procs, HandleResponse(p) PROVE Skilled'
<1> DEFINE q == proc[p]
           l == Head(proc[p].out)
           c == proc[p].pending[l.id]
           r == [proc[p] EXCEPT !.out = Tail(proc[p].out),
                   !.pending = Restrict(proc[p].pending, DOMAIN proc[p].pending \ {l.id})]
           w == IF l.ok THEN "ok" ELSE "error"
<1>1. /\ q \in Process /\ Waited(p, q, call) /\ call \in [Calls -> Call] /\ proc \in [Procs -> Process]
  BY DEF IInv, TypeOK, Connections
<1>2. /\ q.open /\ l.id \in DOMAIN q.pending
      /\ call' = [call EXCEPT ![c] = [call[c] EXCEPT !.ans = w, !.turn = l.turn]]
      /\ proc' = [proc EXCEPT ![p] = r] /\ host' = host
  BY DEF HandleResponse, Arrives
<1>3. c \in Calls /\ call[c].proc = p
  BY <1>1, <1>2, PendingCalls DEF Waited
<1>4. r.wire = q.wire /\ r.roots = q.roots /\ r.refused = q.refused /\ r.open = q.open
  BY <1>1 DEF Process
<1>5. \A o \in Procs : o # p => proc'[o] = proc[o]
  BY <1>1, <1>2
<1>6. proc'[p] = r
  BY <1>1, <1>2
<1> HIDE DEF r, w, l
<1>7. \A o \in Procs :
         /\ proc'[o].wire = proc[o].wire /\ proc'[o].roots = proc[o].roots
         /\ proc'[o].refused = proc[o].refused /\ proc'[o].open = proc[o].open
         /\ ~proc[o].open => proc'[o].pending = proc[o].pending
  BY <1>2, <1>4, <1>5, <1>6
<1>8. /\ \A d \in Calls : d # c => call'[d] = call[d]
      /\ call'[c].stage = call[c].stage /\ call'[c].config = call[c].config
      /\ call'[c].proc = call[c].proc
  <2> DEFINE k == [call[c] EXCEPT !.ans = w, !.turn = l.turn]
  <2>1. k.stage = call[c].stage /\ k.config = call[c].config /\ k.proc = call[c].proc
    BY <1>1, <1>3 DEF Call
  <2> HIDE DEF c, k
  <2>2. call' = [call EXCEPT ![c] = k]
    BY <1>2 DEF k
  <2>3. QED
    BY <1>1, <1>3, <2>1, <2>2
<1>9. proc[call[c].proc].open
  BY <1>2, <1>3
<1> HIDE DEF c, q
<1>10. \A d \in Calls :
         /\ call'[d].stage = call[d].stage /\ call'[d].config = call[d].config
         /\ call'[d].proc = call[d].proc
         /\ call'[d].ans # "none" => call[d].ans # "none" \/ proc[call[d].proc].open
  BY <1>8, <1>9
<1>11. host'.desired = host.desired /\ host'.applied = host.applied
  BY <1>2
<1>12. QED
  BY <1>7, <1>10, <1>11, SkillsQuiet

\* The lines that came, or are said, are no requests.
LEMMA LinesSkills ==
  ASSUME IInv, IInv', Skilled, NEW p \in Procs,
         \/ HandleMessage(p) \/ HandleTurnCompleted(p) \/ HandleInvalidNotification(p)
         \/ ServerStreams(p) \/ (\E ok \in BOOLEAN : ServerCompletesTurn(p, ok)) \/ OtherExits(p)
  PROVE  Skilled'
<1>1. proc \in [Procs -> Process] /\ call \in [Calls -> Call] /\ host \in HostState
  BY DEF IInv, TypeOK
<1>2. \A o \in Procs :
         /\ proc'[o].wire = proc[o].wire /\ proc'[o].roots = proc[o].roots
         /\ proc'[o].refused = proc[o].refused /\ proc'[o].open = proc[o].open
         /\ proc'[o].pending = proc[o].pending
  <2>1. CASE HandleMessage(p)
    BY <1>1, <2>1 DEF HandleMessage, Process
  <2>2. CASE HandleTurnCompleted(p)
    BY <1>1, <2>2 DEF HandleTurnCompleted, Process
  <2>3. CASE HandleInvalidNotification(p)
    BY <2>3 DEF HandleInvalidNotification
  <2>4. CASE ServerStreams(p)
    BY <1>1, <2>4 DEF ServerStreams, Process
  <2>5. ASSUME NEW ok \in BOOLEAN, ServerCompletesTurn(p, ok)
        PROVE  \A o \in Procs :
                 /\ proc'[o].wire = proc[o].wire /\ proc'[o].roots = proc[o].roots
                 /\ proc'[o].refused = proc[o].refused /\ proc'[o].open = proc[o].open
                 /\ proc'[o].pending = proc[o].pending
    BY <1>1, <2>5 DEF ServerCompletesTurn, Process
  <2>6. CASE OtherExits(p)
    BY <1>1, <2>6 DEF OtherExits, Process
  <2>7. QED
    BY <2>1, <2>2, <2>3, <2>4, <2>5, <2>6
<1>3. ASSUME NEW d \in Calls PROVE call'[d] = call[d] \/ call'[d].stage = "wait"
  <2>1. CASE HandleTurnCompleted(p)
    BY <1>1, <2>1 DEF HandleTurnCompleted, Call
  <2>2. CASE HandleInvalidNotification(p)
    BY <1>1, <2>2 DEF HandleInvalidNotification, RejectActiveTurn, Call
  <2>3. CASE ~HandleTurnCompleted(p) /\ ~HandleInvalidNotification(p)
    BY <2>3 DEF HandleMessage, ServerStreams, ServerCompletesTurn, OtherExits
  <2>4. QED
    BY <2>1, <2>2, <2>3
<1>4. host'.desired = host.desired /\ host'.applied = host.applied
  <2>1. CASE HandleMessage(p)
    BY <1>1, <2>1 DEF HandleMessage, HostState
  <2>2. CASE HandleTurnCompleted(p)
    BY <1>1, <2>2 DEF HandleTurnCompleted, HostState
  <2>3. CASE ~HandleTurnCompleted(p) /\ ~HandleMessage(p)
    BY <2>3 DEF HandleInvalidNotification, ServerStreams, ServerCompletesTurn, OtherExits
  <2>4. QED
    BY <2>1, <2>2, <2>3
<1>5. QED
  BY <1>2, <1>3, <1>4, SkillsQuiet

LEMMA ServedSkills ==
  ASSUME IInv, IInv', Skilled, NEW p \in Procs,
         ServerRefuses(p) \/ ServerAnswers(p) \/ ServerStartsTurn(p)
  PROVE  Skilled'
<1>1. proc[p] \in Process /\ proc[p].wire # <<>> /\ call' = call /\ host' = host
  BY DEF IInv, TypeOK, ServerRefuses, ServerAnswers, ServerStartsTurn
<1>2. Head(proc[p].wire) = proc[p].wire[1]
  BY <1>1, LineTypes
<1>3. PICK r :
         /\ proc' = [proc EXCEPT ![p] = r]
         /\ r.wire = Tail(proc[p].wire) /\ r.open = proc[p].open /\ r.pending = proc[p].pending
         /\ ~r.refused => ~proc[p].refused
         /\ ~r.refused /\ proc[p].wire[1].method = "roots" => r.roots = proc[p].wire[1].config
         /\ proc[p].wire[1].method # "roots" => r.roots = proc[p].roots
  <2>1. CASE ServerRefuses(p)
    <3> DEFINE r == [proc[p] EXCEPT !.wire = Tail(proc[p].wire),
                       !.refused = proc[p].refused \/ Head(proc[p].wire).method = "roots",
                       !.out = Append(proc[p].out, Answer(Head(proc[p].wire), FALSE, None))]
    <3>1. proc' = [proc EXCEPT ![p] = r]
      BY <2>1 DEF ServerRefuses
    <3>2. /\ r.wire = Tail(proc[p].wire) /\ r.open = proc[p].open /\ r.pending = proc[p].pending
          /\ r.roots = proc[p].roots
          /\ r.refused = (proc[p].refused \/ Head(proc[p].wire).method = "roots")
      BY <1>1 DEF Process
    <3> HIDE DEF r
    <3>3. QED
      BY <1>2, <3>1, <3>2
  <2>2. CASE ServerAnswers(p)
    <3> DEFINE roots == IF Head(proc[p].wire).method = "roots"
                        THEN Head(proc[p].wire).config ELSE proc[p].roots
               r == [proc[p] EXCEPT !.wire = Tail(proc[p].wire), !.roots = roots,
                       !.loaded = proc[p].loaded \/ Head(proc[p].wire).method \in {"start", "resume"},
                       !.out = Append(proc[p].out, Answer(Head(proc[p].wire), TRUE, None))]
    <3>1. proc' = [proc EXCEPT ![p] = r]
      BY <2>2 DEF ServerAnswers
    <3>2. /\ r.wire = Tail(proc[p].wire) /\ r.open = proc[p].open /\ r.pending = proc[p].pending
          /\ r.roots = roots /\ r.refused = proc[p].refused
      BY <1>1 DEF Process
    <3> HIDE DEF r
    <3>3. QED
      BY <1>2, <3>1, <3>2
  <2>3. CASE ServerStartsTurn(p)
    <3> DEFINE r == [proc[p] EXCEPT !.wire = Tail(proc[p].wire), !.turn = turns + 1, !.sent = 0,
                       !.out = Append(proc[p].out, Answer(Head(proc[p].wire), TRUE, turns + 1))]
    <3>1. proc' = [proc EXCEPT ![p] = r] /\ Head(proc[p].wire).method = "turn"
      BY <2>3 DEF ServerStartsTurn
    <3>2. /\ r.wire = Tail(proc[p].wire) /\ r.open = proc[p].open /\ r.pending = proc[p].pending
          /\ r.roots = proc[p].roots /\ r.refused = proc[p].refused
      BY <1>1 DEF Process
    <3> HIDE DEF r
    <3>3. QED
      BY <1>2, <3>1, <3>2
  <2>4. QED
    BY <2>1, <2>2, <2>3
<1>4. QED
  BY <1>1, <1>3, SkillsServed, ZenonT(30)

\* The end of the connection: everything that was asked is gone with it.
LEMMA ClosedSkills ==
  ASSUME IInv, IInv', Skilled, None \notin Procs,
         \/ \E p \in Procs : HandleMalformed(p) \/ ProcessExits(p)
         \/ \E c \in Calls : InitializeFails(c)
         \/ Shutdown
  PROVE  Skilled'
<1>1. Emptied /\ proc \in [Procs -> Process]
  BY DEF Skilled, IInv, TypeOK
<1>2. ASSUME NEW p \in Procs, HandleMalformed(p)
      PROVE  \A o \in Procs : ~proc'[o].open /\ proc'[o].pending = <<>> /\ proc'[o].wire = <<>>
  <2>1. proc' = [proc EXCEPT ![p] = Failed(p)] /\ proc[p].open
    BY <1>2 DEF HandleMalformed, Arrives
  <2>2. QED
    BY <1>1, <2>1, FailedIs, OneOpen, OneClosed
<1>3. ASSUME NEW p \in Procs, ProcessExits(p)
      PROVE  \A o \in Procs : ~proc'[o].open /\ proc'[o].pending = <<>> /\ proc'[o].wire = <<>>
  <2> DEFINE r == [Failed(p) EXCEPT !.state = "crashed"]
  <2>1. proc' = [proc EXCEPT ![p] = r] /\ host.child = p
    BY <1>3 DEF ProcessExits
  <2>2. ~r.open /\ r.pending = <<>> /\ r.wire = <<>>
    BY FailedIs DEF Process
  <2> HIDE DEF r
  <2>3. \A o \in Procs : proc[o].open => o = p
    BY <2>1, OneOpen
  <2>4. QED
    BY <1>1, <2>1, <2>2, <2>3, OneClosed
<1>4. ASSUME NEW c \in Calls, InitializeFails(c)
      PROVE  \A o \in Procs : ~proc'[o].open /\ proc'[o].pending = <<>> /\ proc'[o].wire = <<>>
  <2> DEFINE p == call[c].proc
  <2>1. /\ call[c].stage \in {"init", "iroots", "ilist"} /\ call[c].ans # "none"
        /\ proc' = [proc EXCEPT ![p] = Killed(p)]
    BY <1>4 DEF InitializeFails, GivenUp
  <2>2. p \in Procs
    BY <2>1 DEF IInv, Stages
  <2>3. \A o \in Procs : proc[o].open => o = p
    BY <2>1 DEF Skilled, Connected
  <2> HIDE DEF p
  <2>4. QED
    BY <1>1, <2>1, <2>2, <2>3, KilledIs, OneClosed
<1>5. ASSUME Shutdown
      PROVE  \A o \in Procs : ~proc'[o].open /\ proc'[o].pending = <<>> /\ proc'[o].wire = <<>>
  <2>1. CASE host.child # None
    <3> DEFINE p == host.child
    <3>1. proc' = [proc EXCEPT ![p] = Killed(p)] /\ p \in Procs
      BY <1>5, <2>1 DEF Shutdown, IInv, TypeOK, HostState
    <3>2. \A o \in Procs : proc[o].open => o = p
      BY OneOpen
    <3> HIDE DEF p
    <3>3. QED
      BY <1>1, <3>1, <3>2, KilledIs, OneClosed
  <2>2. CASE host.child = None
    <3>1. proc' = proc
      BY <1>5, <2>2 DEF Shutdown
    <3>2. \A o \in Procs : ~proc[o].open
      BY <2>2, OneOpen
    <3>3. QED
      BY <1>1, <3>1, <3>2 DEF Emptied
  <2>3. QED
    BY <2>1, <2>2
<1>6. QED
  BY <1>2, <1>3, <1>4, <1>5, SkillsClosed

\* A call waits for its turn, or ends.
LEMMA OverSkills ==
  ASSUME IInv, IInv', Skilled, NEW c \in Calls,
         \/ TurnStarted(c) \/ TurnReturns(c) \/ TurnThrows(c)
         \/ ThreadAttached(c) \/ ReadAnswered(c) \/ CallThrows(c)
  PROVE  Skilled'
<1>1. call \in [Calls -> Call] /\ host \in HostState
  BY DEF IInv, TypeOK
<1>2. proc' = proc
  BY DEF TurnStarted, TurnReturns, TurnThrows, ThreadAttached, ReadAnswered, CallThrows
<1>3. \A d \in Calls : call'[d] = call[d] \/ call'[d].stage \in {"idle", "wait"}
  <2>1. NoCall.stage = "idle"
    BY DEF NoCall
  <2>2. CASE TurnStarted(c)
    <3> DEFINE k == [call[c] EXCEPT !.stage = "wait", !.ans = WaitForTurn(c, call[c].turn)]
    <3>1. call' = [call EXCEPT ![c] = k]
      BY <2>2 DEF TurnStarted
    <3>2. k.stage = "wait"
      BY <1>1 DEF Call
    <3> HIDE DEF k
    <3>3. QED
      BY <1>1, <3>1, <3>2
  <2>3. CASE ~TurnStarted(c)
    <3>1. Ends(c)
      BY <2>3 DEF TurnReturns, TurnThrows, ThreadAttached, ReadAnswered, CallThrows
    <3>2. QED
      BY <1>1, <2>1, <3>1 DEF Ends
  <2>4. QED
    BY <2>2, <2>3
<1>4. host'.desired = host.desired
      /\ (host'.applied = host.applied \/ \A p \in Procs : ~proc[p].open)
  <2>1. CASE TurnStarted(c)
    BY <1>1, <2>1 DEF TurnStarted, HostState
  <2>2. CASE TurnReturns(c) \/ TurnThrows(c)
    BY <1>1, <2>2 DEF TurnReturns, TurnThrows, TurnForgotten, HostState
  <2>3. CASE ThreadAttached(c)
    BY <1>1, <2>3 DEF ThreadAttached, HostState
  <2>4. CASE ReadAnswered(c)
    BY <2>4 DEF ReadAnswered
  <2>5. CASE CallThrows(c)
    <3>1. CASE Answered(c, {"roots"})
      <4>1. host'.desired = host.desired
        BY <1>1, <2>5, <3>1 DEF CallThrows, HostState
      <4>2. call[c].stage = "roots" /\ call[c].ans = "ok" /\ ~proc[call[c].proc].open
        BY <2>5, <3>1 DEF CallThrows, Answered, Open
      <4>3. \A p \in Procs : ~proc[p].open
        BY <4>2 DEF Skilled, Connected
      <4>4. QED
        BY <4>1, <4>3
    <3>2. CASE ~Answered(c, {"roots"})
      BY <2>5, <3>2 DEF CallThrows
    <3>3. QED
      BY <3>1, <3>2
  <2>6. QED
    BY <2>1, <2>2, <2>3, <2>4, <2>5
<1>5. QED
  BY <1>2, <1>3, <1>4, SkillsQuiet

\* Every step keeps a turn with its skills.
LEMMA SkillsKept ==
  ASSUME IInv, IInv', Skilled, None \notin Procs, [Next]_vars PROVE Skilled'
<1>1. CASE ConnectionSteps
  BY <1>1, ResponseSkills, ClosedSkills, LinesSkills DEF ConnectionSteps
<1>2. CASE ServerSteps
  BY <1>2, ServedSkills, LinesSkills DEF ServerSteps
<1>3. CASE HostSteps
  <2>1. ASSUME NEW c \in Calls, NEW op \in Ops,
               NEW config \in (IF op = "turn" THEN Configs ELSE {None}),
               CallOnLive(c, op, config) \/ CallSpawns(c, op, config)
        PROVE  Skilled'
    BY <2>1, CallOnLiveSkills, CallSpawnsSkills
  <2>2. ASSUME NEW c \in Calls,
               \/ Initialized(c) \/ RootsSet(c) \/ SkillsListed(c) \/ InitializeFails(c)
               \/ PromptSent(c) \/ TurnStarted(c) \/ TurnReturns(c) \/ TurnThrows(c)
               \/ ThreadAttached(c) \/ ReadAnswered(c) \/ CallThrows(c)
        PROVE  Skilled'
    BY <2>2, InitializedSkills, RootsSetSkills, SkillsListedSkills, ClosedSkills,
       PromptSentSkills, OverSkills
  <2>3. ASSUME NEW p \in Procs, ProcessExits(p) \/ OtherExits(p) PROVE Skilled'
    BY <2>3, ClosedSkills, LinesSkills
  <2>4. QED
    BY <1>3, <2>1, <2>2, <2>3, ClosedSkills DEF HostSteps, Ops
<1>4. CASE UNCHANGED vars
  <2>1. proc' = proc /\ call' = call /\ host' = host
    BY <1>4 DEF vars
  <2>2. QED
    BY <2>1, SkillsQuiet
<1>5. QED
  BY <1>1, <1>2, <1>3, <1>4 DEF Next

-----------------------------------------------------------------------------
(* The reply is whole.                                                     *)

\* What was said about a turn before the n-th line makes its text whole: a completed item
\* came after the last delta, or the text is whole and no delta came.
Lines(q, kind, t) == {k \in 1..Len(q.out) : q.out[k].kind = kind /\ q.out[k].turn = t}
IsWhole(q, n, t, whole) == Lasts(Lines(q, "item", t), Lines(q, "delta", t), n, whole)

\* A process works on a turn, or has said something about it.
Names(q, t) == t # None /\ (q.turn = t \/ \E i \in 1..Len(q.out) : q.out[i].turn = t)

\* Nothing is said about a turn after its end.
Ended(q) ==
    \A i \in 1..Len(q.out) : q.out[i].kind = "done" =>
       /\ q.out[i].turn # None /\ q.out[i].turn # q.turn
       /\ \A k \in 1..Len(q.out) : k > i => q.out[k].turn # q.out[i].turn

\* A turn is ended well when its text is whole.
Saying(q, t) == q.open /\ q.turn = t /\ q.sent > Pieces
Told(q, t, whole) ==
    /\ Saying(q, t) => IsWhole(q, Len(q.out) + 1, t, whole)
    /\ \A i \in 1..Len(q.out) :
          q.out[i].kind = "done" /\ q.out[i].ok /\ q.out[i].turn = t => IsWhole(q, i, t, whole)

\* The first line is handled.
LEMMA WholeRest ==
  ASSUME NEW q \in Process, NEW r, q.out # <<>>, r.out = Tail(q.out), NEW t, NEW whole, NEW now,
         q.out[1].kind = "item" /\ q.out[1].turn = t => now,
         ~(q.out[1].kind \in {"delta", "item"} /\ q.out[1].turn = t) /\ whole => now,
         NEW n \in Nat \ {0}, IsWhole(q, n + 1, t, whole)
  PROVE  IsWhole(r, n, t, now)
<1> DEFINE s == q.out
<1>1. /\ Len(s) \in Nat /\ 1 \in 1..Len(s)
      /\ \A j \in 1..Len(r.out) : j + 1 \in 1..Len(s) /\ r.out[j] = s[j + 1]
      /\ \A j \in 1..Len(s) : j # 1 => j - 1 \in 1..Len(r.out) /\ s[j] = r.out[j - 1]
      /\ Len(r.out) \in Nat
  <2>1. s \in Seq(Line) /\ s # <<>> /\ r.out = Tail(s)
    BY DEF Process
  <2> HIDE DEF s
  <2>2. /\ Len(s) \in Nat /\ 1 \in 1..Len(s) /\ Tail(s) \in Seq(Line)
        /\ \A j \in 1..Len(Tail(s)) : j + 1 \in 1..Len(s) /\ Tail(s)[j] = s[j + 1]
        /\ \A j \in 1..Len(s) : j # 1 => j - 1 \in 1..Len(Tail(s)) /\ s[j] = Tail(s)[j - 1]
    BY <2>1, Rest
  <2>3. Len(Tail(s)) \in Nat
    BY <2>2
  <2>4. QED
    BY <2>1, <2>2, <2>3
<1>2. \A kind : Lines(q, kind, t) \in SUBSET Nat /\ 0 \notin Lines(q, kind, t)
  BY DEF Lines
<1>3. ASSUME NEW k \in Nat \ {0}, NEW kind
      PROVE  k \in Lines(r, kind, t) <=> k + 1 \in Lines(q, kind, t)
  <2>1. ASSUME k + 1 \in 1..Len(s) PROVE k \in 1..Len(r.out) /\ r.out[k] = s[k + 1]
    <3>1. k + 1 # 1 /\ (k + 1) - 1 = k
      OBVIOUS
    <3> HIDE DEF s
    <3>2. QED
      BY <1>1, <2>1, <3>1
  <2>2. QED
    BY <1>1, <2>1 DEF Lines
<1>4. \A k \in Lines(r, "delta", t) : k \in Nat \ {0} /\ k + 1 \in Lines(q, "delta", t)
  <2>1. \A k \in Lines(r, "delta", t) : k \in Nat \ {0}
    BY <1>1 DEF Lines
  <2>2. QED
    BY <1>3, <2>1
<1>5. /\ 1 \in Lines(q, "item", t) => now
      /\ 1 \notin Lines(q, "item", t) /\ 1 \notin Lines(q, "delta", t) /\ whole => now
  BY <1>1 DEF Lines
<1>6. Lasts(Lines(q, "item", t), Lines(q, "delta", t), n + 1, whole)
  BY DEF IsWhole
<1>7. Lasts(Lines(r, "item", t), Lines(r, "delta", t), n, now)
  BY <1>2, <1>3, <1>4, <1>5, <1>6, LastsRest
<1>8. QED
  BY <1>7 DEF IsWhole

\* One line more.
LEMMA WholeMore ==
  ASSUME NEW q \in Process, NEW r, NEW l \in Line, r.out = Append(q.out, l), NEW t, NEW whole
  PROVE  /\ \A n \in 1..(Len(q.out) + 1) : IsWhole(q, n, t, whole) => IsWhole(r, n, t, whole)
         /\ ~(l.kind = "delta" /\ l.turn = t) /\ IsWhole(q, Len(q.out) + 1, t, whole)
               => IsWhole(r, Len(r.out) + 1, t, whole)
         /\ l.kind = "item" /\ l.turn = t => IsWhole(r, Len(r.out) + 1, t, whole)
<1> DEFINE N == Len(q.out)
<1>1. /\ N \in Nat /\ Len(r.out) = N + 1 /\ r.out[N + 1] = l
      /\ \A j \in 1..N : j \in 1..Len(r.out) /\ r.out[j] = q.out[j]
      /\ \A j \in 1..Len(r.out) : j \in 1..N \/ j = N + 1
      /\ N + 1 \in 1..Len(r.out)
  <2>1. q.out \in Seq(Line)
    BY DEF Process
  <2> HIDE DEF N
  <2>2. QED
    BY <2>1, More DEF N
<1>2. \A kind : Lines(q, kind, t) \in SUBSET Nat /\ Lines(r, kind, t) \in SUBSET Nat
  BY DEF Lines
<1>3. /\ \A k \in Lines(q, "item", t) : k \in Lines(r, "item", t)
      /\ \A k : k < N + 1 /\ k \in Lines(r, "delta", t) => k \in Lines(q, "delta", t)
  BY <1>1 DEF Lines
<1> HIDE DEF N
<1>4. ASSUME NEW n \in 1..(N + 1), IsWhole(q, n, t, whole) PROVE IsWhole(r, n, t, whole)
  <2>1. \A k : k < n /\ k \in Lines(r, "delta", t) => k \in Lines(q, "delta", t)
    <3> SUFFICES ASSUME NEW k \in Lines(r, "delta", t), k < n PROVE k \in Lines(q, "delta", t)
      OBVIOUS
    <3>1. k < N + 1
      BY <1>1, <1>2
    <3>2. QED
      BY <1>3, <3>1
  <2>2. QED
    BY <1>3, <1>4, <2>1, LastsSame DEF IsWhole
<1>5. ASSUME ~(l.kind = "delta" /\ l.turn = t), IsWhole(q, N + 1, t, whole)
      PROVE  IsWhole(r, (N + 1) + 1, t, whole)
  <2>1. N + 1 \notin Lines(r, "delta", t)
    BY <1>1, <1>5 DEF Lines
  <2>2. N + 1 \in Nat
    BY <1>1
  <2>3. Lasts(Lines(q, "item", t), Lines(q, "delta", t), N + 1, whole)
    BY <1>5 DEF IsWhole
  <2>4. Lasts(Lines(r, "item", t), Lines(r, "delta", t), (N + 1) + 1, whole)
    BY <1>2, <1>3, <2>1, <2>2, <2>3, LastsMore
  <2>5. QED
    BY <2>4 DEF IsWhole
<1>6. ASSUME l.kind = "item", l.turn = t PROVE IsWhole(r, (N + 1) + 1, t, whole)
  <2>1. N + 1 \in Lines(r, "item", t) /\ N + 1 \notin Lines(r, "delta", t) /\ N + 1 \in Nat
    BY <1>1, <1>6 DEF Lines
  <2>2. QED
    BY <1>2, <2>1, LastsGood DEF IsWhole
<1>7. QED
  BY <1>1, <1>4, <1>5, <1>6 DEF N

\* The first line of a connection is handled.
LEMMA LineTaken ==
  ASSUME NEW q \in Process, NEW r, q.out # <<>>, r.out = Tail(q.out), r.turn = q.turn,
         r.open = q.open, r.sent = q.sent, Ended(q)
  PROVE  /\ Ended(r) /\ \A t : Names(r, t) => Names(q, t)
         /\ q.out[1].kind = "done" => q.out[1].turn # None /\ ~Names(r, q.out[1].turn)
         /\ q.out[1].turn # None => Names(q, q.out[1].turn)
         /\ \A t, whole, now :
               /\ q.out[1].kind = "item" /\ q.out[1].turn = t => now
               /\ ~(q.out[1].kind \in {"delta", "item"} /\ q.out[1].turn = t) /\ whole => now
               /\ Told(q, t, whole)
               => Told(r, t, now)
         /\ \A t, whole : Told(q, t, whole) /\ q.out[1].kind = "done" /\ q.out[1].ok
                          /\ q.out[1].turn = t => whole
<1> DEFINE s == q.out
<1>1. /\ Len(s) \in Nat /\ 1 \in 1..Len(s)
      /\ \A j \in 1..Len(r.out) : j + 1 \in 1..Len(s) /\ j + 1 > 1 /\ r.out[j] = s[j + 1]
      /\ Len(r.out) \in Nat /\ Len(s) + 1 = (Len(r.out) + 1) + 1
  <2>1. s \in Seq(Line) /\ s # <<>> /\ r.out = Tail(s)
    BY DEF Process
  <2> HIDE DEF s
  <2>2. /\ Len(s) \in Nat /\ 1 \in 1..Len(s) /\ Len(Tail(s)) = Len(s) - 1
        /\ \A j \in 1..Len(Tail(s)) : j + 1 \in 1..Len(s) /\ j + 1 > 1 /\ Tail(s)[j] = s[j + 1]
    BY <2>1, Rest
  <2>3. Len(s) - 1 \in Nat /\ Len(s) + 1 = ((Len(s) - 1) + 1) + 1
    BY <2>2
  <2>4. QED
    BY <2>1, <2>2, <2>3
<1>2. Ended(r)
  <2> SUFFICES ASSUME NEW i \in 1..Len(r.out), r.out[i].kind = "done"
               PROVE  /\ r.out[i].turn # None /\ r.out[i].turn # r.turn
                      /\ \A k \in 1..Len(r.out) : k > i => r.out[k].turn # r.out[i].turn
    BY DEF Ended
  <2>1. i + 1 \in 1..Len(s) /\ r.out[i] = s[i + 1] /\ s[i + 1].kind = "done"
    BY <1>1
  <2>2. ASSUME NEW k \in 1..Len(r.out), k > i PROVE r.out[k].turn # r.out[i].turn
    <3>1. k + 1 \in 1..Len(s) /\ r.out[k] = s[k + 1] /\ k + 1 > i + 1
      BY <1>1, <2>2
    <3>2. QED
      BY <2>1, <3>1 DEF Ended
  <2>3. QED
    BY <2>1, <2>2 DEF Ended
<1>3. \A t : Names(r, t) => Names(q, t)
  BY <1>1 DEF Names
<1>4. ASSUME q.out[1].kind = "done" PROVE q.out[1].turn # None /\ ~Names(r, q.out[1].turn)
  <2>1. /\ q.out[1].turn # None /\ q.out[1].turn # q.turn
        /\ \A k \in 1..Len(s) : k > 1 => s[k].turn # s[1].turn
    BY <1>1, <1>4 DEF Ended
  <2>2. \A k \in 1..Len(r.out) : r.out[k].turn # s[1].turn
    BY <1>1, <2>1
  <2>3. QED
    BY <2>1, <2>2 DEF Names
<1>5. q.out[1].turn # None => Names(q, q.out[1].turn)
  BY <1>1 DEF Names
<1>6. ASSUME NEW t, NEW whole, NEW now,
             q.out[1].kind = "item" /\ q.out[1].turn = t => now,
             ~(q.out[1].kind \in {"delta", "item"} /\ q.out[1].turn = t) /\ whole => now,
             Told(q, t, whole)
      PROVE  Told(r, t, now)
  <2>1. ASSUME NEW n \in Nat \ {0}, IsWhole(q, n + 1, t, whole) PROVE IsWhole(r, n, t, now)
    BY <1>6, <2>1, WholeRest
  <2>2. Saying(r, t) => Saying(q, t)
    BY DEF Saying
  <2>3. ASSUME Saying(r, t) PROVE IsWhole(r, Len(r.out) + 1, t, now)
    <3>1. IsWhole(q, (Len(r.out) + 1) + 1, t, whole) /\ Len(r.out) + 1 \in Nat \ {0}
      BY <1>1, <1>6, <2>2, <2>3 DEF Told
    <3>2. QED
      BY <2>1, <3>1
  <2>4. ASSUME NEW i \in 1..Len(r.out), r.out[i].kind = "done", r.out[i].ok, r.out[i].turn = t
        PROVE  IsWhole(r, i, t, now)
    <3>1. i + 1 \in 1..Len(s) /\ r.out[i] = s[i + 1] /\ i \in Nat \ {0}
      BY <1>1
    <3>2. IsWhole(q, i + 1, t, whole)
      BY <1>6, <2>4, <3>1 DEF Told
    <3>3. QED
      BY <2>1, <3>1, <3>2
  <2>5. QED
    BY <2>3, <2>4 DEF Told
<1>7. ASSUME NEW t, NEW whole, Told(q, t, whole), q.out[1].kind = "done", q.out[1].ok,
             q.out[1].turn = t
      PROVE  whole
  <2>1. IsWhole(q, 1, t, whole)
    BY <1>1, <1>7 DEF Told
  <2>2. \A k \in Lines(q, "item", t) : ~(k < 1)
    BY DEF Lines
  <2>3. QED
    BY <2>1, <2>2 DEF IsWhole, Lasts
<1>8. QED
  BY <1>2, <1>3, <1>4, <1>5, <1>6, <1>7

\* A line is said.
LEMMA LineSaid ==
  ASSUME NEW q \in Process, NEW r, NEW l \in Line, r.out = Append(q.out, l), Ended(q),
         \A i \in 1..Len(q.out) : q.out[i].kind = "done" =>
            q.out[i].turn # r.turn /\ q.out[i].turn # l.turn,
         l.kind = "done" => l.turn # None /\ l.turn # r.turn
  PROVE  /\ Ended(r)
         /\ \A t : Names(r, t) => Names(q, t) \/ r.turn = t \/ l.turn = t
         /\ \A t, whole :
               /\ Told(q, t, whole)
               /\ Saying(r, t) => \/ l.kind = "item" /\ l.turn = t
                                  \/ Saying(q, t) /\ ~(l.kind = "delta" /\ l.turn = t)
               /\ l.kind = "done" /\ l.ok /\ l.turn = t => Saying(q, t)
               => Told(r, t, whole)
<1> DEFINE N == Len(q.out)
<1>1. /\ N \in Nat /\ Len(r.out) = N + 1 /\ r.out[N + 1] = l
      /\ \A j \in 1..N : j \in 1..Len(r.out) /\ r.out[j] = q.out[j]
      /\ \A j \in 1..Len(r.out) : j \in 1..N \/ j = N + 1
  <2>1. q.out \in Seq(Line)
    BY DEF Process
  <2> HIDE DEF N
  <2>2. QED
    BY <2>1, More DEF N
<1>2. Ended(r)
  <2> SUFFICES ASSUME NEW i \in 1..Len(r.out), r.out[i].kind = "done"
               PROVE  /\ r.out[i].turn # None /\ r.out[i].turn # r.turn
                      /\ \A k \in 1..Len(r.out) : k > i => r.out[k].turn # r.out[i].turn
    BY DEF Ended
  <2>1. CASE i \in 1..N
    <3>1. r.out[i] = q.out[i]
      BY <1>1, <2>1
    <3>2. \A k \in 1..N : k > i => q.out[k].turn # q.out[i].turn
      BY <2>1, <3>1 DEF Ended
    <3>3. q.out[i].turn # None /\ q.out[i].turn # r.turn /\ q.out[i].turn # l.turn
      BY <2>1, <3>1 DEF Ended
    <3> HIDE DEF N
    <3>4. QED
      BY <1>1, <3>1, <3>2, <3>3
  <2>2. CASE i = N + 1
    <3>1. \A k \in 1..Len(r.out) : ~(k > i)
      BY <1>1, <2>2
    <3>2. QED
      BY <1>1, <2>2, <3>1
  <2>3. QED
    BY <1>1, <2>1, <2>2
<1>3. \A t : Names(r, t) => Names(q, t) \/ r.turn = t \/ l.turn = t
  BY <1>1 DEF Names
<1>4. ASSUME NEW t, NEW whole, Told(q, t, whole),
             Saying(r, t) => \/ l.kind = "item" /\ l.turn = t
                             \/ Saying(q, t) /\ ~(l.kind = "delta" /\ l.turn = t),
             l.kind = "done" /\ l.ok /\ l.turn = t => Saying(q, t)
      PROVE  Told(r, t, whole)
  <2>1. /\ \A n \in 1..(N + 1) : IsWhole(q, n, t, whole) => IsWhole(r, n, t, whole)
        /\ ~(l.kind = "delta" /\ l.turn = t) /\ IsWhole(q, N + 1, t, whole)
              => IsWhole(r, Len(r.out) + 1, t, whole)
        /\ l.kind = "item" /\ l.turn = t => IsWhole(r, Len(r.out) + 1, t, whole)
    BY WholeMore
  <2>2. Saying(q, t) => IsWhole(q, N + 1, t, whole)
    BY <1>4 DEF Told
  <2>3. Saying(r, t) => IsWhole(r, Len(r.out) + 1, t, whole)
    BY <1>4, <2>1, <2>2
  <2>4. ASSUME NEW i \in 1..Len(r.out), r.out[i].kind = "done", r.out[i].ok, r.out[i].turn = t
        PROVE  IsWhole(r, i, t, whole)
    <3>1. CASE i \in 1..N
      <4>1. r.out[i] = q.out[i] /\ i \in 1..(N + 1)
        BY <1>1, <3>1
      <4>2. IsWhole(q, i, t, whole)
        BY <1>4, <2>4, <3>1, <4>1 DEF Told
      <4> HIDE DEF N
      <4>3. QED
        BY <2>1, <4>1, <4>2
    <3>2. CASE i = N + 1
      <4>1. IsWhole(q, N + 1, t, whole) /\ N + 1 \in 1..(N + 1)
        BY <1>1, <1>4, <2>2, <2>4, <3>2
      <4> HIDE DEF N
      <4>2. QED
        BY <2>1, <3>2, <4>1
    <3>3. QED
      BY <1>1, <3>1, <3>2
  <2>5. QED
    BY <2>3, <2>4 DEF Told
<1>5. QED
  BY <1>2, <1>3, <1>4

\* A call that knows its turn, or whose turn is named by an answer that is on its way.
Expects(k) == \/ k.stage = "turn" /\ k.ans = "ok"
              \/ k.stage = "wait" /\ k.ans \in {"none", "ok"}
AnswerOf(q, c, t) ==
    \E i \in 1..Len(q.out) : q.out[i].kind = "answer" /\ q.out[i].by = c /\ q.out[i].turn = t
Follows(c, t) ==
    /\ t # None
    /\ \/ Expects(call[c]) /\ call[c].turn = t
       \/ /\ call[c].stage = "turn" /\ call[c].ans = "none"
          /\ AnswerOf(proc[call[c].proc], c, t)

\* Turns are numbered as they are started; one that has ended is not named any more.
Counted ==
    /\ turns <= MaxTurns
    /\ \A p \in Procs : \A t \in Nat : Names(proc[p], t) => t <= turns
    /\ \A c \in Calls : call[c].turn <= turns /\ (Expects(call[c]) => call[c].turn # None)
Apart == \A p, o \in Procs : \A t \in Nat : Names(proc[p], t) /\ Names(proc[o], t) => p = o
Kept ==
    \A e \in host.completed : /\ e[1] # None /\ e[1] <= turns
                              /\ \A p \in Procs : ~Names(proc[p], e[1])
Numbered == Counted /\ Apart /\ Kept /\ \A p \in Procs : Ended(proc[p])

\* What is said about a turn that a call follows makes its text whole before it ends well.
FollowedTurn(c, t) ==
    /\ \A p \in Procs : Names(proc[p], t) => p = call[c].proc
    /\ Told(proc[call[c].proc], t, host.text[t] = Pieces)
    /\ <<t, TRUE>> \in host.completed => host.text[t] = Pieces
    /\ call[c].stage = "wait" /\ call[c].ans = "ok" =>
          host.text[t] = Pieces /\ \A p \in Procs : ~Names(proc[p], t)
Followed == \A c \in Calls : \A t \in Nat : Follows(c, t) => FollowedTurn(c, t)

\* A connection on which nothing more is said, or which is new.
LessSaid(q, r) ==
    \/ r.out = q.out /\ r.turn = q.turn /\ r.sent = q.sent /\ (r.open => q.open)
    \/ r.out = <<>> /\ ((r.turn = q.turn /\ ~r.open) \/ r.turn = None)

LEMMA Less ==
  ASSUME NEW q, NEW r, LessSaid(q, r)
  PROVE  /\ \A t : Names(r, t) => Names(q, t)
         /\ Ended(q) => Ended(r)
         /\ \A t, whole : t # None /\ Told(q, t, whole) => Told(r, t, whole)
         /\ \A c, t : AnswerOf(r, c, t) => AnswerOf(q, c, t)
<1>1. CASE r.out = q.out /\ r.turn = q.turn /\ r.sent = q.sent /\ (r.open => q.open)
  BY <1>1 DEF Names, Ended, Told, AnswerOf, Saying, IsWhole, Lines
<1>2. CASE r.out = <<>> /\ ((r.turn = q.turn /\ ~r.open) \/ r.turn = None)
  <2>1. \A i \in 1..Len(r.out) : FALSE
    BY <1>2
  <2>2. QED
    BY <1>2, <2>1 DEF Names, Ended, Told, AnswerOf, Saying
<1>3. QED
  BY <1>1, <1>2 DEF LessSaid

\* Nothing is said; a call goes on, is rejected, does something else, asks for its turn or
\* waits for it.
LEMMA WholeQuiet ==
  ASSUME IInv, Numbered, Followed, \A p \in Procs : LessSaid(proc[p], proc'[p]),
         \A e \in host'.completed : e \in host.completed, turns' = turns,
         \A c \in Calls : call'[c].turn = call[c].turn \/ call'[c].turn = None,
         \A c \in Calls :
            \/ call'[c] = call[c]
            \/ call'[c].ans = "error"
            \/ call'[c].stage \notin {"turn", "wait"}
            \/ /\ call'[c].stage = "turn" /\ call'[c].ans = "none"
               /\ \A t \in Nat : ~AnswerOf(proc'[call'[c].proc], c, t)
            \/ /\ call'[c].stage = "wait" /\ call'[c].turn = call[c].turn
               /\ call'[c].proc = call[c].proc /\ call[c].stage = "turn" /\ call[c].ans = "ok"
               /\ call'[c].ans = "ok" => <<call[c].turn, TRUE>> \in host.completed,
         \A c \in Calls : \A t \in Nat :
            Follows(c, t) /\ call'[c].stage \in {"turn", "wait"} => host'.text[t] = host.text[t]
  PROVE  Numbered' /\ Followed'
<1>1. /\ \A p \in Procs : \A t : Names(proc'[p], t) => Names(proc[p], t)
      /\ \A p \in Procs : Ended(proc'[p])
      /\ \A p \in Procs : \A t, whole : t # None /\ Told(proc[p], t, whole) => Told(proc'[p], t, whole)
      /\ \A p \in Procs : \A c, t : AnswerOf(proc'[p], c, t) => AnswerOf(proc[p], c, t)
  BY Less DEF Numbered
<1>2. \A c \in Calls : call[c].turn \in Nat /\ turns \in Nat
  BY DEF IInv, TypeOK, Call
<1>3. Counted'
  <2>1. ASSUME NEW c \in Calls
        PROVE  call'[c].turn <= turns' /\ (Expects(call'[c]) => call'[c].turn # None)
    <3>1. call'[c].turn <= turns'
      BY <1>2 DEF Numbered, Counted, None
    <3>2. Expects(call'[c]) => Expects(call[c]) /\ call'[c].turn = call[c].turn
      BY DEF Expects
    <3>3. QED
      BY <3>1, <3>2 DEF Numbered, Counted
  <2>2. QED
    BY <1>1, <2>1 DEF Numbered, Counted
<1>4. Apart' /\ Kept'
  BY <1>1 DEF Numbered, Apart, Kept
<1>5. ASSUME NEW c \in Calls, NEW t \in Nat, Follows(c, t)'
      PROVE  FollowedTurn(c, t)'
  <2>1. t # None
    BY <1>5 DEF Follows
  <2>2. Follows(c, t) /\ call'[c].proc = call[c].proc /\ call[c].proc \in Procs
        /\ call'[c].stage \in {"turn", "wait"}
    <3>1. CASE Expects(call'[c]) /\ call'[c].turn = t
      <4>1. Expects(call[c]) /\ call[c].turn = t /\ call'[c].proc = call[c].proc
            /\ call'[c].stage \in {"turn", "wait"} /\ call[c].stage # "idle"
        BY <3>1 DEF Expects
      <4>2. QED
        BY <2>1, <4>1 DEF Follows, IInv, Stages
    <3>2. CASE /\ call'[c].stage = "turn" /\ call'[c].ans = "none"
               /\ AnswerOf(proc'[call'[c].proc], c, t)
      <4>1. call'[c] = call[c]
        BY <3>2
      <4>2. call[c].proc \in Procs
        BY <3>2, <4>1 DEF IInv, Stages
      <4>3. QED
        BY <1>1, <2>1, <3>2, <4>1, <4>2 DEF Follows
    <3>3. QED
      BY <1>5, <3>1, <3>2 DEF Follows
  <2>3. FollowedTurn(c, t) /\ host'.text[t] = host.text[t]
    BY <2>2 DEF Followed
  <2>4. \A p \in Procs : Names(proc'[p], t) => p = call'[c].proc
    BY <1>1, <2>2, <2>3 DEF FollowedTurn
  <2>5. Told(proc'[call'[c].proc], t, host'.text[t] = Pieces)
    BY <1>1, <2>1, <2>2, <2>3 DEF FollowedTurn
  <2>6. <<t, TRUE>> \in host'.completed => host'.text[t] = Pieces
    BY <2>3 DEF FollowedTurn
  <2>7. ASSUME call'[c].stage = "wait", call'[c].ans = "ok"
        PROVE  host'.text[t] = Pieces /\ \A p \in Procs : ~Names(proc'[p], t)
    <3>1. CASE call'[c] = call[c]
      BY <1>1, <2>3, <2>7, <3>1 DEF FollowedTurn
    <3>2. CASE <<call[c].turn, TRUE>> \in host.completed /\ call'[c].turn = call[c].turn
      <4>1. call[c].turn = t
        BY <1>5, <2>7, <3>2 DEF Follows
      <4>2. <<t, TRUE>> \in host.completed /\ <<t, TRUE>>[1] = t
        BY <3>2, <4>1
      <4>3. \A p \in Procs : ~Names(proc[p], t)
        BY <4>2 DEF Numbered, Kept
      <4>4. QED
        BY <1>1, <2>3, <4>2, <4>3 DEF FollowedTurn
    <3>3. QED
      BY <2>7, <3>1, <3>2
  <2>8. QED
    BY <2>4, <2>5, <2>6, <2>7 DEF FollowedTurn
<1>6. QED
  BY <1>1, <1>3, <1>4, <1>5 DEF Numbered, Followed

\* Process p says or is heard: the numbers of the turns stay apart.
LEMMA NumbersStep ==
  ASSUME IInv, Numbered, NEW p \in Procs, NEW r, proc' = [proc EXCEPT ![p] = r], Ended(r),
         turns' \in Nat, turns <= turns', turns' <= MaxTurns,
         \A t \in Nat : Names(r, t) => Names(proc[p], t) \/ (t = turns' /\ turns < turns'),
         \A e \in host'.completed :
            \/ e \in host.completed
            \/ e[1] \in Nat /\ Names(proc[p], e[1]) /\ ~Names(r, e[1]),
         \A c \in Calls : /\ call'[c].turn \in Nat
                          /\ call'[c].turn <= turns
                          /\ Expects(call'[c]) => call'[c].turn # None
  PROVE  Numbered'
<1>1. /\ proc'[p] = r /\ \A o \in Procs : o # p => proc'[o] = proc[o]
      /\ turns \in Nat
  BY DEF IInv, TypeOK
<1>2. ASSUME NEW o \in Procs, NEW t \in Nat, Names(proc'[o], t)
      PROVE  Names(proc[o], t) \/ (o = p /\ t = turns' /\ turns < turns')
  BY <1>1, <1>2
<1>3. ASSUME NEW o \in Procs, NEW t \in Nat, Names(proc[o], t) PROVE t <= turns
  BY <1>3 DEF Numbered, Counted
<1>4. Counted'
  <2>1. \A o \in Procs : \A t \in Nat : Names(proc'[o], t) => t <= turns'
    <3> SUFFICES ASSUME NEW o \in Procs, NEW t \in Nat, Names(proc'[o], t) PROVE t <= turns'
      OBVIOUS
    <3>1. t <= turns \/ t = turns'
      BY <1>2, <1>3
    <3>2. QED
      BY <1>1, <3>1
  <2>2. ASSUME NEW c \in Calls
        PROVE  call'[c].turn <= turns' /\ (Expects(call'[c]) => call'[c].turn # None)
    <3>1. call'[c].turn \in Nat /\ call'[c].turn <= turns
      OBVIOUS
    <3>2. QED
      BY <1>1, <3>1
  <2>3. QED
    BY <2>1, <2>2 DEF Counted
<1>5. Apart'
  <2> SUFFICES ASSUME NEW o \in Procs, NEW u \in Procs, NEW t \in Nat,
                      Names(proc'[o], t), Names(proc'[u], t)
               PROVE  o = u
    BY DEF Apart
  <2>1. CASE turns < turns' /\ t = turns'
    <3>1. ~(t <= turns)
      BY <1>1, <2>1
    <3>2. QED
      BY <1>2, <1>3, <3>1
  <2>2. CASE ~(turns < turns' /\ t = turns')
    BY <1>2, <2>2 DEF Numbered, Apart
  <2>3. QED
    BY <2>1, <2>2
<1>6. Kept'
  <2> SUFFICES ASSUME NEW e \in host'.completed
               PROVE  e[1] # None /\ e[1] <= turns' /\ \A o \in Procs : ~Names(proc'[o], e[1])
    BY DEF Kept
  <2>1. CASE e \in host.completed
    <3>1. e[1] # None /\ e[1] <= turns /\ \A o \in Procs : ~Names(proc[o], e[1])
      BY <2>1 DEF Numbered, Kept
    <3>2. e[1] \in Nat
      BY <2>1 DEF IInv, TypeOK, HostState
    <3>3. e[1] <= turns' /\ ~(turns < turns' /\ e[1] = turns')
      BY <1>1, <3>1, <3>2
    <3>4. QED
      BY <1>2, <3>1, <3>2, <3>3
  <2>2. CASE e[1] \in Nat /\ Names(proc[p], e[1]) /\ ~Names(r, e[1])
    <3>1. e[1] # None /\ e[1] <= turns
      BY <1>3, <2>2 DEF Names
    <3>2. e[1] <= turns'
      BY <1>1, <2>2, <3>1
    <3>3. ASSUME NEW o \in Procs, Names(proc'[o], e[1]) PROVE FALSE
      <4>1. o # p
        BY <1>1, <2>2, <3>3
      <4>2. Names(proc[o], e[1])
        BY <1>1, <3>3, <4>1
      <4>3. QED
        BY <2>2, <4>1, <4>2 DEF Numbered, Apart
    <3>4. QED
      BY <3>1, <3>2, <3>3
  <2>3. QED
    BY <2>1, <2>2
<1>7. \A o \in Procs : Ended(proc'[o])
  BY <1>1 DEF Numbered
<1>8. QED
  BY <1>4, <1>5, <1>6, <1>7 DEF Numbered

\* Process p is heard: what it said about the turn of call c has its effect.
LEMMA WholeTaken ==
  ASSUME Numbered, NEW p \in Procs, NEW r, proc \in [Procs -> Process],
         proc' = [proc EXCEPT ![p] = r],
         proc[p].out # <<>>, r.out = Tail(proc[p].out), r.turn = proc[p].turn,
         r.open = proc[p].open, r.sent = proc[p].sent,
         NEW c \in Calls, NEW t \in Nat, t # None, FollowedTurn(c, t),
         call[c].proc \in Procs, call'[c].proc = call[c].proc,
         proc[p].out[1].kind = "item" /\ proc[p].out[1].turn = t => host'.text[t] = Pieces,
         ~(proc[p].out[1].kind \in {"delta", "item"} /\ proc[p].out[1].turn = t)
            => host'.text[t] = host.text[t],
         <<t, TRUE>> \in host'.completed =>
            \/ <<t, TRUE>> \in host.completed
            \/ proc[p].out[1].kind = "done" /\ proc[p].out[1].ok /\ proc[p].out[1].turn = t,
         call'[c].stage = "wait" /\ call'[c].ans = "ok" =>
            \/ call[c].stage = "wait" /\ call[c].ans = "ok"
            \/ proc[p].out[1].kind = "done" /\ proc[p].out[1].ok /\ proc[p].out[1].turn = t
  PROVE  FollowedTurn(c, t)'
<1> DEFINE q == proc[p]
           l == proc[p].out[1]
<1>1. /\ proc'[p] = r /\ \A o \in Procs : o # p => proc'[o] = proc[o]
      /\ q \in Process
  OBVIOUS
<1>2. /\ \A u : Names(r, u) => Names(q, u)
      /\ l.kind = "done" => ~Names(r, l.turn)
      /\ l.turn # None => Names(q, l.turn)
      /\ \A whole, now :
            /\ l.kind = "item" /\ l.turn = t => now
            /\ ~(l.kind \in {"delta", "item"} /\ l.turn = t) /\ whole => now
            /\ Told(q, t, whole)
            => Told(r, t, now)
      /\ \A whole : Told(q, t, whole) /\ l.kind = "done" /\ l.ok /\ l.turn = t => whole
  <2>1. Ended(proc[p]) /\ proc[p] \in Process
    BY DEF Numbered
  <2>2. QED
    BY <2>1, LineTaken
<1> HIDE DEF l, q
<1>3. \A o \in Procs : Names(proc'[o], t) => Names(proc[o], t)
  BY <1>1, <1>2 DEF q
<1>4. l.turn = t => p = call[c].proc
  BY <1>2 DEF FollowedTurn, q
<1>5. \A o \in Procs : Names(proc'[o], t) => o = call'[c].proc
  BY <1>3 DEF FollowedTurn
<1>6. /\ l.kind = "item" /\ l.turn = t => host'.text[t] = Pieces
      /\ ~(l.kind \in {"delta", "item"} /\ l.turn = t) => host'.text[t] = host.text[t]
  BY DEF l
<1>7. Told(proc'[call'[c].proc], t, host'.text[t] = Pieces)
  <2>1. CASE call[c].proc = p
    <3>1. Told(q, t, host.text[t] = Pieces)
      BY <2>1 DEF FollowedTurn, q
    <3>2. Told(r, t, host'.text[t] = Pieces)
      BY <1>2, <1>6, <3>1
    <3>3. QED
      BY <1>1, <2>1, <3>2
  <2>2. CASE call[c].proc # p
    BY <1>1, <1>4, <1>6, <2>2 DEF FollowedTurn
  <2>3. QED
    BY <2>1, <2>2
<1>8. ASSUME l.kind = "done", l.ok, l.turn = t
      PROVE  host'.text[t] = Pieces /\ \A o \in Procs : ~Names(proc'[o], t)
  <2>1. Told(q, t, host.text[t] = Pieces)
    BY <1>4, <1>8 DEF FollowedTurn, q
  <2>2. host.text[t] = Pieces /\ host'.text[t] = host.text[t]
    BY <1>2, <1>6, <1>8, <2>1
  <2>3. ASSUME NEW o \in Procs PROVE ~Names(proc'[o], t)
    <3>1. CASE o = p
      BY <1>1, <1>2, <1>8, <3>1
    <3>2. CASE o # p
      BY <1>4, <1>5, <1>8, <3>2
    <3>3. QED
      BY <3>1, <3>2
  <2>4. QED
    BY <2>2, <2>3
<1>9. ASSUME \A o \in Procs : ~Names(proc[o], t)
      PROVE  host'.text[t] = host.text[t] /\ \A o \in Procs : ~Names(proc'[o], t)
  BY <1>2, <1>3, <1>6, <1>9 DEF q
<1>10. <<t, TRUE>> \in host'.completed => host'.text[t] = Pieces
  <2>1. CASE <<t, TRUE>> \in host.completed
    <3>1. <<t, TRUE>>[1] = t
      OBVIOUS
    <3>2. \A o \in Procs : ~Names(proc[o], t)
      BY <2>1, <3>1 DEF Numbered, Kept
    <3>3. QED
      BY <1>9, <2>1, <3>2 DEF FollowedTurn
  <2>2. QED
    BY <1>8, <2>1 DEF l
<1>11. call'[c].stage = "wait" /\ call'[c].ans = "ok" =>
          host'.text[t] = Pieces /\ \A o \in Procs : ~Names(proc'[o], t)
  <2>1. CASE call[c].stage = "wait" /\ call[c].ans = "ok"
    BY <1>9, <2>1 DEF FollowedTurn
  <2>2. QED
    BY <1>8, <2>1 DEF l
<1>12. QED
  BY <1>5, <1>7, <1>10, <1>11 DEF FollowedTurn

\* Process p says something about the turn it works on, or about no turn, or names a turn
\* that starts.
LEMMA WholeSaid ==
  ASSUME IInv, Numbered, Followed, NEW p \in Procs, NEW r, NEW l \in Line,
         proc' = [proc EXCEPT ![p] = r], r.out = Append(proc[p].out, l),
         host' = host, call' = call, turns' \in {turns, turns + 1}, turns' <= MaxTurns,
         \/ r.turn = proc[p].turn \/ r.turn = None \/ (r.turn = turns + 1 /\ turns' = turns + 1),
         \/ l.turn = None
         \/ l.turn = proc[p].turn /\ l.kind # "answer"
         \/ l.turn = turns + 1 /\ turns' = turns + 1,
         \A t : t # None /\ Saying(r, t) =>
                   \/ l.kind = "item" /\ l.turn = t
                   \/ Saying(proc[p], t) /\ ~(l.kind = "delta" /\ l.turn = t),
         l.kind = "done" => /\ l.turn # None /\ l.turn # r.turn
                            /\ l.ok => Saying(proc[p], l.turn)
  PROVE  Numbered' /\ Followed'
<1> DEFINE q == proc[p]
<1>1. /\ q \in Process /\ proc'[p] = r /\ \A o \in Procs : o # p => proc'[o] = proc[o]
      /\ turns \in Nat /\ turns + 1 \in Nat /\ ~(turns + 1 <= turns) /\ turns < turns + 1
      /\ Ended(q)
  BY DEF IInv, TypeOK, Numbered
<1>2. \A i \in 1..Len(q.out) : q.out[i].turn \in Nat
  <2>1. q.out \in Seq(Line)
    BY <1>1 DEF Process
  <2> HIDE DEF q
  <2>2. \A i \in 1..Len(q.out) : q.out[i] \in Line
    BY <2>1
  <2>3. QED
    BY <2>2 DEF Line
<1>3. ASSUME NEW o \in Procs, NEW t \in Nat, Names(proc[o], t) PROVE t <= turns
  BY <1>3 DEF Numbered, Counted
<1>4. \A i \in 1..Len(q.out) : q.out[i].kind = "done" =>
         q.out[i].turn # r.turn /\ q.out[i].turn # l.turn
  <2> SUFFICES ASSUME NEW i \in 1..Len(q.out), q.out[i].kind = "done"
               PROVE  q.out[i].turn # r.turn /\ q.out[i].turn # l.turn
    OBVIOUS
  <2>1. q.out[i].turn # None /\ q.out[i].turn # q.turn
    BY <1>1 DEF Ended
  <2>2. q.out[i].turn <= turns
    <3>1. Names(q, q.out[i].turn)
      BY <2>1 DEF Names
    <3>2. QED
      BY <1>2, <1>3, <3>1
  <2>3. q.out[i].turn # turns + 1
    BY <1>1, <2>2
  <2>4. QED
    BY <2>1, <2>3
<1>5. /\ Ended(r)
      /\ \A t : Names(r, t) => Names(q, t) \/ r.turn = t \/ l.turn = t
      /\ \A t, whole :
            /\ Told(q, t, whole)
            /\ Saying(r, t) => \/ l.kind = "item" /\ l.turn = t
                               \/ Saying(q, t) /\ ~(l.kind = "delta" /\ l.turn = t)
            /\ l.kind = "done" /\ l.ok /\ l.turn = t => Saying(q, t)
            => Told(r, t, whole)
  <2> DEFINE qq == proc[p]
  <2> HIDE DEF q
  <2>1. r.out = Append(q.out, l) /\ (l.kind = "done" => l.turn # None /\ l.turn # r.turn)
    BY DEF q
  <2>2. QED
    BY <1>1, <1>4, <2>1, LineSaid
<1>6. ASSUME NEW t, t # None, NEW whole, Told(q, t, whole) PROVE Told(r, t, whole)
  BY <1>5, <1>6
<1>7. ASSUME NEW t, Names(r, t) PROVE Names(q, t) \/ (t = turns + 1 /\ turns' = turns + 1)
  <2>1. t # None
    BY <1>7 DEF Names
  <2>2. t = q.turn => Names(q, t)
    BY <2>1 DEF Names
  <2>3. QED
    BY <1>5, <1>7, <2>1, <2>2
<1>8. Numbered'
  <2>1. \A t \in Nat : Names(r, t) => Names(proc[p], t) \/ (t = turns' /\ turns < turns')
    BY <1>1, <1>7
  <2>2. turns' \in Nat /\ turns <= turns'
    BY <1>1
  <2>3. \A c \in Calls : /\ call'[c].turn \in Nat
                         /\ call'[c].turn <= turns
                         /\ Expects(call'[c]) => call'[c].turn # None
    BY DEF Numbered, Counted, IInv, TypeOK, Call
  <2>4. \A e \in host'.completed : e \in host.completed
    OBVIOUS
  <2> HIDE DEF q
  <2>5. QED
    BY <1>5, <2>1, <2>2, <2>3, <2>4, NumbersStep
<1>9. ASSUME NEW c \in Calls, NEW t \in Nat, Follows(c, t)' PROVE FollowedTurn(c, t)'
  <2>1. t # None /\ call[c].proc \in Procs
    BY <1>9 DEF Follows, Expects, IInv, Stages
  <2>2. CASE t <= turns
    <3>1. t # turns + 1
      BY <1>1, <2>2
    <3>2. AnswerOf(proc'[call[c].proc], c, t) => AnswerOf(proc[call[c].proc], c, t)
      <4>1. CASE call[c].proc = p
        <5>1. \A i \in 1..Len(r.out) : (i \in 1..Len(q.out) /\ r.out[i] = q.out[i]) \/ r.out[i] = l
          <6>1. q.out \in Seq(Line)
            BY <1>1 DEF Process
          <6>2. r.out = Append(q.out, l)
            OBVIOUS
          <6> HIDE DEF q
          <6>3. QED
            BY <6>1, <6>2, More
        <5>2. ~(l.kind = "answer" /\ l.turn = t)
          BY <2>1, <3>1
        <5>3. proc'[call[c].proc] = r /\ proc[call[c].proc] = q
          BY <1>1, <4>1
        <5> HIDE DEF q
        <5>4. AnswerOf(r, c, t) => AnswerOf(q, c, t)
          BY <5>1, <5>2 DEF AnswerOf
        <5>5. QED
          BY <5>3, <5>4
      <4>2. CASE call[c].proc # p
        BY <1>1, <2>1, <4>2
      <4>3. QED
        BY <4>1, <4>2
    <3>3. Follows(c, t)
      BY <1>9, <3>2 DEF Follows
    <3>4. FollowedTurn(c, t)
      BY <3>3 DEF Followed
    <3>5. \A o \in Procs : Names(proc'[o], t) => Names(proc[o], t)
      BY <1>1, <1>7, <3>1
    <3>6. Told(proc'[call[c].proc], t, host.text[t] = Pieces)
      BY <1>1, <1>6, <2>1, <3>4 DEF FollowedTurn
    <3> HIDE DEF q
    <3>7. QED
      BY <3>4, <3>5, <3>6 DEF FollowedTurn
  <2>3. CASE ~(t <= turns)
    <3>1. /\ \A o \in Procs : ~Names(proc[o], t)
          /\ <<t, TRUE>> \notin host.completed
          /\ call[c].turn # t
      <4>1. <<t, TRUE>>[1] = t
        OBVIOUS
      <4>2. QED
        BY <1>3, <2>3, <4>1 DEF Numbered, Counted, Kept
    <3>2. ~(call[c].stage = "wait" /\ call[c].ans = "ok")
      BY <1>9, <3>1 DEF Follows
    <3>3. AnswerOf(proc'[call[c].proc], c, t)
      BY <1>9, <3>1 DEF Follows
    <3>4. Names(proc'[call[c].proc], t)
      BY <2>1, <3>3 DEF AnswerOf, Names
    <3>5. \A o \in Procs : Names(proc'[o], t) => o = p
      BY <1>1, <3>1
    <3>6. call[c].proc = p
      BY <2>1, <3>4, <3>5
    <3>7. Told(q, t, host.text[t] = Pieces)
      BY <2>1, <3>1 DEF Told, Saying, Names
    <3>8. Told(r, t, host.text[t] = Pieces)
      BY <1>6, <2>1, <3>7
    <3> HIDE DEF q
    <3>9. QED
      BY <1>1, <3>1, <3>2, <3>5, <3>6, <3>8 DEF FollowedTurn
  <2>4. QED
    BY <2>2, <2>3
<1>10. QED
  BY <1>8, <1>9 DEF Followed

\* The app-server answers, streams a turn and ends it.
LEMMA RefusesWhole ==
  ASSUME IInv, Numbered, Followed, NEW p \in Procs, ServerRefuses(p) \/ ServerAnswers(p)
  PROVE  Numbered' /\ Followed'
<1>1. proc[p] \in Process /\ proc[p].wire # <<>> /\ host' = host /\ call' = call /\ turns' = turns
      /\ turns <= MaxTurns
  BY DEF IInv, TypeOK, ServerRefuses, ServerAnswers, Numbered, Counted
<1>2. PICK r, ok :
         /\ ok \in BOOLEAN
         /\ proc' = [proc EXCEPT ![p] = r]
         /\ r.out = Append(proc[p].out, Answer(Head(proc[p].wire), ok, None))
         /\ r.turn = proc[p].turn /\ r.sent = proc[p].sent /\ r.open = proc[p].open
  <2>1. CASE ServerRefuses(p)
    <3> DEFINE r == [proc[p] EXCEPT !.wire = Tail(proc[p].wire),
                       !.refused = proc[p].refused \/ Head(proc[p].wire).method = "roots",
                       !.out = Append(proc[p].out, Answer(Head(proc[p].wire), FALSE, None))]
    <3>1. proc' = [proc EXCEPT ![p] = r]
      BY <2>1 DEF ServerRefuses
    <3>2. /\ r.out = Append(proc[p].out, Answer(Head(proc[p].wire), FALSE, None))
          /\ r.turn = proc[p].turn /\ r.sent = proc[p].sent /\ r.open = proc[p].open
      BY <1>1 DEF Process
    <3> HIDE DEF r
    <3>3. QED
      BY <3>1, <3>2
  <2>2. CASE ServerAnswers(p)
    <3> DEFINE r == [proc[p] EXCEPT !.wire = Tail(proc[p].wire),
                       !.roots = IF Head(proc[p].wire).method = "roots"
                                 THEN Head(proc[p].wire).config ELSE proc[p].roots,
                       !.loaded = proc[p].loaded \/ Head(proc[p].wire).method \in {"start", "resume"},
                       !.out = Append(proc[p].out, Answer(Head(proc[p].wire), TRUE, None))]
    <3>1. proc' = [proc EXCEPT ![p] = r]
      BY <2>2 DEF ServerAnswers
    <3>2. /\ r.out = Append(proc[p].out, Answer(Head(proc[p].wire), TRUE, None))
          /\ r.turn = proc[p].turn /\ r.sent = proc[p].sent /\ r.open = proc[p].open
      BY <1>1 DEF Process
    <3> HIDE DEF r
    <3>3. QED
      BY <3>1, <3>2
  <2>3. QED
    BY <2>1, <2>2
<1> DEFINE l == Answer(Head(proc[p].wire), ok, None)
<1>3. l \in Line /\ l.kind = "answer" /\ l.turn = None
  <2>1. Head(proc[p].wire) \in Req
    BY <1>1, LineTypes
  <2>2. ok \in BOOLEAN
    BY <1>2
  <2>3. QED
    BY <2>1, <2>2 DEF Answer, Line, Req, None
<1>4. r.out = Append(proc[p].out, l)
  BY <1>2
<1> HIDE DEF l
<1>5. \A t : Saying(r, t) => Saying(proc[p], t)
  BY <1>2 DEF Saying
<1>6. QED
  BY <1>1, <1>2, <1>3, <1>4, <1>5, WholeSaid

LEMMA StartsWhole ==
  ASSUME IInv, Numbered, Followed, MaxTurns \in Nat, NEW p \in Procs, ServerStartsTurn(p)
  PROVE  Numbered' /\ Followed'
<1> DEFINE r == [proc[p] EXCEPT !.wire = Tail(proc[p].wire), !.turn = turns + 1, !.sent = 0,
                   !.out = Append(proc[p].out, Answer(Head(proc[p].wire), TRUE, turns + 1))]
           l == Answer(Head(proc[p].wire), TRUE, turns + 1)
<1>1. /\ proc[p] \in Process /\ proc[p].wire # <<>> /\ host' = host /\ call' = call
      /\ turns' = turns + 1 /\ turns \in Nat /\ turns < MaxTurns
      /\ proc' = [proc EXCEPT ![p] = r]
  BY DEF IInv, TypeOK, ServerStartsTurn
<1>2. turns' <= MaxTurns /\ turns' \in Nat
  BY <1>1, MaxTurns \in Nat
<1>3. l \in Line /\ l.kind = "answer" /\ l.turn = turns + 1
  <2>1. Head(proc[p].wire) \in Req
    BY <1>1, LineTypes
  <2>2. QED
    BY <1>1, <2>1 DEF Answer, Line, Req
<1>4. r.out = Append(proc[p].out, l) /\ r.turn = turns + 1 /\ r.sent = 0
  BY <1>1 DEF Process
<1> HIDE DEF l, r
<1>5. \A t : ~Saying(r, t)
  BY <1>4 DEF Saying, Pieces
<1>6. QED
  BY <1>1, <1>2, <1>3, <1>4, <1>5, WholeSaid

LEMMA StreamsWhole ==
  ASSUME IInv, Numbered, Followed, NEW p \in Procs, ServerStreams(p)
  PROVE  Numbered' /\ Followed'
<1> DEFINE l == Notice(IF proc[p].sent < Pieces THEN "delta" ELSE "item", proc[p].turn, TRUE)
           r == [proc[p] EXCEPT !.sent = proc[p].sent + 1, !.out = Append(proc[p].out, l)]
<1>1. /\ proc[p] \in Process /\ host' = host /\ call' = call /\ turns' = turns
      /\ proc[p].sent <= Pieces /\ proc' = [proc EXCEPT ![p] = r] /\ turns <= MaxTurns
  BY DEF IInv, TypeOK, ServerStreams, Numbered, Counted
<1>2. /\ l \in Line /\ l.turn = proc[p].turn /\ l.kind \in {"delta", "item"}
      /\ ~(proc[p].sent < Pieces) => l.kind = "item"
  BY <1>1 DEF Notice, Line, Process, None
<1> HIDE DEF l
<1>3. r.out = Append(proc[p].out, l) /\ r.turn = proc[p].turn /\ r.sent = proc[p].sent + 1
      /\ proc[p].sent \in Nat
  BY <1>1 DEF Process
<1> HIDE DEF r
<1>4. ASSUME NEW t, Saying(r, t) PROVE l.kind = "item" /\ l.turn = t
  <2>1. ~(proc[p].sent < Pieces)
    BY <1>3, <1>4 DEF Saying, Pieces
  <2>2. QED
    BY <1>2, <1>3, <1>4, <2>1 DEF Saying
<1>5. l.turn = None \/ (l.turn = proc[p].turn /\ l.kind # "answer")
  BY <1>2
<1>6. l.kind # "done"
  BY <1>2
<1>7. QED
  BY <1>1, <1>2, <1>3, <1>4, <1>5, <1>6, WholeSaid

LEMMA CompletesWhole ==
  ASSUME IInv, Numbered, Followed, NEW p \in Procs, NEW ok \in BOOLEAN, ServerCompletesTurn(p, ok)
  PROVE  Numbered' /\ Followed'
<1> DEFINE l == Notice("done", proc[p].turn, ok)
           r == [proc[p] EXCEPT !.turn = None, !.out = Append(proc[p].out, l)]
<1>1. /\ proc[p] \in Process /\ host' = host /\ call' = call /\ turns' = turns
      /\ proc[p].turn # None /\ proc[p].open /\ (ok => proc[p].sent > Pieces)
      /\ proc' = [proc EXCEPT ![p] = r] /\ turns <= MaxTurns
  BY DEF IInv, TypeOK, ServerCompletesTurn, Numbered, Counted
<1>2. l \in Line /\ l.turn = proc[p].turn /\ l.kind = "done" /\ l.ok = ok
  BY <1>1 DEF Notice, Line, Process, None
<1> HIDE DEF l
<1>3. r.out = Append(proc[p].out, l) /\ r.turn = None
  BY <1>1 DEF Process
<1> HIDE DEF r
<1>4. \A t : t # None => ~Saying(r, t)
  BY <1>3 DEF Saying
<1>5. l.turn # None /\ l.turn # r.turn /\ (l.ok => Saying(proc[p], l.turn))
  BY <1>1, <1>2, <1>3 DEF Saying
<1>6. l.kind # "answer"
  BY <1>2
<1>7. QED
  BY <1>1, <1>2, <1>3, <1>4, <1>5, <1>6, WholeSaid

\* The lines that are left answer nobody else.
LEMMA AnswersTaken ==
  ASSUME NEW p \in Procs, proc \in [Procs -> Process], NEW r, proc' = [proc EXCEPT ![p] = r],
         proc[p].out # <<>>, r.out = Tail(proc[p].out), NEW o \in Procs, NEW c, NEW t,
         AnswerOf(proc'[o], c, t)
  PROVE  AnswerOf(proc[o], c, t)
<1>1. CASE o = p
  <2> DEFINE s == proc[p].out
  <2>1. s \in Seq(Line) /\ s # <<>> /\ r.out = Tail(s)
    BY DEF Process
  <2> HIDE DEF s
  <2>2. \A i \in 1..Len(Tail(s)) : i + 1 \in 1..Len(s) /\ Tail(s)[i] = s[i + 1]
    BY <2>1, Rest
  <2>3. PICK i \in 1..Len(Tail(s)) :
           Tail(s)[i].kind = "answer" /\ Tail(s)[i].by = c /\ Tail(s)[i].turn = t
    BY <1>1, <2>1 DEF AnswerOf
  <2>4. i + 1 \in 1..Len(s) /\ Tail(s)[i] = s[i + 1]
    BY <2>2
  <2>5. QED
    BY <1>1, <2>3, <2>4 DEF AnswerOf, s
<1>2. CASE o # p
  BY <1>2
<1>3. QED
  BY <1>1, <1>2

\* A message: a delta is appended, a completed item makes the text whole.
LEMMA MessageWhole ==
  ASSUME IInv, Numbered, Followed, MaxTurns \in Nat, NEW p \in Procs, HandleMessage(p)
  PROVE  Numbered' /\ Followed'
<1> DEFINE q == proc[p]
           r == [proc[p] EXCEPT !.out = Tail(proc[p].out)]
           l == proc[p].out[1]
<1>1. /\ q \in Process /\ q.out # <<>> /\ Head(q.out) = l /\ l \in Line /\ host \in HostState
      /\ proc \in [Procs -> Process] /\ turns \in Nat
  <2>1. proc[p] \in Process /\ proc[p].out # <<>> /\ host \in HostState /\ turns \in Nat
        /\ proc \in [Procs -> Process]
    BY DEF IInv, TypeOK, HandleMessage
  <2>2. QED
    BY <2>1, LineTypes
<1>2. /\ l.kind \in {"delta", "item"} /\ proc' = [proc EXCEPT ![p] = r] /\ call' = call
      /\ turns' = turns
      /\ host' = [host EXCEPT !.text = UpdateAgentMessageItem(host.text, l.turn, l.kind = "delta")]
  BY <1>1 DEF HandleMessage
<1>3. r.out = Tail(q.out) /\ r.turn = q.turn /\ r.open = q.open /\ r.sent = q.sent
  BY <1>1 DEF Process
<1> HIDE DEF r
<1>4. /\ Ended(r) /\ \A t : Names(r, t) => Names(q, t)
      /\ l.turn # None => Names(q, l.turn)
  <2>1. Ended(proc[p]) /\ proc[p] \in Process /\ proc[p].out # <<>>
    BY <1>1 DEF Numbered
  <2>2. /\ r.out = Tail(proc[p].out) /\ r.turn = proc[p].turn /\ r.open = proc[p].open
        /\ r.sent = proc[p].sent
    BY <1>3
  <2>3. QED
    BY <2>1, <2>2, LineTaken
<1>5. host'.completed = host.completed
      /\ host'.text = UpdateAgentMessageItem(host.text, l.turn, l.kind = "delta")
  BY <1>1, <1>2 DEF HostState
<1> HIDE DEF l
<1>6. ASSUME NEW t, t # l.turn PROVE host'.text[t] = host.text[t]
  BY <1>1, <1>5, <1>6 DEF UpdateAgentMessageItem, HostState
<1>7. ASSUME l.kind = "item", l.turn # None PROVE host'.text[l.turn] = Pieces
  <2>1. l.turn \in Nat
    BY <1>1 DEF Line
  <2>2. l.turn <= turns /\ turns <= MaxTurns
    BY <1>4, <1>7, <2>1 DEF Numbered, Counted
  <2>3. l.turn \in Turns
    BY <1>1, <1>7, <2>1, <2>2, MaxTurns \in Nat DEF Turns, None
  <2>4. QED
    BY <1>1, <1>5, <1>7, <2>3 DEF UpdateAgentMessageItem, HostState
<1>8. Numbered'
  <2>1. \A c \in Calls : /\ call'[c].turn \in Nat
                         /\ call'[c].turn <= turns
                         /\ Expects(call'[c]) => call'[c].turn # None
    BY <1>2 DEF Numbered, Counted, IInv, TypeOK, Call
  <2>2. turns' \in Nat /\ turns <= turns' /\ turns' <= MaxTurns
    BY <1>1, <1>2 DEF Numbered, Counted
  <2>3. \A e \in host'.completed : e \in host.completed
    BY <1>5
  <2>4. \A t \in Nat : Names(r, t) => Names(proc[p], t)
    BY <1>4
  <2> HIDE DEF q
  <2>5. QED
    BY <1>2, <1>4, <2>1, <2>2, <2>3, <2>4, NumbersStep
<1>9. ASSUME NEW c \in Calls, NEW t \in Nat, Follows(c, t)' PROVE FollowedTurn(c, t)'
  <2>1. t # None /\ call[c].proc \in Procs
    BY <1>2, <1>9 DEF Follows, Expects, IInv, Stages
  <2>2. AnswerOf(proc'[call[c].proc], c, t) => AnswerOf(proc[call[c].proc], c, t)
    BY <1>1, <1>2, <1>3, <2>1, AnswersTaken
  <2>3. FollowedTurn(c, t)
    <3>1. Follows(c, t)
      BY <1>2, <1>9, <2>2 DEF Follows
    <3>2. QED
      BY <3>1 DEF Followed
  <2>4. /\ l.kind = "item" /\ l.turn = t => host'.text[t] = Pieces
        /\ ~(l.kind \in {"delta", "item"} /\ l.turn = t) => host'.text[t] = host.text[t]
    BY <1>2, <1>6, <1>7, <2>1
  <2>5. call'[c] = call[c] /\ host'.completed = host.completed
    BY <1>2, <1>5
  <2>6. QED
    BY <1>1, <1>2, <1>3, <2>1, <2>3, <2>4, <2>5, WholeTaken DEF l
<1>10. QED
  BY <1>8, <1>9 DEF Followed

\* The end of a turn: who waits for it returns, or it is kept.
LEMMA TurnCompletedWhole ==
  ASSUME IInv, Numbered, Followed, NEW p \in Procs, HandleTurnCompleted(p)
  PROVE  Numbered' /\ Followed'
<1> DEFINE q == proc[p]
           r == [proc[p] EXCEPT !.out = Tail(proc[p].out)]
           l == proc[p].out[1]
           w == IF l.ok THEN "ok" ELSE "error"
           waiting == {c \in Calls : /\ call[c].stage = "wait" /\ call[c].turn = l.turn
                                     /\ call[c].ans = "none"}
<1>1. /\ q \in Process /\ q.out # <<>> /\ Head(q.out) = l /\ l \in Line /\ host \in HostState
      /\ proc \in [Procs -> Process] /\ turns \in Nat /\ call \in [Calls -> Call]
  <2>1. proc[p] \in Process /\ proc[p].out # <<>> /\ host \in HostState /\ turns \in Nat
        /\ proc \in [Procs -> Process] /\ call \in [Calls -> Call]
    BY DEF IInv, TypeOK, HandleTurnCompleted
  <2>2. QED
    BY <2>1, LineTypes
<1>2. /\ l.kind = "done" /\ proc' = [proc EXCEPT ![p] = r] /\ turns' = turns
      /\ call' = [c \in Calls |-> IF c \in waiting THEN [call[c] EXCEPT !.ans = w] ELSE call[c]]
      /\ host' = IF waiting # {} THEN host
                 ELSE [host EXCEPT !.completed = host.completed \cup {<<l.turn, l.ok>>}]
  BY <1>1 DEF HandleTurnCompleted
<1>3. r.out = Tail(q.out) /\ r.turn = q.turn /\ r.open = q.open /\ r.sent = q.sent
  BY <1>1 DEF Process
<1> HIDE DEF r
<1>4. /\ Ended(r) /\ \A t : Names(r, t) => Names(q, t)
      /\ l.turn # None /\ Names(q, l.turn) /\ ~Names(r, l.turn)
  <2>1. Ended(proc[p]) /\ proc[p] \in Process /\ proc[p].out # <<>>
    BY <1>1 DEF Numbered
  <2>2. /\ r.out = Tail(proc[p].out) /\ r.turn = proc[p].turn /\ r.open = proc[p].open
        /\ r.sent = proc[p].sent
    BY <1>3
  <2>3. QED
    BY <1>2, <2>1, <2>2, LineTaken
<1>5. /\ host'.text = host.text
      /\ \A e \in host'.completed : e \in host.completed \/ e = <<l.turn, l.ok>>
  <2> HIDE DEF l, waiting
  <2>1. QED
    BY <1>1, <1>2 DEF HostState
<1>6. l.turn \in Nat /\ l.ok \in BOOLEAN
  BY <1>1 DEF Line
<1>7. ASSUME NEW c \in Calls
      PROVE  \/ call'[c] = call[c]
             \/ /\ call[c].stage = "wait" /\ call[c].turn = l.turn /\ call[c].ans = "none"
                /\ call'[c].stage = "wait" /\ call'[c].turn = call[c].turn
                /\ call'[c].proc = call[c].proc /\ (call'[c].ans = "ok" => l.ok)
  <2>1. CASE c \in waiting
    <3>1. call'[c] = [call[c] EXCEPT !.ans = w]
      BY <1>2, <2>1
    <3>2. /\ [call[c] EXCEPT !.ans = w].stage = call[c].stage
          /\ [call[c] EXCEPT !.ans = w].turn = call[c].turn
          /\ [call[c] EXCEPT !.ans = w].proc = call[c].proc
          /\ [call[c] EXCEPT !.ans = w].ans = w
      BY <1>1 DEF Call
    <3>3. QED
      BY <2>1, <3>1, <3>2
  <2>2. CASE c \notin waiting
    BY <1>2, <2>2
  <2>3. QED
    BY <2>1, <2>2
<1> HIDE DEF l, w, waiting
<1>8. Numbered'
  <2>1. \A c \in Calls : /\ call'[c].turn \in Nat
                         /\ call'[c].turn <= turns
                         /\ Expects(call'[c]) => call'[c].turn # None
    BY <1>7 DEF Numbered, Counted, IInv, TypeOK, Call, Expects
  <2>2. turns' \in Nat /\ turns <= turns' /\ turns' <= MaxTurns
    BY <1>1, <1>2 DEF Numbered, Counted
  <2>3. \A e \in host'.completed : \/ e \in host.completed
                                   \/ e[1] \in Nat /\ Names(proc[p], e[1]) /\ ~Names(r, e[1])
    <3>1. <<l.turn, l.ok>>[1] = l.turn
      OBVIOUS
    <3>2. QED
      BY <1>4, <1>5, <1>6, <3>1
  <2>4. \A t \in Nat : Names(r, t) => Names(proc[p], t)
    BY <1>4
  <2> HIDE DEF q
  <2>5. QED
    BY <1>2, <1>4, <2>1, <2>2, <2>3, <2>4, NumbersStep
<1>9. ASSUME NEW c \in Calls, NEW t \in Nat, Follows(c, t)' PROVE FollowedTurn(c, t)'
  <2>1. t # None /\ call'[c].proc = call[c].proc /\ call[c].proc \in Procs
    BY <1>7, <1>9 DEF Follows, Expects, IInv, Stages
  <2>2. AnswerOf(proc'[call[c].proc], c, t) => AnswerOf(proc[call[c].proc], c, t)
    BY <1>1, <1>2, <1>3, <2>1, AnswersTaken
  <2>3. FollowedTurn(c, t)
    <3>1. Follows(c, t)
      BY <1>7, <1>9, <2>1, <2>2 DEF Follows, Expects
    <3>2. QED
      BY <3>1 DEF Followed
  <2>4. call'[c].stage = "wait" /\ call'[c].ans = "ok" =>
           \/ call[c].stage = "wait" /\ call[c].ans = "ok"
           \/ l.kind = "done" /\ l.ok /\ l.turn = t
    BY <1>2, <1>7, <1>9 DEF Follows
  <2>5. <<t, TRUE>> \in host'.completed =>
           \/ <<t, TRUE>> \in host.completed
           \/ l.kind = "done" /\ l.ok /\ l.turn = t
    BY <1>2, <1>5
  <2>6. /\ l.kind = "item" /\ l.turn = t => host'.text[t] = Pieces
        /\ host'.text[t] = host.text[t]
    BY <1>2, <1>5
  <2>7. QED
    BY <1>1, <1>2, <1>3, <2>1, <2>3, <2>4, <2>5, <2>6, WholeTaken DEF l
<1>10. QED
  BY <1>8, <1>9 DEF Followed

\* The answer to a call that asked for its turn names the turn.
LEMMA ResponseWhole ==
  ASSUME IInv, Numbered, Followed, NEW p \in Procs, HandleResponse(p)
  PROVE  Numbered' /\ Followed'
<1> DEFINE q == proc[p]
           l == proc[p].out[1]
           c == proc[p].pending[l.id]
           r == [proc[p] EXCEPT !.out = Tail(proc[p].out),
                   !.pending = Restrict(proc[p].pending, DOMAIN proc[p].pending \ {l.id})]
           w == IF l.ok THEN "ok" ELSE "error"
<1>1. /\ q \in Process /\ q.out # <<>> /\ Head(q.out) = l /\ l \in Line /\ Matched(q)
      /\ Waited(p, q, call) /\ proc \in [Procs -> Process] /\ turns \in Nat
      /\ call \in [Calls -> Call] /\ 1 \in 1..Len(q.out) /\ Ended(q)
  <2>1. proc[p] \in Process /\ proc[p].out # <<>> /\ turns \in Nat /\ Matched(proc[p])
        /\ Waited(p, proc[p], call)
        /\ proc \in [Procs -> Process] /\ call \in [Calls -> Call]
    BY DEF IInv, TypeOK, HandleResponse, Connections
  <2>2. proc[p].out \in Seq(Line) /\ Head(proc[p].out) = proc[p].out[1] /\ proc[p].out[1] \in Line
    BY <2>1, LineTypes
  <2>3. 1 \in 1..Len(proc[p].out)
    BY <2>1, <2>2, Rest
  <2>4. QED
    BY <2>1, <2>2, <2>3 DEF Numbered
<1>2. /\ l.kind = "answer" /\ l.id \in DOMAIN q.pending
      /\ proc' = [proc EXCEPT ![p] = r] /\ turns' = turns /\ host' = host
      /\ call' = [call EXCEPT ![c] = [call[c] EXCEPT !.ans = w, !.turn = l.turn]]
  BY <1>1 DEF HandleResponse
<1>3. r.out = Tail(q.out) /\ r.turn = q.turn /\ r.open = q.open /\ r.sent = q.sent
  BY <1>1 DEF Process
<1>4. /\ c \in Calls /\ c = l.by /\ call[c].proc = p /\ call[c].ans = "none"
      /\ call[c].stage \notin {"idle", "wait"}
  <2>1. c \in Calls
    BY <1>1, <1>2, PendingCalls
  <2>2. \A k \in 1..Len(q.out) : q.out[k].kind = "answer" =>
           q.pending[q.out[k].id] = q.out[k].by
    BY <1>1 DEF Matched
  <2>3. c = l.by
    BY <1>1, <1>2, <2>2
  <2>4. QED
    BY <1>1, <1>2, <2>1, <2>3 DEF Waited
<1>5. /\ \A d \in Calls : d # c => call'[d] = call[d]
      /\ call'[c].stage = call[c].stage /\ call'[c].proc = call[c].proc
      /\ call'[c].ans = w /\ call'[c].turn = l.turn
  <2> DEFINE k == [call[c] EXCEPT !.ans = w, !.turn = l.turn]
  <2>1. k.stage = call[c].stage /\ k.proc = call[c].proc /\ k.ans = w /\ k.turn = l.turn
    BY <1>1, <1>4 DEF Call
  <2>2. call' = [call EXCEPT ![c] = k]
    BY <1>2
  <2> HIDE DEF k, c
  <2>3. QED
    BY <1>1, <1>4, <2>1, <2>2
<1> HIDE DEF r
<1>6. /\ Ended(r) /\ \A t : Names(r, t) => Names(q, t)
      /\ l.turn # None => Names(q, l.turn)
  <2>1. Ended(proc[p]) /\ proc[p] \in Process /\ proc[p].out # <<>>
    BY <1>1 DEF Numbered
  <2>2. /\ r.out = Tail(proc[p].out) /\ r.turn = proc[p].turn /\ r.open = proc[p].open
        /\ r.sent = proc[p].sent
    BY <1>3
  <2>3. QED
    BY <2>1, <2>2, LineTaken
<1>7. l.turn \in Nat
  BY <1>1 DEF Line
<1>8. l.ok /\ call[c].stage = "turn" => l.turn # None
  <2>1. ASSUME l.ok, call[c].stage = "turn" PROVE l.turn # None
    <3>1. Comes(q, 1, l.turn)
      BY <1>1, <1>2, <1>4, <2>1 DEF Waited
    <3>2. QED
      BY <1>1, <3>1 DEF Comes, Ended
  <2>2. QED
    BY <2>1
<1>9. AnswerOf(q, c, l.turn)
  BY <1>1, <1>2, <1>4 DEF AnswerOf
<1>10. w # "none" /\ (w = "ok" => l.ok)
  OBVIOUS
<1> HIDE DEF c, w
<1>11. Numbered'
  <2>1. ASSUME NEW d \in Calls
        PROVE  /\ call'[d].turn \in Nat
               /\ call'[d].turn <= turns
               /\ Expects(call'[d]) => call'[d].turn # None
    <3>1. CASE d = c
      <4>1. l.turn <= turns
        <5>1. CASE l.turn = None
          BY <1>1, <5>1 DEF None
        <5>2. CASE l.turn # None
          BY <1>6, <1>7, <5>2 DEF Numbered, Counted
        <5>3. QED
          BY <5>1, <5>2
      <4>2. Expects(call'[d]) => l.ok /\ call[c].stage = "turn"
        BY <1>4, <1>5, <1>10, <3>1 DEF Expects
      <4> HIDE DEF l
      <4>3. QED
        BY <1>5, <1>7, <1>8, <3>1, <4>1, <4>2
    <3>2. CASE d # c
      <4>1. call'[d] = call[d] /\ call[d] \in Call
        BY <1>1, <1>5, <3>2
      <4>2. QED
        BY <4>1 DEF Numbered, Counted, Call
    <3>3. QED
      BY <3>1, <3>2
  <2>2. turns' \in Nat /\ turns <= turns' /\ turns' <= MaxTurns
    BY <1>1, <1>2 DEF Numbered, Counted
  <2>3. \A e \in host'.completed : e \in host.completed
    BY <1>2
  <2>4. \A t \in Nat : Names(r, t) => Names(proc[p], t)
    BY <1>6
  <2> HIDE DEF q, l
  <2>5. QED
    BY <1>2, <1>6, <2>1, <2>2, <2>3, <2>4, NumbersStep
<1>12. ASSUME NEW d \in Calls, NEW t \in Nat, Follows(d, t)' PROVE FollowedTurn(d, t)'
  <2>1. t # None /\ call'[d].proc = call[d].proc /\ call[d].proc \in Procs
    BY <1>4, <1>5, <1>12 DEF Follows, Expects, IInv, Stages
  <2>2. AnswerOf(proc'[call[d].proc], d, t) => AnswerOf(proc[call[d].proc], d, t)
    BY <1>1, <1>2, <1>3, <2>1, AnswersTaken
  <2>3. FollowedTurn(d, t)
    <3>1. Follows(d, t)
      <4>1. CASE d = c
        <5>1. Expects(call'[c]) /\ l.turn = t /\ call[c].stage = "turn"
          BY <1>4, <1>5, <1>10, <1>12, <4>1 DEF Follows, Expects
        <5> HIDE DEF q, l
        <5>2. QED
          BY <1>4, <1>9, <2>1, <4>1, <5>1 DEF Follows, q
      <4>2. CASE d # c
        BY <1>5, <1>12, <2>1, <2>2, <4>2 DEF Follows
      <4>3. QED
        BY <4>1, <4>2
    <3>2. QED
      BY <3>1 DEF Followed
  <2>4. call'[d].stage = "wait" => call'[d] = call[d]
    BY <1>4, <1>5
  <2>5. /\ l.kind # "item" /\ l.kind # "delta" /\ host'.text[t] = host.text[t]
        /\ <<t, TRUE>> \in host'.completed => <<t, TRUE>> \in host.completed
    BY <1>2
  <2>6. QED
    BY <1>1, <1>2, <1>3, <2>1, <2>3, <2>4, <2>5, WholeTaken
<1>13. QED
  BY <1>11, <1>12 DEF Followed

\* A request is sent: a call that asks for its turn has no answer yet.
LEMMA SendWhole ==
  ASSUME IInv, Numbered, Followed, NEW c \in Calls, NEW p \in Procs, NEW record \in Call,
         NEW stage \in Sent, NEW config \in Skills,
         call[c].ans # "none" \/ call[c].stage = "idle", Sends(c, record, p, stage, config),
         record.turn = call[c].turn \/ record.turn = None,
         host'.completed = host.completed, host'.text = host.text, turns' = turns
  PROVE  Numbered' /\ Followed'
<1> DEFINE s == Requested(p, c, Method(stage), config)
           k == [record EXCEPT !.stage = stage, !.ans = "none", !.proc = p]
<1>1. /\ proc[p] \in Process /\ proc \in [Procs -> Process] /\ call \in [Calls -> Call]
      /\ Matched(proc[p])
  BY DEF IInv, TypeOK, Connections
<1>2. proc' = [proc EXCEPT ![p] = s] /\ call' = [call EXCEPT ![c] = k]
  BY DEF Sends
<1>3. /\ s.out = proc[p].out /\ s.turn = proc[p].turn /\ s.sent = proc[p].sent
      /\ s.open = proc[p].open
  BY <1>1 DEF Requested, Process
<1>4. k.stage = stage /\ k.ans = "none" /\ k.proc = p /\ k.turn = record.turn
  BY DEF Call
<1> HIDE DEF s, k
<1>5. \A o \in Procs : LessSaid(proc[o], proc'[o])
  <2>1. \A o \in Procs : o # p => proc'[o] = proc[o]
    BY <1>1, <1>2
  <2>2. proc'[p] = s
    BY <1>1, <1>2
  <2>3. QED
    BY <1>3, <2>1, <2>2 DEF LessSaid
<1>6. call'[c] = k /\ \A d \in Calls : d # c => call'[d] = call[d]
  BY <1>1, <1>2
<1>7. \A t : ~AnswerOf(proc'[p], c, t)
  <2> SUFFICES ASSUME NEW i \in 1..Len(proc[p].out), proc[p].out[i].kind = "answer",
                      proc[p].out[i].by = c
               PROVE  FALSE
    BY <1>1, <1>2, <1>3 DEF AnswerOf
  <2>1. proc[p].out[i].id \in DOMAIN proc[p].pending /\ proc[p].pending[proc[p].out[i].id] = c
    BY <1>1 DEF Matched
  <2>2. Awaits(p, c)
    BY <2>1 DEF Awaits
  <2>3. QED
    BY <2>2, AwaitsOne
<1>8. stage = "turn" \/ stage \notin {"turn", "wait"}
  BY DEF Sent
<1>9. QED
  BY <1>4, <1>5, <1>6, <1>7, <1>8, WholeQuiet

LEMMA ContinuesWhole ==
  ASSUME IInv, Numbered, Followed, NEW c \in Calls, NEW p \in Procs, NEW record \in Call,
         call[c].ans # "none" \/ call[c].stage = "idle", record.op # "none",
         record.turn = call[c].turn \/ record.turn = None, Continues(c, record, p),
         turns' = turns
  PROVE  Numbered' /\ Followed'
<1> DEFINE next == IF record.op = "turn" THEN Configured(host, record.config) ELSE host
           after == FirstStage(record.op)
           stage == IF after = "roots" /\ next.applied THEN "list" ELSE after
<1>1. host \in HostState /\ record.op \in Ops /\ record.config \in Skills
  BY DEF IInv, TypeOK, Call
<1>2. Sends(c, record, p, stage, next.desired) /\ host' = next
  BY DEF Continues
<1>3. stage \in Sent /\ next.desired \in Skills /\ next.completed = host.completed
      /\ next.text = host.text
  BY <1>1 DEF FirstStage, Sent, Ops, Configured, HostState
<1> HIDE DEF stage, next
<1>4. QED
  BY <1>2, <1>3, SendWhole

LEMMA SentWhole ==
  ASSUME IInv, Numbered, Followed, NEW c \in Calls,
         Initialized(c) \/ RootsSet(c) \/ SkillsListed(c) \/ PromptSent(c)
  PROVE  Numbered' /\ Followed'
<1>1. call[c].ans # "none" /\ call[c].stage # "idle" /\ host \in HostState /\ turns' = turns
  BY DEF Initialized, RootsSet, SkillsListed, PromptSent, Answered, IInv, TypeOK
<1>2. call[c] \in Call /\ call[c].op # "none" /\ call[c].proc \in Procs
  BY <1>1, Begun
<1>3. host.desired \in Skills /\ None \in Skills
  BY <1>1 DEF HostState, Skills
<1>4. CASE Continues(c, call[c], call[c].proc)
  BY <1>1, <1>2, <1>4, ContinuesWhole
<1>5. CASE ~Continues(c, call[c], call[c].proc)
  <2>1. PICK p \in Procs, stage \in Sent, config \in Skills : Sends(c, call[c], p, stage, config)
    <3>1. CASE Initialized(c)
      <4>1. PICK stage \in {"ilist", "iroots"} :
               Sends(c, call[c], call[c].proc, stage, host.desired)
        BY <1>5, <3>1 DEF Initialized
      <4>2. stage \in Sent
        BY DEF Sent
      <4>3. QED
        BY <1>2, <1>3, <4>1, <4>2
    <3>2. CASE RootsSet(c)
      <4>1. PICK stage \in {"ilist", "list"} :
               Sends(c, call[c], call[c].proc, stage, host.desired)
        BY <3>2 DEF RootsSet
      <4>2. stage \in Sent
        BY DEF Sent
      <4>3. QED
        BY <1>2, <1>3, <4>1, <4>2
    <3>3. CASE PromptSent(c)
      <4>1. host.child \in Procs /\ Sends(c, call[c], host.child, "turn", None)
        BY <1>1, <3>3 DEF PromptSent, Live, HostState
      <4>2. "turn" \in Sent
        BY DEF Sent
      <4>3. QED
        BY <1>3, <4>1, <4>2
    <3>4. QED
      BY <1>5, <3>1, <3>2, <3>3 DEF SkillsListed
  <2>2. host' = host \/ host' = [host EXCEPT !.applied = TRUE]
    BY <1>5 DEF Initialized, RootsSet, SkillsListed, PromptSent
  <2>3. host'.completed = host.completed /\ host'.text = host.text
    BY <1>1, <2>2 DEF HostState
  <2>4. QED
    BY <1>1, <1>2, <2>1, <2>3, SendWhole
<1>6. QED
  BY <1>4, <1>5

LEMMA BeginsWhole ==
  ASSUME IInv, Numbered, Followed, NEW c \in Calls, NEW op \in Ops,
         NEW config \in (IF op = "turn" THEN Configs ELSE {None}),
         CallOnLive(c, op, config) \/ CallSpawns(c, op, config)
  PROVE  Numbered' /\ Followed'
<1> DEFINE record == [NoCall EXCEPT !.op = op, !.config = config]
<1>1. record \in Call /\ record.op # "none" /\ record.turn = None /\ record.ans = "none"
  <2>1. config \in Skills
    BY DEF Skills
  <2>2. QED
    BY <2>1 DEF NoCall, Call, Ops, None
<1>2. call[c].stage = "idle" /\ turns' = turns /\ host \in HostState
      /\ proc \in [Procs -> Process] /\ call \in [Calls -> Call]
  BY DEF CallOnLive, CallSpawns, Begins, NoCall, IInv, TypeOK
<1>3. CASE CallOnLive(c, op, config)
  <2>1. Continues(c, record, host.child) /\ host.child \in Procs
    BY <1>2, <1>3 DEF CallOnLive, Live, HostState
  <2> HIDE DEF record
  <2>2. QED
    BY <1>1, <1>2, <2>1, ContinuesWhole
<1>4. CASE CallSpawns(c, op, config)
  <2>1. Spawns(c, record)
    BY <1>4 DEF CallSpawns
  <2> HIDE DEF record
  <2> DEFINE req == [id |-> 1, method |-> "init", config |-> None, by |-> c]
             spawned == [NoProc EXCEPT !.state = "alive", !.open = TRUE, !.nextId = 2,
                           !.pending = <<c>>, !.wire = <<req>>]
             k(p) == [record EXCEPT !.stage = "init", !.proc = p]
  <2>2. PICK p \in Procs :
           /\ call' = [call EXCEPT ![c] = k(p)]
           /\ proc' = [proc EXCEPT ![p] = spawned]
           /\ host' = Spawned(p)
    BY <2>1 DEF Spawns
  <2>3. spawned.out = <<>> /\ spawned.turn = None
    BY DEF NoProc
  <2>4. k(p).stage = "init" /\ k(p).turn = None
    BY <1>1 DEF Call
  <2>5. host'.completed = host.completed /\ host'.text = host.text
    BY <1>2, <2>2 DEF Spawned, HostState
  <2> HIDE DEF req, spawned, k
  <2>6. \A o \in Procs : LessSaid(proc[o], proc'[o])
    <3>1. \A o \in Procs : o # p => proc'[o] = proc[o]
      BY <1>2, <2>2
    <3>2. proc'[p] = spawned
      BY <1>2, <2>2
    <3>3. QED
      BY <2>3, <3>1, <3>2 DEF LessSaid
  <2>7. call'[c] = k(p) /\ \A d \in Calls : d # c => call'[d] = call[d]
    BY <1>2, <2>2
  <2>8. "init" \notin {"turn", "wait"}
    OBVIOUS
  <2>9. QED
    BY <1>2, <2>4, <2>5, <2>6, <2>7, <2>8, WholeQuiet
<1>5. QED
  BY <1>3, <1>4

\* A call ends; the text of the turn that is forgotten with it is nobody else's.
LEMMA OverWhole ==
  ASSUME IInv, Numbered, Followed, NEW c \in Calls,
         \/ TurnReturns(c) \/ TurnThrows(c) \/ ThreadAttached(c) \/ ReadAnswered(c) \/ CallThrows(c)
  PROVE  Numbered' /\ Followed'
<1>1. call \in [Calls -> Call] /\ host \in HostState
  BY DEF IInv, TypeOK
<1>2. Ends(c) /\ proc' = proc /\ turns' = turns
  BY DEF TurnReturns, TurnThrows, ThreadAttached, ReadAnswered, CallThrows
<1>3. call'[c] = NoCall /\ \A d \in Calls : d # c => call'[d] = call[d]
  BY <1>1, <1>2 DEF Ends
<1>4. NoCall.stage = "idle" /\ NoCall.turn = None
  BY DEF NoCall
<1>5. \A o \in Procs : LessSaid(proc[o], proc'[o])
  BY <1>2 DEF LessSaid
<1>6. /\ \A e \in host'.completed : e \in host.completed
      /\ \/ host'.text = host.text
         \/ call[c].stage = "wait"
  <2>1. CASE TurnReturns(c) \/ TurnThrows(c)
    <3> DEFINE t == call[c].turn
               left == {e \in host.completed : e[1] # t}
    <3>1. host' = TurnForgotten(t) /\ call[c].stage = "wait"
      BY <2>1 DEF TurnReturns, TurnThrows, Answered
    <3> HIDE DEF t
    <3>2. TurnForgotten(t).completed = left
      BY <1>1 DEF TurnForgotten, HostState
    <3>3. QED
      BY <3>1, <3>2
  <2>2. CASE ThreadAttached(c)
    BY <1>1, <2>2 DEF ThreadAttached, HostState
  <2>3. CASE ReadAnswered(c)
    BY <2>3 DEF ReadAnswered
  <2>4. CASE CallThrows(c)
    BY <1>1, <2>4 DEF CallThrows, HostState
  <2>5. QED
    BY <2>1, <2>2, <2>3, <2>4
<1>7. ASSUME NEW d \in Calls, NEW t \in Nat, Follows(d, t), call'[d].stage \in {"turn", "wait"}
      PROVE  host'.text[t] = host.text[t]
  <2>1. d # c
    BY <1>3, <1>4, <1>7
  <2>2. call[d].stage \in {"turn", "wait"}
    BY <1>7 DEF Follows, Expects
  <2>3. call[c].stage # "wait"
    BY <2>1, <2>2 DEF IInv, Stages
  <2>4. QED
    BY <1>6, <2>3
<1>8. QED
  BY <1>2, <1>3, <1>4, <1>5, <1>6, <1>7, WholeQuiet

LEMMA TurnStartedWhole ==
  ASSUME IInv, Numbered, Followed, NEW c \in Calls, TurnStarted(c)
  PROVE  Numbered' /\ Followed'
<1> DEFINE t == call[c].turn
           k == [call[c] EXCEPT !.stage = "wait", !.ans = WaitForTurn(c, t)]
<1>1. call \in [Calls -> Call] /\ host \in HostState
  BY DEF IInv, TypeOK
<1>2. /\ call[c].stage = "turn" /\ call[c].ans = "ok" /\ proc' = proc /\ turns' = turns
      /\ call' = [call EXCEPT ![c] = k]
      /\ host' = [host EXCEPT !.active = t, !.completed = {e \in host.completed : e[1] # t}]
  BY DEF TurnStarted, Answered
<1>3. host'.text = host.text /\ \A e \in host'.completed : e \in host.completed
  BY <1>1, <1>2 DEF HostState
<1>4. k.stage = "wait" /\ k.turn = t /\ k.proc = call[c].proc /\ k.ans = WaitForTurn(c, t)
  BY <1>1 DEF Call
<1>5. WaitForTurn(c, t) = "ok" => <<t, TRUE>> \in host.completed
  <2> DEFINE done == {e \in host.completed : e[1] = t}
             e0 == CHOOSE e \in done : TRUE
  <2> SUFFICES ASSUME WaitForTurn(c, t) = "ok" PROVE <<t, TRUE>> \in host.completed
    OBVIOUS
  <2>1. done # {} /\ e0[2]
    BY DEF WaitForTurn
  <2>2. e0 \in done
    BY <2>1
  <2> HIDE DEF e0
  <2>3. e0 \in Nat \X BOOLEAN /\ e0[1] = t /\ e0 \in host.completed
    BY <1>1, <2>2 DEF HostState
  <2>4. e0 = <<t, TRUE>>
    <3>1. PICK n \in Nat, b \in BOOLEAN : e0 = <<n, b>>
      BY <2>3
    <3>2. n = t /\ b
      BY <2>1, <2>3, <3>1
    <3>3. QED
      BY <3>1, <3>2
  <2>5. QED
    BY <2>3, <2>4
<1>6. \A o \in Procs : LessSaid(proc[o], proc'[o])
  BY <1>2 DEF LessSaid
<1> HIDE DEF k
<1>7. call'[c] = k /\ \A d \in Calls : d # c => call'[d] = call[d]
  BY <1>1, <1>2
<1>8. QED
  BY <1>2, <1>3, <1>4, <1>5, <1>6, <1>7, WholeQuiet

\* The end of a connection, of a process or of the host: whoever is rejected follows no turn.
LEMMA ClosedWhole ==
  ASSUME IInv, Numbered, Followed, None \notin Procs,
         \/ \E p \in Procs : HandleMalformed(p) \/ HandleInvalidNotification(p)
                             \/ ProcessExits(p) \/ OtherExits(p)
         \/ \E c \in Calls : InitializeFails(c)
         \/ Shutdown
  PROVE  Numbered' /\ Followed'
<1>1. call \in [Calls -> Call] /\ host \in HostState /\ proc \in [Procs -> Process]
  BY DEF IInv, TypeOK
<1>2. host'.completed = host.completed /\ host'.text = host.text /\ turns' = turns
  <2>1. ASSUME NEW p \in Procs, HandleMalformed(p) \/ HandleInvalidNotification(p) \/ OtherExits(p)
        PROVE  host' = host /\ turns' = turns
    BY <2>1 DEF HandleMalformed, HandleInvalidNotification, OtherExits
  <2>2. ASSUME NEW p \in Procs, ProcessExits(p)
        PROVE  host'.completed = host.completed /\ host'.text = host.text /\ turns' = turns
    BY <1>1, <2>2 DEF ProcessExits, ExitHandled, HostState
  <2>3. ASSUME NEW c \in Calls, InitializeFails(c)
        PROVE  host'.completed = host.completed /\ host'.text = host.text /\ turns' = turns
    BY <1>1, <2>3 DEF InitializeFails, HostState
  <2>4. ASSUME Shutdown
        PROVE  host'.completed = host.completed /\ host'.text = host.text /\ turns' = turns
    BY <1>1, <2>4 DEF Shutdown, HostState
  <2>5. QED
    BY <2>1, <2>2, <2>3, <2>4
<1>3. \A o \in Procs : LessSaid(proc[o], proc'[o])
  <2>1. ASSUME NEW p \in Procs, NEW r, proc' = [proc EXCEPT ![p] = r],
               LessSaid(proc[p], r)
        PROVE  \A o \in Procs : LessSaid(proc[o], proc'[o])
    <3>1. proc'[p] = r /\ \A o \in Procs : o # p => proc'[o] = proc[o]
      BY <1>1, <2>1
    <3>2. QED
      BY <2>1, <3>1 DEF LessSaid
  <2>2. ASSUME NEW p \in Procs
        PROVE  /\ LessSaid(proc[p], Failed(p)) /\ LessSaid(proc[p], Killed(p))
               /\ LessSaid(proc[p], [Failed(p) EXCEPT !.state = "crashed"])
               /\ LessSaid(proc[p], [proc[p] EXCEPT !.state = "exited"])
    <3>1. proc[p] \in Process
      BY <1>1
    <3>2. QED
      BY <3>1 DEF LessSaid, Failed, Killed, Process
  <2>3. ASSUME NEW p \in Procs,
               HandleMalformed(p) \/ HandleInvalidNotification(p) \/ ProcessExits(p) \/ OtherExits(p)
        PROVE  \A o \in Procs : LessSaid(proc[o], proc'[o])
    <3>1. CASE HandleMalformed(p)
      BY <2>1, <2>2, <3>1 DEF HandleMalformed
    <3>2. CASE HandleInvalidNotification(p)
      BY <3>2 DEF HandleInvalidNotification, LessSaid
    <3>3. CASE ProcessExits(p)
      BY <2>1, <2>2, <3>3 DEF ProcessExits
    <3>4. CASE OtherExits(p)
      <4>1. proc' = [proc EXCEPT ![p] = [proc[p] EXCEPT !.state = "exited"]]
        BY <3>4 DEF OtherExits
      <4>2. QED
        BY <2>1, <2>2, <4>1
    <3>5. QED
      BY <2>3, <3>1, <3>2, <3>3, <3>4
  <2>4. ASSUME NEW c \in Calls, InitializeFails(c)
        PROVE  \A o \in Procs : LessSaid(proc[o], proc'[o])
    <3>1. call[c].proc \in Procs
      BY <2>4 DEF InitializeFails, IInv, Stages
    <3>2. proc' = [proc EXCEPT ![call[c].proc] = Killed(call[c].proc)]
      BY <2>4 DEF InitializeFails, GivenUp
    <3>3. QED
      BY <2>1, <2>2, <3>1, <3>2
  <2>5. ASSUME Shutdown PROVE \A o \in Procs : LessSaid(proc[o], proc'[o])
    <3>1. CASE host.child # None
      <4>1. host.child \in Procs /\ proc' = [proc EXCEPT ![host.child] = Killed(host.child)]
        BY <1>1, <2>5, <3>1 DEF Shutdown, HostState
      <4>2. QED
        BY <2>1, <2>2, <4>1
    <3>2. CASE host.child = None
      BY <2>5, <3>2 DEF Shutdown, LessSaid
    <3>3. QED
      BY <3>1, <3>2
  <2>6. QED
    BY <2>3, <2>4, <2>5
<1>4. \A d \in Calls : \/ call'[d] = call[d]
                       \/ call'[d] = NoCall
                       \/ call'[d].ans = "error" /\ call'[d].turn = call[d].turn
  <2>1. ASSUME NEW p \in Procs, NEW cs \in [Calls -> Call]
        PROVE  /\ \A d \in Calls : \/ Rejected(cs, p)[d] = cs[d]
                                   \/ /\ Rejected(cs, p)[d].ans = "error"
                                      /\ Rejected(cs, p)[d].turn = cs[d].turn
               /\ \A d \in Calls : \/ RejectActiveTurn(cs)[d] = cs[d]
                                   \/ /\ RejectActiveTurn(cs)[d].ans = "error"
                                      /\ RejectActiveTurn(cs)[d].turn = cs[d].turn
               /\ Rejected(cs, p) \in [Calls -> Call]
    BY RejectedIs, ActiveRejected DEF Errs
  <2>2. ASSUME NEW p \in Procs, HandleMalformed(p)
        PROVE  \A d \in Calls : \/ call'[d] = call[d]
                                \/ call'[d].ans = "error" /\ call'[d].turn = call[d].turn
    <3>1. call' = Rejected(call, p)
      BY <2>2 DEF HandleMalformed
    <3>2. QED
      BY <1>1, <2>1, <3>1
  <2>3. ASSUME NEW p \in Procs, HandleInvalidNotification(p)
        PROVE  \A d \in Calls : \/ call'[d] = call[d]
                                \/ call'[d].ans = "error" /\ call'[d].turn = call[d].turn
    <3>1. call' = RejectActiveTurn(call)
      BY <2>3 DEF HandleInvalidNotification
    <3>2. QED
      BY <1>1, <2>1, <3>1
  <2>4. ASSUME NEW p \in Procs
        PROVE  \A d \in Calls : \/ RejectActiveTurn(Rejected(call, p))[d] = call[d]
                                \/ /\ RejectActiveTurn(Rejected(call, p))[d].ans = "error"
                                   /\ RejectActiveTurn(Rejected(call, p))[d].turn = call[d].turn
    <3> DEFINE cs == Rejected(call, p)
    <3>1. /\ cs \in [Calls -> Call]
          /\ \A d \in Calls : cs[d] = call[d] \/ (cs[d].ans = "error" /\ cs[d].turn = call[d].turn)
      BY <1>1, <2>1
    <3> HIDE DEF cs
    <3>2. \A d \in Calls : \/ RejectActiveTurn(cs)[d] = cs[d]
                           \/ /\ RejectActiveTurn(cs)[d].ans = "error"
                              /\ RejectActiveTurn(cs)[d].turn = cs[d].turn
      BY <2>1, <3>1
    <3>3. QED
      BY <3>1, <3>2 DEF cs
  <2>5. ASSUME NEW p \in Procs, ProcessExits(p)
        PROVE  \A d \in Calls : \/ call'[d] = call[d]
                                \/ call'[d].ans = "error" /\ call'[d].turn = call[d].turn
    <3>1. call' = RejectActiveTurn(Rejected(call, p))
      BY <2>5 DEF ProcessExits
    <3>2. QED
      BY <2>4, <3>1
  <2>6. ASSUME NEW c \in Calls, InitializeFails(c)
        PROVE  \A d \in Calls : \/ call'[d] = call[d]
                                \/ call'[d] = NoCall
                                \/ call'[d].ans = "error" /\ call'[d].turn = call[d].turn
    <3> DEFINE cs == [call EXCEPT ![c] = NoCall]
    <3>1. call' = Rejected(cs, call[c].proc) /\ call[c].proc \in Procs /\ call[c].ans # "none"
      BY <2>6 DEF InitializeFails, IInv, Stages
    <3>2. cs \in [Calls -> Call] /\ cs[c] = NoCall /\ \A d \in Calls : d # c => cs[d] = call[d]
      <4>1. NoCall \in Call
        BY DEF NoCall, Call, Skills, None
      <4>2. QED
        BY <1>1, <4>1
    <3> HIDE DEF cs
    <3>3. \A d \in Calls : \/ Awaits(call[c].proc, d) /\ Errs(cs[d], call'[d])
                           \/ call'[d] = cs[d]
      BY <3>1, <3>2, RejectedIs
    <3>4. ~Awaits(call[c].proc, c)
      BY <3>1, AwaitsOne
    <3>5. QED
      BY <3>2, <3>3, <3>4 DEF Errs
  <2>7. ASSUME Shutdown
        PROVE  \A d \in Calls : \/ call'[d] = call[d]
                                \/ call'[d].ans = "error" /\ call'[d].turn = call[d].turn
    <3>1. CASE host.child # None
      <4>1. host.child \in Procs /\ call' = RejectActiveTurn(Rejected(call, host.child))
        BY <1>1, <2>7, <3>1 DEF Shutdown, HostState
      <4>2. QED
        BY <2>4, <4>1
    <3>2. CASE host.child = None
      <4>1. call' = RejectActiveTurn(call)
        BY <2>7, <3>2 DEF Shutdown
      <4>2. QED
        BY <1>1, <4>1, ActiveRejected DEF Errs
    <3>3. QED
      BY <3>1, <3>2
  <2>8. ASSUME NEW p \in Procs, OtherExits(p) PROVE call' = call
    BY <2>8 DEF OtherExits
  <2>9. QED
    BY <2>2, <2>3, <2>5, <2>6, <2>7, <2>8
<1>5. NoCall.stage \notin {"turn", "wait"} /\ NoCall.turn = None
  BY DEF NoCall
<1>6. QED
  BY <1>2, <1>3, <1>4, <1>5, WholeQuiet

\* Every step keeps the reply whole.
LEMMA WholeKept ==
  ASSUME IInv, Numbered, Followed, None \notin Procs, MaxTurns \in Nat, [Next]_vars
  PROVE  Numbered' /\ Followed'
<1>1. CASE ConnectionSteps
  BY <1>1, ResponseWhole, ClosedWhole, MessageWhole, TurnCompletedWhole DEF ConnectionSteps
<1>2. CASE ServerSteps
  BY <1>2, RefusesWhole, StartsWhole, StreamsWhole, CompletesWhole DEF ServerSteps
<1>3. CASE HostSteps
  <2>1. ASSUME NEW c \in Calls, NEW op \in Ops,
               NEW config \in (IF op = "turn" THEN Configs ELSE {None}),
               CallOnLive(c, op, config) \/ CallSpawns(c, op, config)
        PROVE  Numbered' /\ Followed'
    BY <2>1, BeginsWhole
  <2>2. ASSUME NEW c \in Calls,
               \/ Initialized(c) \/ RootsSet(c) \/ SkillsListed(c) \/ InitializeFails(c)
               \/ PromptSent(c) \/ TurnStarted(c) \/ TurnReturns(c) \/ TurnThrows(c)
               \/ ThreadAttached(c) \/ ReadAnswered(c) \/ CallThrows(c)
        PROVE  Numbered' /\ Followed'
    BY <2>2, SentWhole, ClosedWhole, TurnStartedWhole, OverWhole
  <2>3. ASSUME NEW p \in Procs, ProcessExits(p) \/ OtherExits(p) PROVE Numbered' /\ Followed'
    BY <2>3, ClosedWhole
  <2>4. QED
    BY <1>3, <2>1, <2>2, <2>3, ClosedWhole DEF HostSteps, Ops
<1>4. CASE UNCHANGED vars
  <2>1. proc' = proc /\ call' = call /\ host' = host /\ turns' = turns
    BY <1>4 DEF vars
  <2>2. \A p \in Procs : LessSaid(proc[p], proc'[p])
    BY <2>1 DEF LessSaid
  <2>3. QED
    BY <2>1, <2>2, WholeQuiet
<1>5. QED
  BY <1>1, <1>2, <1>3, <1>4 DEF Next

LEMMA InitiallyAsAsked ==
  ASSUME MaxTurns \in Nat
  PROVE  Init => Skilled /\ Numbered /\ Followed /\ ReplyIsWhole
<1> SUFFICES ASSUME Init PROVE Skilled /\ Numbered /\ Followed /\ ReplyIsWhole
  OBVIOUS
<1>1. /\ \A p \in Procs : proc[p] = NoProc
      /\ \A c \in Calls : call[c] = NoCall
      /\ turns = 0 /\ host = NoHost /\ host.completed = {} /\ ~host.applied
  BY DEF Init, NoHost
<1>2. /\ NoProc.pending = <<>> /\ NoProc.wire = <<>> /\ NoProc.out = <<>>
      /\ ~NoProc.open /\ NoProc.turn = None
  BY DEF NoProc
<1>3. Len(NoProc.wire) = 0 /\ Len(NoProc.out) = 0
  BY <1>2
<1>4. /\ NoCall.stage = "idle" /\ NoCall.ans = "none" /\ NoCall.turn = None /\ None = 0
  BY DEF NoCall, None
<1>5. Skilled
  <2>1. Emptied /\ Wanted /\ Connected
    BY <1>1, <1>2, <1>4 DEF Emptied, Wanted, Connected
  <2>2. ASSUME NEW p \in Procs
        PROVE  Prompted(proc[p], call) /\ Equipped(p, proc[p], call, host)
    BY <1>1, <1>2, <1>3 DEF Prompted, Equipped
  <2>3. QED
    BY <2>1, <2>2 DEF Skilled
<1>6. \A p \in Procs : Ended(proc[p]) /\ \A t : ~Names(proc[p], t)
  BY <1>1, <1>2, <1>3 DEF Ended, Names
<1>7. Numbered
  <2>1. \A c \in Calls : call[c].turn <= turns /\ ~Expects(call[c])
    BY <1>1, <1>4 DEF Expects
  <2>2. turns <= MaxTurns
    BY <1>1
  <2>3. QED
    BY <1>1, <1>6, <2>1, <2>2 DEF Numbered, Counted, Apart, Kept
<1>8. Followed
  BY <1>1, <1>4 DEF Followed, Follows, Expects
<1>9. ReplyIsWhole
  BY DEF Init, ReplyIsWhole
<1>10. QED
  BY <1>5, <1>7, <1>8, <1>9

\* The text of a turn that has been told to have succeeded is whole when it is returned.
LEMMA ReplyStep ==
  ASSUME IInv, Numbered, Followed, ReplyIsWhole, [Next]_vars
  PROVE  ReplyIsWhole'
<1>1. ASSUME NEW c \in Calls, TurnReturns(c) PROVE reply' = <<Pieces>>
  <2> DEFINE t == call[c].turn
  <2>1. call[c].stage = "wait" /\ call[c].ans = "ok" /\ reply' = <<host.text[t]>>
    BY <1>1 DEF TurnReturns, Answered
  <2>2. t \in Nat /\ t # None
    BY <2>1 DEF IInv, TypeOK, Call, Numbered, Counted, Expects
  <2>3. Follows(c, t)
    BY <2>1, <2>2 DEF Follows, Expects
  <2>4. FollowedTurn(c, t)
    BY <2>2, <2>3 DEF Followed
  <2>5. host.text[t] = Pieces
    BY <2>1, <2>4 DEF FollowedTurn
  <2>6. QED
    BY <2>1, <2>5
<1>2. CASE ConnectionSteps
  BY <1>2 DEF ConnectionSteps, HandleResponse, HandleMalformed, HandleMessage,
     HandleTurnCompleted, HandleInvalidNotification, ReplyIsWhole
<1>3. CASE ServerSteps
  BY <1>3 DEF ServerSteps, ServerRefuses, ServerAnswers, ServerStartsTurn, ServerStreams,
     ServerCompletesTurn, ReplyIsWhole
<1>4. CASE HostSteps
  BY <1>1, <1>4 DEF HostSteps, CallOnLive, CallSpawns, Initialized, RootsSet, SkillsListed,
     InitializeFails, PromptSent, TurnStarted, TurnThrows, ThreadAttached, ReadAnswered,
     CallThrows, ProcessExits, OtherExits, Shutdown, ReplyIsWhole
<1>5. CASE UNCHANGED vars
  BY <1>5 DEF vars, ReplyIsWhole
<1>6. QED
  BY <1>2, <1>3, <1>4, <1>5 DEF Next

\* A turn that succeeds returns the whole of its reply, every piece of it once, and a prompt
\* is handled by a process that has the skills its call asked for, unless that process once
\* refused to set them, for any number of calls, processes, turns, skill configurations and
\* faults (codex-app-server-host.ts).  A process is never the absent one (null).
THEOREM TurnsAsAsked ==
  ASSUME None \notin Procs, MaxTurns \in Nat
  PROVE  Spec => []TurnIsAsAsked
<1> DEFINE Inv == IInv /\ Skilled /\ Numbered /\ Followed /\ ReplyIsWhole
<1>1. Init => Inv
  BY MaxTurns \in Nat, Initially, InitiallyAsAsked
<1>2. Inv /\ [Next]_vars => Inv'
  <2> SUFFICES ASSUME Inv, [Next]_vars PROVE Inv'
    OBVIOUS
  <2>1. IInv'
    BY None \notin Procs, Inductive
  <2>2. Skilled'
    BY <2>1, None \notin Procs, SkillsKept
  <2>3. Numbered' /\ Followed'
    BY None \notin Procs, MaxTurns \in Nat, WholeKept
  <2>4. ReplyIsWhole'
    BY ReplyStep
  <2>5. QED
    BY <2>1, <2>2, <2>3, <2>4
<1>3. Inv => TurnIsAsAsked
  <2> SUFFICES ASSUME Inv PROVE TurnIsAsAsked
    OBVIOUS
  <2>1. ASSUME NEW p \in Procs, NEW i \in DOMAIN proc[p].wire, i = 1,
               proc[p].wire[i].method = "turn", ~proc[p].refused
        PROVE  proc[p].roots = call[proc[p].wire[i].by].config
    <3> DEFINE q == proc[p]
               config == call[q.wire[1].by].config
    <3>1. q.wire \in Seq(Req)
      BY LineTypes DEF IInv, TypeOK
    <3>2. 1 \in 1..Len(q.wire)
      BY <2>1, <3>1
    <3>3. Prompted(q, call)
      BY DEF Skilled
    <3>4. HasSkills(q, 1, config)
      BY <2>1, <3>2, <3>3 DEF Prompted
    <3>5. \A j \in Roots(q, config) : j \in Nat /\ j >= 1
      BY <3>1 DEF Roots
    <3>6. q.roots = config
      BY <3>4, <3>5 DEF HasSkills, Lasts
    <3>7. QED
      BY <2>1, <3>6
  <2>2. QED
    BY <2>1 DEF TurnIsAsAsked, TurnHasItsSkills
<1>4. QED
  BY <1>1, <1>2, <1>3, PTL DEF Spec
=============================================================================
