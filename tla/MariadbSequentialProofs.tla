---------------------- MODULE MariadbSequentialProofs ----------------------
(***************************************************************************)
(* A program that awaits each call before it makes the next, and uses the  *)
(* default throwOnError, is never told anything that the database          *)
(* contradicts: for every number of calls and connections, with or without *)
(* a pool, whatever fails, deadlocks included.  The stub then implements   *)
(* CallLedger.                                                             *)
(***************************************************************************)
EXTENDS MariadbStubProofs

Saves == {"BEGIN", "COMMIT"}

\* The first command of the wire that ends a transaction saves it ...
SaveFirst(w) ==
  \E i \in DOMAIN w : w[i].op \in Saves /\ \A j \in DOMAIN w : j < i => w[j].op # "ROLLBACK"

\* ... or rolls it back, or there is none that saves it.
RollbackFirst(w) ==
  \E i \in DOMAIN w : w[i].op = "ROLLBACK" /\ \A j \in DOMAIN w : j < i => w[j].op \notin Saves
NoSave(w) == \A i \in DOMAIN w : w[i].op \notin Saves

\* A command, or the answer to one, is somewhere in the queue.
Has(q, op) == \E i \in DOMAIN q : q[i].op = op

\* A reply tells the session's state to the call that will read it.
ReplyOK(m, s) ==
  /\ m.op = "BEGIN" /\ s.state = "open" => s.tx
  /\ m.op = "QUERY" /\ m.result = "ok" => m.tx /\ (s.state = "open" => m.call \in s.pending)
  /\ m.op = "QUERY" /\ m.result = "deadlock" => m.call \notin s.pending

\* A START TRANSACTION or a statement is the last thing in the receiveQueue,
\* and a statement not executed yet is also the next.
QueueOK(n, s) ==
  /\ \A i \in DOMAIN n.wire : n.wire[i].op \in StepOp => i = Len(n.wire)
  /\ \A i \in DOMAIN n.replies :
       /\ n.replies[i].op \in StepOp => i = Len(n.replies) /\ n.wire = <<>>
       /\ ReplyOK(n.replies[i], s)
  /\ \A i \in DOMAIN n.wire : n.wire[i].op = "QUERY" => i = 1 /\ (s.state = "open" => s.tx)

Queued == \A k \in Conns : QueueOK(conn[k], db[k])

\* The calls are made in their order, each when the one before it has settled.
OneAtATime ==
  /\ \A c, d \in Calls : pc[c] \in InFlight /\ pc[d] \in InFlight => c = d
  /\ \A c, d \in Calls : c < d /\ pc[d] # "idle" => pc[c] \in Outcome

\* A call in flight works on the stub's connection, unless a pool's end() made
\* the stub forget it meanwhile.
Holding ==
  /\ \A c \in Calls : pc[c] # "idle" => on[c] \in Conns
  /\ \A c \in Calls : pc[c] \notin {"idle", "connecting"} => conn[on[c]].status \in {"up", "closed"}
  /\ \A k \in Conns : db[k].state # "open" => db[k].pending = {}
  /\ proc = "running" =>
       /\ \A c \in Calls : pc[c] \in InFlight \ {"connecting"} =>
            /\ stub \in {on[c], None}
            /\ isValid(conn[on[c]]) \/ db[on[c]].state = "dropped"
       /\ \A k \in Conns : isValid(conn[k]) => db[k].state \in {"open", "dropped"}

\* Between its START TRANSACTION and its end a call finds the receiveQueue
\* empty, its transaction open, and what it has written in it.
Alive(c) == pc[c] \in {"begun", "answered", "handling"} \/ (pc[c] = "erring" /\ fault[c] # "fatal")
ServedOK(c) ==
  LET n == conn[on[c]]
      s == db[on[c]] IN
  /\ Alive(c) /\ isValid(n) => ~Busy(n)
  /\ pc[c] = "begun" /\ s.state = "open" => s.tx
  /\ pc[c] \in {"answered", "handling"} => /\ isValid(n) => n.tx
                                           /\ s.state = "open" => c \in s.pending
  /\ pc[c] = "erring" => IF fault[c] \in {"fatal", "deadlock"} THEN c \notin s.pending
                                                               ELSE isValid(n) => n.tx
\* Nothing will be written to connection k any more.
Left(k) ==
  \/ ~isValid(conn[k])
  \/ proc # "running"
  \/ stub # k /\ \A d \in Calls : pc[d] \in InFlight => on[d] # k

\* What a call has written is on its own connection; nothing commits it while
\* the call is in flight, nor, if the call failed, ever.
Failed == {"swallowed", "rejected", "refused"}
Unwritten == {"idle", "connecting", "checking", "beginning", "begun", "refused"}
PendingOK(c, k) ==
  /\ on[c] = k /\ pc[c] \notin Unwritten
  /\ pc[c] \in InFlight => conn[k].wire = <<>>
  /\ pc[c] \in Failed => \/ RollbackFirst(conn[k].wire)
                         \/ NoSave(conn[k].wire) /\ Left(k)

\* A later call that got past its START TRANSACTION has committed c.
InUse(d) ==
  \/ pc[d] \in {"begun", "querying", "answered", "handling", "ok", "handled"}
  \/ pc[d] = "erring" /\ fault[d] # "fatal"
Saved(c) == c \in durable \/ db[on[c]].state = "dropped"
HandledOK(c) ==
  LET n == conn[on[c]]
      s == db[on[c]] IN
  /\ s.state = "open" => c \in durable \/ c \in s.pending
  /\ \A d \in Calls : InUse(d) /\ c < d /\ on[d] = on[c] => Saved(c)
  /\ Has(n.replies, "BEGIN") => Saved(c)
  /\ Has(n.wire, "ROLLBACK") => Saved(c)

\* DurableSuccess, for one call.
OkOK(c) ==
  \/ Saved(c)
  \/ /\ db[on[c]].state = "open" /\ c \in db[on[c]].pending
     /\ SaveFirst(conn[on[c]].wire)

CallKept(c) ==
  /\ proc = "running" => ServedOK(c)
  /\ \A k \in Conns : c \in db[k].pending => PendingOK(c, k)
  /\ c \in durable => pc[c] \in {"ok", "handled"}
  /\ pc[c] = "handled" => HandledOK(c)
  /\ pc[c] = "ok" => OkOK(c)

Kept == Holding /\ Queued /\ \A c \in Calls : CallKept(c)

SequentialInv == StageInv /\ ~opt.throwOnError /\ OneAtATime /\ Kept

-----------------------------------------------------------------------------
(* The wire.                                                                *)

\* Writing a command at the end of the wire changes nothing for what is
\* before it.
LEMMA AppendDecides ==
  ASSUME NEW w \in Seq(Command), NEW m \in Command
  PROVE  /\ SaveFirst(w) => SaveFirst(Append(w, m))
         /\ RollbackFirst(w) => RollbackFirst(Append(w, m))
         /\ NoSave(w) /\ m.op \notin Saves => NoSave(Append(w, m))
         /\ NoSave(w) /\ m.op = "ROLLBACK" => RollbackFirst(Append(w, m))
<1> DEFINE a == Append(w, m)
<1>1. /\ Len(w) \in Nat /\ DOMAIN w = 1..Len(w) /\ DOMAIN a = 1..(Len(w) + 1)
      /\ \A i \in DOMAIN w : a[i] = w[i]
      /\ a[Len(w) + 1] = m
  OBVIOUS
<1> HIDE DEF a
<1>2. SaveFirst(w) => SaveFirst(a)
  BY <1>1 DEF SaveFirst
<1>3. RollbackFirst(w) => RollbackFirst(a)
  BY <1>1 DEF RollbackFirst
<1>4. NoSave(w) /\ m.op \notin Saves => NoSave(a)
  BY <1>1 DEF NoSave
<1>5. NoSave(w) /\ m.op = "ROLLBACK" => RollbackFirst(a)
  BY <1>1 DEF NoSave, RollbackFirst
<1> QED
  BY <1>2, <1>3, <1>4, <1>5 DEF a

\* A single command on the wire decides.
LEMMA AloneDecides ==
  ASSUME NEW m \in Command
  PROVE  /\ m.op \in Saves => SaveFirst(Append(<<>>, m))
         /\ NoSave(<<>>) /\ ~SaveFirst(<<>>) /\ ~RollbackFirst(<<>>)
<1>1. Append(<<>>, m) = <<m>> /\ DOMAIN <<m>> = {1} /\ <<m>>[1] = m /\ DOMAIN <<>> = {}
  OBVIOUS
<1> QED
  BY <1>1 DEF SaveFirst, RollbackFirst, NoSave

\* Executing the command at the head of the wire: what it must be, and what
\* the rest of the wire will do.
LEMMA TailDecides ==
  ASSUME NEW w \in Seq(Command), w # <<>>
  PROVE  LET h == Head(w) IN
         /\ SaveFirst(w) => h.op # "ROLLBACK" /\ (h.op \in Saves \/ SaveFirst(Tail(w)))
         /\ RollbackFirst(w) => h.op \notin Saves /\ (h.op = "ROLLBACK" \/ RollbackFirst(Tail(w)))
         /\ NoSave(w) => h.op \notin Saves /\ NoSave(Tail(w))
<1> DEFINE h == Head(w)  t == Tail(w)
<1>1. /\ Len(w) \in Nat \ {0} /\ DOMAIN w = 1..Len(w) /\ h = w[1]
      /\ DOMAIN t = 1..(Len(w) - 1)
      /\ \A i \in DOMAIN t : t[i] = w[i + 1]
  BY TailFacts
<1> HIDE DEF h, t
<1>2. SaveFirst(w) => h.op # "ROLLBACK" /\ (h.op \in Saves \/ SaveFirst(t))
  <2> SUFFICES ASSUME NEW i \in DOMAIN w, w[i].op \in Saves,
                      \A j \in DOMAIN w : j < i => w[j].op # "ROLLBACK"
               PROVE  h.op # "ROLLBACK" /\ (h.op \in Saves \/ SaveFirst(t))
    BY DEF SaveFirst
  <2>1. CASE i = 1
    BY <1>1, <2>1 DEF Saves
  <2>2. CASE i # 1
    <3>1. /\ i - 1 \in DOMAIN t /\ t[i - 1].op \in Saves
          /\ \A j \in DOMAIN t : j < i - 1 => t[j].op # "ROLLBACK"
      BY <1>1, <2>2
    <3> QED
      BY <1>1, <2>2, <3>1 DEF SaveFirst
  <2> QED
    BY <2>1, <2>2
<1>3. RollbackFirst(w) => h.op \notin Saves /\ (h.op = "ROLLBACK" \/ RollbackFirst(t))
  <2> SUFFICES ASSUME NEW i \in DOMAIN w, w[i].op = "ROLLBACK",
                      \A j \in DOMAIN w : j < i => w[j].op \notin Saves
               PROVE  h.op \notin Saves /\ (h.op = "ROLLBACK" \/ RollbackFirst(t))
    BY DEF RollbackFirst
  <2>1. CASE i = 1
    BY <1>1, <2>1 DEF Saves
  <2>2. CASE i # 1
    <3>1. /\ i - 1 \in DOMAIN t /\ t[i - 1].op = "ROLLBACK"
          /\ \A j \in DOMAIN t : j < i - 1 => t[j].op \notin Saves
      BY <1>1, <2>2
    <3> QED
      BY <1>1, <2>2, <3>1 DEF RollbackFirst
  <2> QED
    BY <2>1, <2>2
<1>4. NoSave(w) => h.op \notin Saves /\ NoSave(t)
  BY <1>1 DEF NoSave
<1> QED
  BY <1>2, <1>3, <1>4 DEF h, t

\* Nothing is left of a queue of one.
LEMMA AloneTail ==
  ASSUME NEW S, NEW q \in Seq(S), Len(q) = 1
  PROVE  Tail(q) = <<>>
<1>1. \A p \in Seq(S) : Len(p) = 0 => p = <<>>
  OBVIOUS
<1>2. q # <<>>
  OBVIOUS
<1>3. Tail(q) \in Seq(S) /\ Len(Tail(q)) = 0
  BY <1>2
<1> QED
  BY <1>1, <1>3

\* What is left in a queue that has lost its head was in it.
LEMMA HasTail ==
  ASSUME NEW S, NEW q \in Seq(S), q # <<>>, NEW op
  PROVE  Has(Tail(q), op) => Has(q, op)
BY TailFacts DEF Has

\* What is in a queue that has gained a command was in it or is that command.
LEMMA HasAppended ==
  ASSUME NEW S, NEW q \in Seq(S), NEW m, NEW op
  PROVE  Has(Append(q, m), op) <=> Has(q, op) \/ m.op = op
<1>1. \A i \in DOMAIN Append(q, m) : (i \in DOMAIN q /\ q[i] = Append(q, m)[i]) \/ Append(q, m)[i] = m
  OBVIOUS
<1>2. \A i \in DOMAIN q : i \in DOMAIN Append(q, m) /\ Append(q, m)[i] = q[i]
  OBVIOUS
<1>3. Len(q) + 1 \in DOMAIN Append(q, m) /\ Append(q, m)[Len(q) + 1] = m
  OBVIOUS
<1> QED
  BY <1>1, <1>2, <1>3, Zenon DEF Has

\* There is nothing in an empty queue.
LEMMA HasEmpty == \A op : ~Has(<<>>, op)
<1>1. DOMAIN <<>> = {}
  OBVIOUS
<1> QED
  BY <1>1 DEF Has

-----------------------------------------------------------------------------
(* The receiveQueue.                                                        *)

\* A reply that is no step's says nothing of the session.
LEMMA OtherReplies ==
  ASSUME NEW m \in Reply, m.op \notin StepOp, NEW s
  PROVE  ReplyOK(m, s)
BY DEF ReplyOK, StepOp

\* A command may join a queue that holds no step; a statement only an empty one.
LEMMA QueueAdd ==
  ASSUME NEW n \in Endpoint, NEW s \in Session, NEW op \in Op, NEW c \in Calls,
         \A o \in StepOp, d \in Calls : ~Asks(n, o, d),
         op = "QUERY" => ~Busy(n) /\ (s.state = "open" => s.tx)
  PROVE  QueueOK(addCommand(n, op, c), s)
<1> DEFINE a == addCommand(n, op, c)
           m == [op |-> op, call |-> c]
<1>1. /\ a.replies = n.replies /\ a.wire = Append(n.wire, m)
      /\ n.wire \in Seq(Command) /\ n.replies \in Seq(Reply)
  BY AddCommandAsks, EndpointFields
<1>2. /\ Len(n.wire) \in Nat /\ DOMAIN n.wire = 1..Len(n.wire)
      /\ DOMAIN a.wire = 1..(Len(n.wire) + 1) /\ Len(a.wire) = Len(n.wire) + 1
      /\ \A i \in DOMAIN n.wire : a.wire[i] = n.wire[i] /\ n.wire[i] \in Command
      /\ a.wire[Len(n.wire) + 1] = m
  BY <1>1
<1>3. /\ \A i \in DOMAIN n.wire : n.wire[i].op \notin StepOp
      /\ \A i \in DOMAIN n.replies : n.replies[i] \in Reply /\ n.replies[i].op \notin StepOp
  <2>1. \A i \in DOMAIN n.replies : n.replies[i] \in Reply
    BY <1>1
  <2> QED
    BY <1>2, <2>1 DEF Asks, Command, Reply
<1>4. n.wire = <<>> => Len(n.wire) = 0
  OBVIOUS
<1> HIDE DEF a
<1>5. \A i \in DOMAIN a.wire : a.wire[i].op \in StepOp => i = Len(a.wire)
  BY <1>2, <1>3
<1>6. \A i \in DOMAIN a.wire : a.wire[i].op = "QUERY" => i = 1 /\ (s.state = "open" => s.tx)
  BY <1>2, <1>3, <1>4 DEF StepOp, Busy
<1>7. \A i \in DOMAIN a.replies : a.replies[i].op \notin StepOp /\ ReplyOK(a.replies[i], s)
  BY <1>1, <1>3, OtherReplies
<1> QED
  BY <1>5, <1>6, <1>7 DEF QueueOK, a

\* Ending, losing and reading a connection, and the end of its session, keep
\* the queue in order.
LEMMA QueueKept ==
  ASSUME NEW n \in Endpoint, NEW s \in Session, QueueOK(n, s)
  PROVE  /\ QueueOK(end(n), s)
         /\ QueueOK(fatalError(n), s)
         /\ n.replies # <<>> => QueueOK(receivePacket(n), s)
         /\ \A state \in {"ended", "dropped"} : QueueOK(n, Over(s, state))
<1>0. DOMAIN <<>> = {} /\ n.replies \in Seq(Reply)
  BY EndpointFields
<1>1. QueueOK(end(n), s) /\ QueueOK(fatalError(n), s)
  BY <1>0, ClosingAsks DEF QueueOK
<1>2. ASSUME n.replies # <<>> PROVE QueueOK(receivePacket(n), s)
  <2> DEFINE a == receivePacket(n)  r == n.replies
  <2>1. a.wire = n.wire /\ a.replies = Tail(r)
    BY <1>2, ReceivePacketAsks
  <2>2. /\ DOMAIN Tail(r) = 1..(Len(r) - 1) /\ Len(Tail(r)) = Len(r) - 1 /\ Len(r) \in Nat
        /\ \A i \in DOMAIN Tail(r) : i + 1 \in DOMAIN r /\ Tail(r)[i] = r[i + 1]
    BY <1>0, <1>2
  <2> HIDE DEF a
  <2>3. \A i \in DOMAIN a.replies :
          /\ a.replies[i].op \in StepOp => i = Len(a.replies) /\ a.wire = <<>>
          /\ ReplyOK(a.replies[i], s)
    BY <2>1, <2>2 DEF QueueOK
  <2> QED
    BY <2>1, <2>3 DEF QueueOK, a
<1>3. ASSUME NEW state \in {"ended", "dropped"} PROVE QueueOK(n, Over(s, state))
  <2>1. Over(s, state).state = state /\ Over(s, state).pending = {}
    BY DEF Over, Session
  <2>2. \A m : ReplyOK(m, s) => ReplyOK(m, Over(s, state))
    BY <2>1 DEF ReplyOK
  <2> QED
    BY <2>1, <2>2 DEF QueueOK
<1>4. \A state \in {"ended", "dropped"} : QueueOK(n, Over(s, state))
  BY <1>3, Zenon
<1>5. n.replies # <<>> => QueueOK(receivePacket(n), s)
  BY <1>2
<1> QED
  BY <1>1, <1>4, <1>5, Zenon

\* Executing the next command keeps the queue in order.
LEMMA QueueExecuted ==
  ASSUME NEW n \in Endpoint, NEW s \in Session, QueueOK(n, s), s.state = "open", n.wire # <<>>,
         NEW result \in Result, NEW writes \in BOOLEAN,
         Head(n.wire).op # "QUERY" => result = "ok",
         Head(n.wire).op = "QUERY" /\ result = "ok" => writes
  PROVE  LET t == Executed(s, Head(n.wire), result, writes) IN
         QueueOK(Answered(n, result, t.tx), t)
<1> DEFINE h == Head(n.wire)
           t == Executed(s, h, result, writes)
           a == Answered(n, result, t.tx)
           m == [op |-> h.op, call |-> h.call, result |-> result, tx |-> t.tx]
<1>1. h \in Command /\ t \in Session /\ t.tx \in BOOLEAN
  BY ExecuteType DEF Session
<1>2. /\ a.wire = Tail(n.wire)
      /\ a.replies = IF isValid(n) THEN Append(n.replies, m) ELSE n.replies
      /\ n.wire \in Seq(Command) /\ n.replies \in Seq(Reply)
  BY <1>1, AnsweredAsks, EndpointFields
<1>3. /\ Len(n.wire) \in Nat \ {0} /\ h = n.wire[1] /\ 1 \in DOMAIN n.wire
      /\ DOMAIN Tail(n.wire) = 1..(Len(n.wire) - 1) /\ Len(Tail(n.wire)) = Len(n.wire) - 1
      /\ \A i \in DOMAIN Tail(n.wire) : i + 1 \in DOMAIN n.wire /\ Tail(n.wire)[i] = n.wire[i + 1]
      /\ Len(n.wire) = 1 => Tail(n.wire) = <<>>
  <2>1. \A q \in Seq(Command) : q # <<>> =>
          /\ Len(q) \in Nat \ {0} /\ Head(q) = q[1] /\ 1 \in DOMAIN q
          /\ DOMAIN Tail(q) = 1..(Len(q) - 1) /\ Len(Tail(q)) = Len(q) - 1
          /\ \A i \in DOMAIN Tail(q) : i + 1 \in DOMAIN q /\ Tail(q)[i] = q[i + 1]
          /\ Tail(q) \in Seq(Command)
    OBVIOUS
  <2>2. n.wire \in Seq(Command)
    BY EndpointFields
  <2>3. \A q \in Seq(Command) : Len(q) = 0 => q = <<>>
    OBVIOUS
  <2> QED
    BY <2>1, <2>2, <2>3
<1>4. h.op = "QUERY" => s.tx
  BY <1>3 DEF QueueOK
<1>5. ReplyOK(m, t)
  <2>1. CASE h.op = "QUERY" /\ result # "deadlock"
    <3>1. t = [s EXCEPT !.pending = IF writes /\ s.tx THEN s.pending \cup {h.call} ELSE s.pending]
      BY <2>1 DEF Executed
    <3> QED
      BY <1>4, <2>1, <3>1 DEF ReplyOK, Session
  <2>2. CASE ~(h.op = "QUERY" /\ result # "deadlock")
    <3>1. t = [s EXCEPT !.tx = (h.op = "BEGIN"), !.pending = {}]
      BY <2>2 DEF Executed
    <3> QED
      BY <2>2, <3>1 DEF ReplyOK, Session
  <2> QED
    BY <2>1, <2>2
<1>6. m.op \in StepOp => a.wire = <<>>
  BY <1>2, <1>3 DEF QueueOK
<1>7. \A i \in DOMAIN n.replies : n.replies[i].op \notin StepOp /\ ReplyOK(n.replies[i], t)
  <2>1. \A i \in DOMAIN n.replies : n.replies[i] \in Reply
    BY <1>2
  <2> QED
    BY <2>1, OtherReplies DEF QueueOK
<1> HIDE DEF t, m, h
<1>8. \A i \in DOMAIN a.replies :
        /\ a.replies[i].op \in StepOp => i = Len(a.replies) /\ a.wire = <<>>
        /\ ReplyOK(a.replies[i], t)
  <2>1. CASE ~isValid(n)
    BY <1>2, <1>7, <2>1
  <2>2. CASE isValid(n)
    <3>1. \A q \in Seq(Reply) : \A x : Len(Append(q, x)) = Len(q) + 1 /\ Len(q) \in Nat /\
            \A i \in DOMAIN Append(q, x) :
              \/ i \in DOMAIN q /\ q[i] = Append(q, x)[i]
              \/ i = Len(q) + 1 /\ Append(q, x)[i] = x
      OBVIOUS
    <3>2. a.replies = Append(n.replies, m)
      BY <1>2, <2>2
    <3>3. \A i \in DOMAIN a.replies : \/ i \in DOMAIN n.replies /\ n.replies[i] = a.replies[i]
                                      \/ i = Len(a.replies) /\ a.replies[i] = m
      BY <1>2, <3>1, <3>2, Zenon
    <3> HIDE DEF a
    <3> QED
      BY <1>5, <1>6, <1>7, <3>3
  <2> QED
    BY <2>1, <2>2
<1>9. /\ \A i \in DOMAIN a.wire : a.wire[i].op \in StepOp => i = Len(a.wire)
      /\ \A i \in DOMAIN a.wire : a.wire[i].op # "QUERY"
  <2>1. \A i \in DOMAIN Tail(n.wire) : n.wire[i + 1].op \in StepOp => i + 1 = Len(n.wire)
    BY <1>3 DEF QueueOK
  <2>2. \A i \in DOMAIN Tail(n.wire) : n.wire[i + 1].op # "QUERY"
    BY <1>3 DEF QueueOK
  <2>3. a.wire = Tail(n.wire)
    BY <1>2
  <2> HIDE DEF a
  <2> QED
    BY <1>3, <2>1, <2>2, <2>3
<1> QED
  BY <1>8, <1>9 DEF QueueOK, a, h, t

-----------------------------------------------------------------------------
(* One call at a time.                                                      *)

\* What a step does to where a call stands: a call that is settled stays so,
\* and an idle one moves only by being made.
LEMMA PcMoves ==
  ASSUME StageInv, [Next]_vars, NEW c \in Calls
  PROVE  \/ pc'[c] = pc[c]
         \/ pc[c] \in InFlight /\ pc'[c] # "idle"
         \/ \E m \in Modes : Reuse(c, m) \/ \E k \in Conns : Connect(c, m, k)
<1> USE DEF StageInv, stubVars
<1> DEFINE Moves == pc'[c] = pc[c] \/ (pc[c] \in InFlight /\ pc'[c] # "idle")
<1>1. ASSUME NEW d \in Calls, NEW m \in Modes, d # c, Reuse(d, m) \/ \E k \in Conns : Connect(d, m, k)
      PROVE  Moves
  BY <1>1 DEF Reuse, Connect, TypeOK
<1>2. ASSUME NEW d \in Calls, pc[d] \in InFlight, NEW st, st # "idle", pc' = [pc EXCEPT ![d] = st]
      PROVE  Moves
  BY <1>2 DEF TypeOK
<1>3. ASSUME UNCHANGED pc PROVE Moves
  BY <1>3
<1>4. ASSUME NEW d \in Calls, Connected(d) \/ ConnectFails(d) \/ Check(d) \/ Begun(d) PROVE Moves
  <2>1. /\ pc[d] \in {"connecting", "checking", "begun"}
        /\ \/ UNCHANGED pc
           \/ \E st \in {"checking", "rejected", "beginning", "erring", "refused", "querying"} :
                 pc' = [pc EXCEPT ![d] = st]
    BY <1>4 DEF Connected, ConnectFails, Check, Begun, Resumes, Issue, Fails
  <2>2. pc[d] \in InFlight
    BY <2>1 DEF InFlight, Continuation
  <2> HIDE DEF Moves
  <2> QED
    BY <1>2, <1>3, <2>1, <2>2
<1>5. ASSUME NEW d \in Calls, Handled(d) \/ HandledLater(d) \/ Succeeds(d) \/ _handleError(d) PROVE Moves
  <2>1. /\ pc[d] \in {"answered", "handling", "erring"}
        /\ \E st \in {"handled", "handling", "erring", "ok", "rejected", "swallowed"} :
              pc' = [pc EXCEPT ![d] = st]
    BY <1>5 DEF Handled, HandledLater, HandlerSettles, Fails, Succeeds, _handleError, Resumes
  <2>2. pc[d] \in InFlight
    BY <2>1 DEF InFlight, Continuation
  <2> HIDE DEF Moves
  <2> QED
    BY <1>2, <2>1, <2>2
<1>6. ASSUME NEW k \in Conns, Deliver(k) PROVE Moves
  <2> DEFINE r == Head(conn[k].replies)
  <2>1. \/ UNCHANGED pc
        \/ r.op \in StepOp /\ \E st \in {"begun", "answered", "erring"} : pc' = [pc EXCEPT ![r.call] = st]
    BY <1>6 DEF Deliver, Fails, StepOp
  <2>2. r \in Reply /\ Asks(conn[k], r.op, r.call)
    BY <1>6, ReceivePacketType, ReceivePacketAsks DEF Deliver, TypeOK
  <2>3. r.call \in Calls /\ (r.op \in StepOp => pc[r.call] \in InFlight)
    BY <2>2 DEF Staged, Reply, StepOp, InFlight
  <2> HIDE DEF r, Moves
  <2> QED
    BY <1>2, <1>3, <2>1, <2>3
<1>7. ASSUME NEW k \in Conns, SocketError(k) PROVE Moves
  BY <1>7 DEF SocketError, Waiting, TypeOK, InFlight
<1>8. ASSUME NEW m \in Modes, NEW d \in Calls, d = c, Reuse(d, m) \/ \E k \in Conns : Connect(d, m, k)
      PROVE  \E n \in Modes : Reuse(c, n) \/ \E k \in Conns : Connect(c, n, k)
  BY <1>8
<1> HIDE DEF Moves
<1>9. ASSUME End \/ PoolEnded \/ UNCHANGED vars PROVE Moves
  BY <1>3, <1>9 DEF End, PoolEnded, vars
<1>10. ASSUME NEW k \in Conns,
              \/ SessionEnds(k) \/ Drop(k)
              \/ \E result \in Result, writes \in BOOLEAN : Execute(k, result, writes)
       PROVE  Moves
  BY <1>3, <1>10 DEF SessionEnds, Drop, Execute
<1>11. Moves \/ \E m \in Modes : Reuse(c, m) \/ \E k \in Conns : Connect(c, m, k)
  BY <1>1, <1>4, <1>5, <1>6, <1>7, <1>8, <1>9, <1>10 DEF Next, Calling, Continue
<1> QED
  BY <1>11 DEF Moves

\* The calls of a sequential program never overlap.
LEMMA NextOneAtATime ==
  ASSUME Sequential, StageInv, StageInv', OneAtATime, [Next]_vars
  PROVE  OneAtATime'
<1>0. \A c \in Calls : /\ pc[c] \in {"idle"} \cup InFlight \cup Outcome
                       /\ pc'[c] \in {"idle"} \cup InFlight \cup Outcome
  BY DEF StageInv, TypeOK, InFlight
<1>1. "idle" \notin InFlight /\ "idle" \notin Outcome /\ InFlight \cap Outcome = {}
  BY DEF InFlight, Continuation, Outcome
<1>2. CASE \E e \in Calls, m \in Modes : Reuse(e, m) \/ \E k \in Conns : Connect(e, m, k)
  <2>1. PICK e \in Calls, m \in Modes : Reuse(e, m) \/ \E k \in Conns : Connect(e, m, k)
    BY <1>2
  <2>2. /\ pc[e] = "idle" /\ \A d \in Calls : d < e => pc[d] # "idle"
        /\ \A d \in Calls : pc[d] \notin InFlight
    BY <2>1 DEF Reuse, Connect, MayCall
  <2>3. \A d \in Calls : d # e => pc'[d] = pc[d]
    BY <2>1 DEF Reuse, Connect, StageInv, TypeOK
  <2>4. pc'[e] \in InFlight
    BY <2>1 DEF Reuse, Connect, StageInv, TypeOK, InFlight
  <2>5. \A c, d \in Calls : pc'[c] \in InFlight /\ pc'[d] \in InFlight => c = d
    BY <2>2, <2>3
  <2>6. ASSUME NEW c \in Calls, NEW d \in Calls, c < d, pc'[d] # "idle"
        PROVE  pc'[c] \in Outcome
    <3>1. CASE d = e
      <4>1. c # e /\ pc[c] # "idle"
        BY <2>2, <2>6, <3>1, CallsAssumption
      <4> QED
        BY <1>0, <2>2, <2>3, <4>1
    <3>2. CASE d # e
      <4>1. pc[c] \in Outcome
        BY <2>3, <2>6, <3>2 DEF OneAtATime
      <4>2. c # e
        BY <1>1, <2>2, <4>1
      <4> QED
        BY <2>3, <4>1, <4>2
    <3> QED
      BY <3>1, <3>2
  <2> QED
    BY <2>5, <2>6 DEF OneAtATime, InFlight, Outcome
<1>3. CASE ~\E e \in Calls, m \in Modes : Reuse(e, m) \/ \E k \in Conns : Connect(e, m, k)
  <2>1. \A c \in Calls : pc'[c] = pc[c] \/ (pc[c] \in InFlight /\ pc'[c] # "idle")
    BY <1>3, PcMoves
  <2>2. \A c, d \in Calls : pc'[c] \in InFlight /\ pc'[d] \in InFlight => c = d
    BY <1>1, <2>1 DEF OneAtATime
  <2>3. \A c, d \in Calls : c < d /\ pc'[d] # "idle" => pc'[c] \in Outcome
    BY <1>1, <2>1 DEF OneAtATime
  <2> QED
    BY <2>2, <2>3 DEF OneAtATime, InFlight, Outcome
<1> QED
  BY <1>2, <1>3

-----------------------------------------------------------------------------
(* The calls that are not in flight.                                        *)

\* A step that lets the database be keeps what is known of a settled call, if
\* what it writes to the call's connection is no ROLLBACK of a handled call
\* that no later one has saved.
LEMMA SettledKept ==
  ASSUME SequentialInv, NEW c \in Calls, pc[c] \notin InFlight, pc'[c] = pc[c], on'[c] = on[c],
         c \in durable' <=> c \in durable,
         \A k \in Conns : c \in db'[k].pending => c \in db[k].pending,
         pc[c] # "idle" =>
           /\ db'[on[c]] = db[on[c]]
           /\ \/ conn'[on[c]].wire = conn[on[c]].wire /\ (Left(on[c]) => Left(on[c])')
              \/ /\ ~Left(on[c])
                 /\ \E m \in Command :
                      /\ conn'[on[c]].wire = Append(conn[on[c]].wire, m)
                      /\ m.op = "ROLLBACK" /\ pc[c] = "handled" => Saved(c)
              \/ db[on[c]].state = "dropped"
           /\ Has(conn'[on[c]].replies, "BEGIN") => Has(conn[on[c]].replies, "BEGIN")
           /\ \A d \in Calls : InUse(d)' /\ c < d /\ on'[d] = on[c] =>
                               (InUse(d) /\ on[d] = on[c]) \/ Saved(c) \/ pc[c] # "handled"
  PROVE  CallKept(c)'
<1> DEFINE j == on[c]
<1>0. TypeOK /\ Holding /\ CallKept(c)
  BY DEF SequentialInv, Kept, StageInv
<1>1. pc[c] \in {"idle"} \cup Outcome /\ pc[c] \notin InFlight /\ pc'[c] \notin InFlight
  BY <1>0 DEF TypeOK, InFlight
<1>2. pc[c] # "idle" => (Saved(c)' <=> Saved(c)) /\ db'[j] = db[j]
  BY Zenon DEF Saved
<1>3. ServedOK(c)'
  BY <1>1 DEF ServedOK, Alive, InFlight, Continuation, Outcome
<1>4. ASSUME NEW k \in Conns, c \in db[k].pending PROVE PendingOK(c, k)'
  <2>1. PendingOK(c, k) /\ k = j /\ pc[c] # "idle"
    BY <1>0, <1>4 DEF CallKept, PendingOK, Unwritten
  <2>2. db[j].state # "dropped"
    BY <1>0, <1>4, <2>1 DEF Holding
  <2>3. CASE conn'[j].wire = conn[j].wire /\ (Left(j) => Left(j)')
    BY <1>1, <2>1, <2>3 DEF PendingOK, InFlight, Continuation
  <2>4. ASSUME ~Left(j), NEW m \in Command, conn'[j].wire = Append(conn[j].wire, m)
        PROVE  PendingOK(c, k)'
    <3>1. conn[j].wire \in Seq(Command)
      BY <1>0, <2>1, EndpointFields DEF TypeOK
    <3>2. RollbackFirst(conn[j].wire) => RollbackFirst(conn'[j].wire)
      BY <2>4, <3>1, AppendDecides
    <3> QED
      BY <1>1, <2>1, <2>4, <3>2 DEF PendingOK, InFlight, Continuation
  <2> QED
    BY <2>1, <2>2, <2>3, <2>4
<1>5. ASSUME pc[c] = "handled" PROVE HandledOK(c)'
  <2>0. (Saved(c)' <=> Saved(c)) /\ db'[j] = db[j]
    BY <1>2, <1>5
  <2>1. HandledOK(c) /\ j \in Conns
    BY <1>0, <1>5 DEF CallKept, Holding
  <2>2. \A d \in Calls : InUse(d)' /\ c < d /\ on'[d] = on'[c] => Saved(c)'
    BY <2>0, <1>5, <2>1 DEF HandledOK
  <2>3. Has(conn'[j].replies, "BEGIN") => Saved(c)'
    <3>1. Has(conn'[j].replies, "BEGIN") => Has(conn[j].replies, "BEGIN")
      BY <1>5, Zenon
    <3> QED
      BY <2>0, <2>1, <3>1, Zenon DEF HandledOK
  <2>4. Has(conn'[j].wire, "ROLLBACK") => Saved(c)'
    <3>1. CASE conn'[j].wire = conn[j].wire
      BY <2>0, <2>1, <3>1 DEF HandledOK
    <3>2. ASSUME NEW m \in Command, conn'[j].wire = Append(conn[j].wire, m),
                 m.op = "ROLLBACK" => Saved(c)
          PROVE  Has(conn'[j].wire, "ROLLBACK") => Saved(c)'
      <4>1. conn[j].wire \in Seq(Command)
        BY <1>0, <2>1, EndpointFields DEF TypeOK
      <4>2. Has(conn'[j].wire, "ROLLBACK") => Has(conn[j].wire, "ROLLBACK") \/ m.op = "ROLLBACK"
        BY <3>2, <4>1, HasAppended
      <4> QED
        BY <2>0, <2>1, <3>2, <4>2 DEF HandledOK
    <3>3. CASE db[j].state = "dropped"
      BY <2>0, <3>3 DEF Saved
    <3> QED
      BY <1>5, <3>1, <3>2, <3>3
  <2>5. db'[on'[c]].state = "open" => c \in durable' \/ c \in db'[on'[c]].pending
    BY <2>0, <2>1 DEF HandledOK
  <2> QED
    BY <2>2, <2>3, <2>4, <2>5 DEF HandledOK
<1>6. ASSUME pc[c] = "ok" PROVE OkOK(c)'
  <2>0. (Saved(c)' <=> Saved(c)) /\ db'[j] = db[j]
    BY <1>2, <1>6
  <2>1. OkOK(c) /\ j \in Conns
    BY <1>0, <1>6 DEF CallKept, Holding
  <2>2. CASE Saved(c) \/ db[j].state = "dropped"
    BY <2>0, <2>2 DEF OkOK, Saved
  <2>3. CASE conn'[j].wire = conn[j].wire
    BY <2>0, <2>1, <2>3 DEF OkOK
  <2>4. ASSUME NEW m \in Command, conn'[j].wire = Append(conn[j].wire, m) PROVE OkOK(c)'
    <3>1. conn[j].wire \in Seq(Command)
      BY <1>0, <2>1, EndpointFields DEF TypeOK
    <3>2. SaveFirst(conn[j].wire) => SaveFirst(conn'[j].wire)
      BY <2>4, <3>1, AppendDecides
    <3> QED
      BY <2>0, <2>1, <3>2 DEF OkOK
  <2> QED
    BY <1>6, <2>2, <2>3, <2>4
<1> QED
  BY <1>0, <1>3, <1>4, <1>5, <1>6 DEF CallKept

\* A step of the call in flight that writes to its connection, or closes it,
\* keeps what is known of all the others.
LEMMA OthersKept ==
  ASSUME SequentialInv, proc = "running", NEW c \in Calls, pc[c] \in InFlight, on[c] \in Conns,
         durable' = durable, db' = db, on' = on, stub' \in {stub, None},
         \A d \in Calls : d # c => pc'[d] = pc[d] /\ fault'[d] = fault[d],
         InUse(c)' => InUse(c),
         \A k \in Conns : k # on[c] => conn'[k] = conn[k],
         conn'[on[c]].replies \in {conn[on[c]].replies, <<>>},
         \/ /\ conn'[on[c]].wire = conn[on[c]].wire
            /\ isValid(conn'[on[c]]) => isValid(conn[on[c]])
         \/ /\ isValid(conn[on[c]])
            /\ \E m \in Command : /\ conn'[on[c]].wire = Append(conn[on[c]].wire, m)
                                  /\ m.op = "ROLLBACK" => InUse(c)
  PROVE  \A d \in Calls : d # c => CallKept(d)'
<1> SUFFICES ASSUME NEW d \in Calls, d # c PROVE CallKept(d)'
  OBVIOUS
<1>0. TypeOK /\ Holding /\ CallKept(d) /\ OneAtATime
  BY DEF SequentialInv, Kept, StageInv
<1>1. pc[d] \notin InFlight
  BY <1>0 DEF OneAtATime
<1>2. CASE pc[d] = "idle"
  BY <1>0, <1>1, <1>2, SettledKept
<1> DEFINE Same == /\ conn'[on[c]].wire = conn[on[c]].wire
                   /\ isValid(conn'[on[c]]) => isValid(conn[on[c]])
           Wrote == /\ isValid(conn[on[c]])
                    /\ \E m \in Command : /\ conn'[on[c]].wire = Append(conn[on[c]].wire, m)
                                          /\ m.op = "ROLLBACK" => InUse(c)
<1>a. Same \/ Wrote
  BY Zenon
<1> HIDE DEF Same, Wrote
<1>3. CASE pc[d] # "idle"
  <2> DEFINE j == on[d]
  <2>1. d < c /\ j \in Conns
    <3>1. pc[c] \notin Outcome /\ pc[c] # "idle"
      BY DEF InFlight, Continuation, Outcome
    <3> QED
      BY <1>0, <1>3, <3>1, CallsAssumption DEF OneAtATime, Holding
  <2>2. \/ conn'[j].wire = conn[j].wire /\ (Left(j) => Left(j)')
        \/ /\ ~Left(j)
           /\ \E m \in Command :
                /\ conn'[j].wire = Append(conn[j].wire, m)
                /\ m.op = "ROLLBACK" /\ pc[d] = "handled" => Saved(d)
    <3>1. CASE conn'[j].wire = conn[j].wire /\ (isValid(conn'[j]) => isValid(conn[j]))
      <4>1. \A e \in Calls : pc'[e] \in InFlight => pc[e] \in InFlight
        BY DEF InFlight, Continuation
      <4>2. stub # j => stub' # j
        BY <2>1, ConnsAssumption
      <4> QED
        BY <3>1, <4>1, <4>2 DEF Left, InFlight, Continuation
    <3>2. ASSUME j = on[c], isValid(conn[j]), NEW m \in Command,
                 conn'[j].wire = Append(conn[j].wire, m), m.op = "ROLLBACK" => InUse(c)
          PROVE  /\ ~Left(j)
                 /\ m.op = "ROLLBACK" /\ pc[d] = "handled" => Saved(d)
      <4>1. ~Left(j)
        BY <3>2 DEF Left
      <4>2. pc[d] = "handled" /\ InUse(c) => Saved(d)
        BY <1>0, <2>1, <3>2 DEF CallKept, HandledOK
      <4> QED
        BY <3>2, <4>1, <4>2
    <3>3. CASE j # on[c]
      BY <2>1, <3>1, <3>3
    <3>4. CASE j = on[c] /\ Same
      BY <3>1, <3>4 DEF Same
    <3>5. ASSUME j = on[c], isValid(conn[on[c]]), NEW m \in Command,
                 conn'[on[c]].wire = Append(conn[on[c]].wire, m), m.op = "ROLLBACK" => InUse(c)
          PROVE  /\ ~Left(j)
                 /\ \E n \in Command : /\ conn'[j].wire = Append(conn[j].wire, n)
                                       /\ n.op = "ROLLBACK" /\ pc[d] = "handled" => Saved(d)
      BY <3>2, <3>5, Zenon
    <3>6. CASE Wrote
      <4>1. PICK m \in Command : /\ conn'[on[c]].wire = Append(conn[on[c]].wire, m)
                                 /\ m.op = "ROLLBACK" => InUse(c)
        BY <3>6, Zenon DEF Wrote
      <4>2. j = on[c] => /\ ~Left(j)
                         /\ \E n \in Command : /\ conn'[j].wire = Append(conn[j].wire, n)
                                               /\ n.op = "ROLLBACK" /\ pc[d] = "handled" => Saved(d)
        BY <3>5, <3>6, <4>1 DEF Wrote
      <4>3. CASE j = on[c]
        BY <4>2, <4>3
      <4> QED
        BY <3>3, <4>3
    <3> QED
      BY <1>a, <3>3, <3>4, <3>6
  <2>3. Has(conn'[j].replies, "BEGIN") => Has(conn[j].replies, "BEGIN")
    BY <2>1, HasEmpty
  <2>4. \A e \in Calls : InUse(e)' => InUse(e)
    BY DEF InUse
  <2> QED
    BY <1>0, <1>1, <2>2, <2>3, <2>4, SettledKept
<1> QED
  BY <1>2, <1>3

\* So does the whole invariant, if the call itself is well served.
LEMMA ServingKept ==
  ASSUME SequentialInv, OneAtATime', proc = "running",
         NEW c \in Calls, pc[c] \in InFlight, on[c] \in Conns,
         durable' = durable, db' = db, on' = on, stub' \in {stub, None},
         \A d \in Calls : d # c => pc'[d] = pc[d] /\ fault'[d] = fault[d],
         InUse(c)' => InUse(c),
         \A k \in Conns : k # on[c] => conn'[k] = conn[k],
         conn'[on[c]].replies \in {conn[on[c]].replies, <<>>},
         conn'[on[c]].status \in {conn[on[c]].status, "closed"},
         \/ conn'[on[c]].wire = conn[on[c]].wire
         \/ /\ isValid(conn[on[c]])
            /\ \E m \in Command : /\ conn'[on[c]].wire = Append(conn[on[c]].wire, m)
                                  /\ m.op = "ROLLBACK" => InUse(c),
         proc' = "running" /\ pc'[c] \in InFlight \ {"connecting"} =>
           conn'[on[c]].status = conn[on[c]].status /\ pc[c] # "connecting",
         pc'[c] # "connecting" => conn'[on[c]].status \in {"up", "closed"},
         QueueOK(conn'[on[c]], db[on[c]]),
         CallKept(c)'
  PROVE  Kept'
<1>0. /\ TypeOK /\ Holding /\ Queued /\ OneAtATime
      /\ \A k \in Conns : isValid(conn'[k]) => isValid(conn[k])
  BY ConnsAssumption DEF SequentialInv, Kept, StageInv, isValid
<1>1. \A d \in Calls : CallKept(d)'
  BY <1>0, OthersKept, Zenon
<1>2. Queued'
  BY <1>0 DEF Queued
<1>3. pc[c] # "idle" /\ pc[c] \notin Outcome
  BY DEF InFlight, Outcome, Continuation
<1>4. Holding'
  <2>1. \A d \in Calls : pc'[d] # "idle" => on'[d] \in Conns
    BY <1>0, <1>3 DEF Holding
  <2>2. \A d \in Calls : pc'[d] \notin {"idle", "connecting"} => conn'[on'[d]].status \in {"up", "closed"}
    <3> SUFFICES ASSUME NEW d \in Calls, pc'[d] \notin {"idle", "connecting"}
                 PROVE  conn'[on[d]].status \in {"up", "closed"}
      OBVIOUS
    <3>1. CASE d = c
      BY <3>1
    <3>2. CASE d # c
      BY <1>0, <3>2 DEF Holding
    <3> QED
      BY <3>1, <3>2
  <2>3. \A k \in Conns : db'[k].state # "open" => db'[k].pending = {}
    BY <1>0 DEF Holding
  <2>4. ASSUME proc' = "running", NEW d \in Calls, pc'[d] \in InFlight \ {"connecting"}
        PROVE  /\ stub' \in {on'[d], None}
               /\ isValid(conn'[on'[d]]) \/ db'[on'[d]].state = "dropped"
    <3>1. d = c
      BY <1>0, <2>4 DEF OneAtATime
    <3>2. /\ stub \in {on[c], None}
          /\ isValid(conn[on[c]]) \/ db[on[c]].state = "dropped"
      BY <1>0, <2>4, <3>1 DEF Holding
    <3> QED
      BY <2>4, <3>1, <3>2 DEF isValid
  <2>5. proc' = "running" => \A k \in Conns : isValid(conn'[k]) => db'[k].state \in {"open", "dropped"}
    BY <1>0 DEF Holding
  <2> QED
    BY <2>1, <2>2, <2>3, <2>4, <2>5 DEF Holding, InFlight, Continuation
<1> QED
  BY <1>1, <1>2, <1>4 DEF Kept

-----------------------------------------------------------------------------
(* The call in flight.                                                      *)

\* What is known of the call in flight, and of what the queues hold.
LEMMA InFlightFacts ==
  ASSUME SequentialInv, NEW c \in Calls, pc[c] \in InFlight
  PROVE  /\ c \notin durable
         /\ pc[c] \in Unwritten => \A k \in Conns : c \notin db[k].pending
         /\ \A k \in Conns : c \in db[k].pending => k = on[c] /\ conn[k].wire = <<>>
         /\ \A k \in Conns, o \in StepOp, d \in Calls :
              Asks(conn[k], o, d) => d = c /\ k = on[c] /\ pc[c] \in {"beginning", "querying"}
         /\ proc = "running" => ServedOK(c)
         /\ on[c] \in Conns
<1>0. Holding /\ OneAtATime /\ CallKept(c) /\ Staged
  BY DEF SequentialInv, Kept, StageInv
<1>1. pc[c] \notin {"ok", "handled", "idle"}
  BY DEF InFlight, Continuation
<1>2. \A k \in Conns, o \in StepOp, d \in Calls :
        Asks(conn[k], o, d) => d = c /\ k = on[c] /\ pc[c] \in {"beginning", "querying"}
  BY <1>0 DEF Staged, OneAtATime, StepOp, InFlight
<1> QED
  BY <1>0, <1>1, <1>2 DEF CallKept, PendingOK, Holding

\* The START TRANSACTION, or what refuses it.
LEMMA CheckKept ==
  ASSUME SequentialInv, OneAtATime', NEW c \in Calls, Check(c)
  PROVE  Kept'
<1>0. TypeOK /\ Holding /\ Queued /\ pc[c] = "checking" /\ proc = "running" /\ pc[c] \in InFlight
  BY DEF SequentialInv, Kept, StageInv, Check, Resumes, InFlight
<1>1. /\ c \notin durable /\ \A k \in Conns : c \notin db[k].pending
      /\ \A k \in Conns, o \in StepOp, d \in Calls : ~Asks(conn[k], o, d)
      /\ on[c] \in Conns /\ conn[on[c]].status \in {"up", "closed"}
  BY <1>0, InFlightFacts DEF Unwritten, Holding
<1>2. UNCHANGED <<stub, on, db, durable>>
  BY DEF Check, stubVars
<1>3. CASE conn' = conn /\ fault' = [fault EXCEPT ![c] = "fatal"] /\ pc' = [pc EXCEPT ![c] = "erring"]
  <2>1. CallKept(c)'
    BY <1>0, <1>1, <1>2, <1>3 DEF CallKept, ServedOK, Alive, TypeOK
  <2> QED
    BY <1>0, <1>1, <1>2, <1>3, <2>1, ServingKept DEF InUse, TypeOK, Queued
<1>4. CASE conn' = conn /\ fault' = fault /\ pc' = [pc EXCEPT ![c] = "refused"]
  <2>1. CallKept(c)'
    BY <1>0, <1>1, <1>2, <1>4 DEF CallKept, ServedOK, Alive, TypeOK
  <2> QED
    BY <1>0, <1>1, <1>2, <1>4, <2>1, ServingKept DEF InUse, TypeOK, Queued
<1>5. CASE conn' = conn /\ fault' = fault /\ pc' = pc /\ proc' = "exited"
  <2>1. CallKept(c)'
    BY <1>0, <1>1, <1>2, <1>5 DEF CallKept
  <2> QED
    BY <1>0, <1>1, <1>2, <1>5, <2>1, ServingKept DEF InUse, TypeOK, Queued
<1>6. CASE /\ isValid(conn[on[c]]) /\ pc' = [pc EXCEPT ![c] = "beginning"] /\ fault' = fault
           /\ conn' = [conn EXCEPT ![on[c]] = addCommand(@, "BEGIN", c)]
  <2> DEFINE m == [op |-> "BEGIN", call |-> c]
  <2>1. /\ "BEGIN" \in Op /\ m \in Command /\ conn[on[c]] \in Endpoint /\ db[on[c]] \in Session
        /\ conn'[on[c]] = addCommand(conn[on[c]], "BEGIN", c)
        /\ \A k \in Conns : k # on[c] => conn'[k] = conn[k]
    BY <1>0, <1>1, <1>6 DEF TypeOK, Op, Command
  <2>2. /\ conn'[on[c]].wire = Append(conn[on[c]].wire, m)
        /\ conn'[on[c]].status = conn[on[c]].status
        /\ conn'[on[c]].replies = conn[on[c]].replies
    BY <2>1, AddCommandAsks
  <2>3. QueueOK(conn'[on[c]], db[on[c]])
    BY <1>1, <2>1, QueueAdd
  <2>4. CallKept(c)'
    BY <1>0, <1>1, <1>2, <1>6 DEF CallKept, ServedOK, Alive, TypeOK
  <2>5. pc'[c] = "beginning" /\ \A d \in Calls : d # c => pc'[d] = pc[d]
    BY <1>0, <1>6 DEF TypeOK
  <2>6. \E n \in Command : /\ conn'[on[c]].wire = Append(conn[on[c]].wire, n)
                           /\ n.op = "ROLLBACK" => InUse(c)
    BY <2>1, <2>2
  <2> QED
    BY <1>0, <1>1, <1>2, <1>6, <2>1, <2>2, <2>3, <2>4, <2>5, <2>6, ServingKept DEF InUse
<1> QED
  BY <1>3, <1>4, <1>5, <1>6 DEF Check, Issue, Fails

\* The statement, or what refuses it.
LEMMA BegunKept ==
  ASSUME SequentialInv, OneAtATime', NEW c \in Calls, Begun(c)
  PROVE  Kept'
<1>0. TypeOK /\ Holding /\ Queued /\ pc[c] = "begun" /\ proc = "running" /\ pc[c] \in InFlight
  BY DEF SequentialInv, Kept, StageInv, Begun, Resumes, InFlight, Continuation
<1>1. /\ c \notin durable /\ \A k \in Conns : c \notin db[k].pending
      /\ \A k \in Conns, o \in StepOp, d \in Calls : ~Asks(conn[k], o, d)
      /\ on[c] \in Conns /\ conn[on[c]].status \in {"up", "closed"}
      /\ isValid(conn[on[c]]) => ~Busy(conn[on[c]])
      /\ db[on[c]].state = "open" => db[on[c]].tx
  BY <1>0, InFlightFacts DEF Unwritten, Holding, ServedOK, Alive
<1>2. UNCHANGED <<stub, on, db, durable, proc>>
  BY DEF Begun, stubVars
<1>3. CASE conn' = conn /\ fault' = [fault EXCEPT ![c] = "fatal"] /\ pc' = [pc EXCEPT ![c] = "erring"]
  <2>1. CallKept(c)'
    BY <1>0, <1>1, <1>2, <1>3 DEF CallKept, ServedOK, Alive, TypeOK
  <2> QED
    BY <1>0, <1>1, <1>2, <1>3, <2>1, ServingKept DEF InUse, TypeOK, Queued
<1>4. CASE /\ isValid(conn[on[c]]) /\ pc' = [pc EXCEPT ![c] = "querying"] /\ fault' = fault
           /\ conn' = [conn EXCEPT ![on[c]] = addCommand(@, "QUERY", c)]
  <2> DEFINE m == [op |-> "QUERY", call |-> c]
  <2>1. /\ "QUERY" \in Op /\ m \in Command /\ conn[on[c]] \in Endpoint /\ db[on[c]] \in Session
        /\ conn'[on[c]] = addCommand(conn[on[c]], "QUERY", c)
        /\ \A k \in Conns : k # on[c] => conn'[k] = conn[k]
    BY <1>0, <1>1, <1>4 DEF TypeOK, Op, Command
  <2>2. /\ conn'[on[c]].wire = Append(conn[on[c]].wire, m)
        /\ conn'[on[c]].status = conn[on[c]].status
        /\ conn'[on[c]].replies = conn[on[c]].replies
    BY <2>1, AddCommandAsks
  <2>3. QueueOK(conn'[on[c]], db[on[c]])
    BY <1>1, <1>4, <2>1, QueueAdd
  <2>4. CallKept(c)'
    BY <1>0, <1>1, <1>2, <1>4 DEF CallKept, ServedOK, Alive, TypeOK
  <2>5. pc'[c] = "querying" /\ \A d \in Calls : d # c => pc'[d] = pc[d]
    BY <1>0, <1>4 DEF TypeOK
  <2>6. \E n \in Command : /\ conn'[on[c]].wire = Append(conn[on[c]].wire, n)
                           /\ n.op = "ROLLBACK" => InUse(c)
    BY <2>1, <2>2
  <2> QED
    BY <1>0, <1>1, <1>2, <1>4, <2>1, <2>2, <2>3, <2>4, <2>5, <2>6, ServingKept DEF InUse
<1> QED
  BY <1>3, <1>4 DEF Begun, Issue, Fails

\* The handler: its call is settled without a COMMIT, or fails.
LEMMA HandledKept ==
  ASSUME SequentialInv, OneAtATime', NEW c \in Calls, Handled(c) \/ HandledLater(c)
  PROVE  Kept'
<1>0. /\ TypeOK /\ Holding /\ Queued /\ OneAtATime /\ Attached /\ proc = "running"
      /\ pc[c] \in {"answered", "handling"} /\ pc[c] \in InFlight
  BY DEF SequentialInv, Kept, StageInv, Handled, HandledLater, Quiet, Idle, Resumes, InFlight, Continuation
<1>1. /\ c \notin durable /\ \A k \in Conns : c \in db[k].pending => k = on[c] /\ conn[k].wire = <<>>
      /\ on[c] \in Conns /\ conn[on[c]].status \in {"up", "closed"}
      /\ isValid(conn[on[c]]) => ~Busy(conn[on[c]]) /\ conn[on[c]].tx
      /\ db[on[c]].state = "open" => c \in db[on[c]].pending
      /\ isValid(conn[on[c]]) \/ db[on[c]].state = "dropped"
  BY <1>0, InFlightFacts DEF Holding, ServedOK, Alive
<1>2. UNCHANGED <<stub, on, db, durable, proc, conn>>
  BY DEF Handled, HandledLater, stubVars
<1>3. \/ pc' = [pc EXCEPT ![c] = "handled"] /\ fault' = fault
      \/ pc' = [pc EXCEPT ![c] = "handling"] /\ fault' = fault
      \/ pc' = [pc EXCEPT ![c] = "erring"] /\ fault' = [fault EXCEPT ![c] = "handler"]
  BY DEF Handled, HandledLater, HandlerSettles, Fails
<1>4. /\ \A d \in Calls : d # c => pc'[d] = pc[d] /\ fault'[d] = fault[d]
      /\ InUse(c) /\ pc'[c] \notin Failed /\ pc'[c] \notin Unwritten
      /\ \/ pc'[c] \in {"handled", "handling"}
         \/ pc'[c] = "erring" /\ fault'[c] = "handler"
  BY <1>0, <1>3 DEF TypeOK, InUse, Failed, Unwritten
<1>5. ASSUME pc'[c] = "handled" PROVE HandledOK(c)'
  <2>1. \A d \in Calls : InUse(d)' /\ c < d => FALSE
    <3> SUFFICES ASSUME NEW d \in Calls, InUse(d)', c < d PROVE FALSE
      OBVIOUS
    <3>1. d # c
      BY CallsAssumption
    <3>2. pc[d] # "idle" /\ pc[c] \notin Outcome
      BY <1>0, <1>4, <3>1 DEF InUse, Outcome
    <3> QED
      BY <1>0, <3>2 DEF OneAtATime
  <2>2. conn[on[c]].replies = <<>>
    BY <1>0, <1>1 DEF Attached, Busy, isValid
  <2>3. conn[on[c]].wire = <<>> \/ db[on[c]].state = "dropped"
    BY <1>1 DEF Busy
  <2> QED
    BY <1>1, <1>2, <2>1, <2>2, <2>3, HasEmpty DEF HandledOK, Saved
<1>6. CallKept(c)'
  <2>1. ServedOK(c)'
    BY <1>1, <1>2, <1>4 DEF ServedOK
  <2>2. \A k \in Conns : c \in db'[k].pending => PendingOK(c, k)'
    BY <1>1, <1>2, <1>4 DEF PendingOK
  <2> QED
    BY <1>1, <1>2, <1>4, <1>5, <2>1, <2>2 DEF CallKept
<1> QED
  BY <1>0, <1>1, <1>2, <1>4, <1>6, ServingKept DEF Queued

\* Success is reported behind the COMMIT of what the call wrote.
LEMMA SucceedsKept ==
  ASSUME SequentialInv, OneAtATime', NEW c \in Calls, Succeeds(c)
  PROVE  Kept'
<1>0. /\ TypeOK /\ Holding /\ Queued /\ proc = "running" /\ pc[c] = "answered" /\ pc[c] \in InFlight
      /\ pc' = [pc EXCEPT ![c] = "ok"] /\ UNCHANGED <<stub, on, db, durable, fault>>
  BY DEF SequentialInv, Kept, StageInv, Succeeds, Resumes, InFlight, Continuation, stubVars
<1>1. /\ c \notin durable /\ \A k \in Conns : c \in db[k].pending => k = on[c] /\ conn[k].wire = <<>>
      /\ \A k \in Conns, o \in StepOp, d \in Calls : ~Asks(conn[k], o, d)
      /\ on[c] \in Conns /\ conn[on[c]].status \in {"up", "closed"}
      /\ isValid(conn[on[c]]) => ~Busy(conn[on[c]]) /\ conn[on[c]].tx
                                  /\ db[on[c]].state \in {"open", "dropped"}
      /\ db[on[c]].state = "open" => c \in db[on[c]].pending
      /\ isValid(conn[on[c]]) \/ db[on[c]].state = "dropped"
  BY <1>0, InFlightFacts DEF Holding, ServedOK, Alive
<1>2. pc'[c] = "ok" /\ (\A d \in Calls : d # c => pc'[d] = pc[d]) /\ InUse(c)
  BY <1>0 DEF TypeOK, InUse
<1>3. ASSUME OkOK(c)' PROVE CallKept(c)'
  <2>1. ServedOK(c)'
    BY <1>2 DEF ServedOK, Alive
  <2>2. \A k \in Conns : c \in db'[k].pending => PendingOK(c, k)'
    BY <1>0, <1>1, <1>2 DEF PendingOK, Unwritten, InFlight, Continuation, Failed
  <2> QED
    BY <1>0, <1>1, <1>2, <1>3, <2>1, <2>2 DEF CallKept
<1>4. CASE ~isValid(conn[on[c]])
  <2>1. conn' = conn
    BY <1>4 DEF Succeeds
  <2>2. CallKept(c)'
    BY <1>0, <1>1, <1>3, <1>4 DEF OkOK, Saved
  <2> QED
    BY <1>0, <1>1, <1>2, <2>1, <2>2, ServingKept DEF Queued, InFlight, Continuation
<1>5. CASE isValid(conn[on[c]])
  <2> DEFINE m == [op |-> "COMMIT", call |-> c]
  <2>1. /\ "COMMIT" \in Op /\ m \in Command /\ conn[on[c]] \in Endpoint /\ db[on[c]] \in Session
        /\ conn' = [conn EXCEPT ![on[c]] = changeTransaction(conn[on[c]], "COMMIT", c)]
    BY <1>0, <1>1, <1>5 DEF TypeOK, Op, Command, Succeeds
  <2>2. /\ conn'[on[c]] = addCommand(conn[on[c]], "COMMIT", c)
        /\ \A k \in Conns : k # on[c] => conn'[k] = conn[k]
    BY <1>0, <1>1, <1>5, <2>1 DEF TypeOK, changeTransaction
  <2>3. /\ conn'[on[c]].wire = Append(conn[on[c]].wire, m)
        /\ conn'[on[c]].status = conn[on[c]].status
        /\ conn'[on[c]].replies = conn[on[c]].replies
    BY <2>1, <2>2, AddCommandAsks
  <2>4. QueueOK(conn'[on[c]], db[on[c]])
    BY <1>1, <2>1, <2>2, QueueAdd
  <2>5. SaveFirst(conn'[on[c]].wire)
    <3>1. conn[on[c]].wire = <<>>
      BY <1>1, <1>5 DEF Busy
    <3> QED
      BY <2>1, <2>3, <3>1, AloneDecides DEF Saves
  <2>6. CallKept(c)'
    BY <1>0, <1>1, <1>3, <1>5, <2>5 DEF OkOK, Saved
  <2>7. \E n \in Command : /\ conn'[on[c]].wire = Append(conn[on[c]].wire, n)
                           /\ n.op = "ROLLBACK" => InUse(c)
    BY <2>1, <2>3
  <2> QED
    BY <1>0, <1>1, <1>2, <1>5, <2>2, <2>3, <2>4, <2>6, <2>7, ServingKept DEF InFlight, Continuation
<1> QED
  BY <1>4, <1>5

\* The connection that could not be made.
LEMMA ConnectFailsKept ==
  ASSUME SequentialInv, OneAtATime', NEW c \in Calls, ConnectFails(c)
  PROVE  Kept'
<1>0. /\ TypeOK /\ Holding /\ Queued /\ Attached /\ proc = "running" /\ pc[c] = "connecting" /\ pc[c] \in InFlight
      /\ UNCHANGED <<stub, on, db, durable, fault>>
      /\ conn' = [conn EXCEPT ![on[c]] = [conn[on[c]] EXCEPT !.status = "closed"]]
      /\ pc' \in {pc, [pc EXCEPT ![c] = "rejected"]} /\ (pc' = pc => proc' = "exited")
  <2>1. pc # [pc EXCEPT ![c] = "rejected"] \/ pc[c] = "rejected"
    BY DEF SequentialInv, StageInv, TypeOK
  <2> QED
    BY <2>1 DEF SequentialInv, Kept, StageInv, ConnectFails, Quiet, Idle, InFlight, stubVars
<1>1. /\ c \notin durable /\ \A k \in Conns : c \notin db[k].pending
      /\ on[c] \in Conns
  BY <1>0, InFlightFacts DEF Unwritten
<1>2. /\ conn'[on[c]].status = "closed" /\ conn'[on[c]].wire = conn[on[c]].wire
      /\ conn'[on[c]].replies = conn[on[c]].replies
      /\ \A k \in Conns : k # on[c] => conn'[k] = conn[k]
  BY <1>0, <1>1, StatusAsks DEF TypeOK, Status
<1>3. /\ pc'[c] \in {"connecting", "rejected"} /\ (pc'[c] = "connecting" => proc' = "exited")
      /\ \A d \in Calls : d # c => pc'[d] = pc[d]
  BY <1>0 DEF TypeOK
<1>4. CallKept(c)'
  BY <1>0, <1>1, <1>3 DEF CallKept, ServedOK, Alive
<1>5. QueueOK(conn'[on[c]], db[on[c]])
  BY <1>0, <1>1, <1>2 DEF Queued, QueueOK
<1> QED
  BY <1>0, <1>1, <1>2, <1>3, <1>4, <1>5, ServingKept DEF InUse, InFlight, Continuation

\* The .catch: what the failed call wrote is rolled back on its own connection,
\* or nothing will commit it.
LEMMA HandleErrorKept ==
  ASSUME SequentialInv, OneAtATime', NEW c \in Calls, _handleError(c)
  PROVE  Kept'
<1>0. /\ TypeOK /\ Holding /\ Queued /\ OneAtATime /\ proc = "running" /\ pc[c] = "erring" /\ pc[c] \in InFlight
      /\ UNCHANGED <<on, db, durable, fault, proc>> /\ ~opt.throwOnError
  BY DEF SequentialInv, Kept, StageInv, _handleError, Resumes, InFlight, Continuation
<1>1. /\ c \notin durable /\ \A k \in Conns : c \in db[k].pending => k = on[c] /\ conn[k].wire = <<>>
      /\ \A k \in Conns, o \in StepOp, d \in Calls : ~Asks(conn[k], o, d)
      /\ on[c] \in Conns /\ conn[on[c]].status \in {"up", "closed"}
      /\ fault[c] # "fatal" /\ isValid(conn[on[c]]) => ~Busy(conn[on[c]])
      /\ IF fault[c] \in {"fatal", "deadlock"} THEN \A k \in Conns : c \notin db[k].pending
                                               ELSE isValid(conn[on[c]]) => conn[on[c]].tx
      /\ stub \in {on[c], None}
  BY <1>0, InFlightFacts DEF Holding, ServedOK, Alive
<1>2. /\ pc'[c] \in {"rejected", "swallowed"} /\ pc'[c] \in Failed /\ pc'[c] \notin Unwritten
      /\ pc'[c] \notin InFlight /\ ~InUse(c)'
      /\ \A d \in Calls : d # c => pc'[d] = pc[d] /\ pc'[d] \notin InFlight
  <2>1. pc' \in {[pc EXCEPT ![c] = "rejected"], [pc EXCEPT ![c] = "swallowed"]}
    BY DEF _handleError
  <2>2. pc'[c] \in {"rejected", "swallowed"} /\ \A d \in Calls : d # c => pc'[d] = pc[d]
    BY <1>0, <2>1 DEF TypeOK
  <2>3. \A d \in Calls : d # c => pc[d] \notin InFlight
    BY <1>0 DEF OneAtATime
  <2> QED
    BY <2>2, <2>3 DEF Failed, Unwritten, InFlight, Continuation, InUse
<1>3. ASSUME \/ \A k \in Conns : c \notin db[k].pending
             \/ RollbackFirst(conn'[on[c]].wire)
             \/ conn'[on[c]].wire = conn[on[c]].wire /\ Left(on[c])'
      PROVE  CallKept(c)'
  <2>1. ServedOK(c)'
    BY <1>2 DEF ServedOK, Alive
  <2>2. ASSUME NEW k \in Conns, c \in db'[k].pending PROVE PendingOK(c, k)'
    <3>1. k = on[c] /\ conn[k].wire = <<>>
      BY <1>0, <1>1, <2>2
    <3>2. NoSave(conn[k].wire)
      <4>1. NoSave(<<>>)
        BY DEF NoSave
      <4> QED
        BY <3>1, <4>1
    <3> QED
      BY <1>0, <1>2, <1>3, <2>2, <3>1, <3>2 DEF PendingOK
  <2> QED
    BY <1>0, <1>1, <1>2, <2>1, <2>2 DEF CallKept
<1>4. ASSUME conn' = conn, stub' = stub, \/ \A k \in Conns : c \notin db[k].pending
                                         \/ ~stubValid
      PROVE  Kept'
  <2>1. ~stubValid => Left(on[c])'
    BY <1>0, <1>1, <1>2, <1>4, ConnsAssumption DEF Left, stubValid
  <2>2. CallKept(c)'
    BY <1>3, <1>4, <2>1
  <2> QED
    BY <1>0, <1>1, <1>2, <1>4, <2>2, ServingKept DEF Queued
<1>5. CASE fault[c] \in {"fatal", "deadlock"}
  BY <1>0, <1>1, <1>4, <1>5 DEF _handleError
<1>6. CASE fault[c] \notin {"fatal", "deadlock"} /\ ~stubValid
  BY <1>0, <1>4, <1>6 DEF _handleError, EndStub
<1>7. CASE fault[c] \notin {"fatal", "deadlock"} /\ stubValid
  <2> DEFINE m == [op |-> "ROLLBACK", call |-> c]
             n == addCommand(conn[on[c]], "ROLLBACK", c)
  <2>1. /\ "ROLLBACK" \in Op /\ m \in Command /\ conn[on[c]] \in Endpoint /\ db[on[c]] \in Session
        /\ stub = on[c] /\ isValid(conn[on[c]]) /\ ~Busy(conn[on[c]]) /\ Undo(c) = n
    BY <1>0, <1>1, <1>7, ConnsAssumption DEF TypeOK, Op, Command, stubValid, Undo, changeTransaction
  <2>2. /\ n \in Endpoint /\ n.wire = Append(conn[on[c]].wire, m)
        /\ n.status = conn[on[c]].status /\ n.replies = conn[on[c]].replies
        /\ QueueOK(n, db[on[c]])
    BY <1>1, <2>1, AddCommandType, AddCommandAsks, QueueAdd
  <2>3. /\ end(n).status = "closed" /\ end(n).replies = <<>> /\ end(n).wire = n.wire
        /\ QueueOK(end(n), db[on[c]])
    BY <2>1, <2>2, ClosingAsks, QueueKept
  <2>4. /\ conn'[on[c]] \in {n, end(n)} /\ stub' \in {stub, None}
        /\ \A k \in Conns : k # on[c] => conn'[k] = conn[k]
    <3> HIDE DEF n
    <3>1. EndStub(n)
      BY <1>0, <1>7, <2>1 DEF _handleError
    <3> QED
      BY <1>0, <1>1, <1>7, <2>1, <3>1 DEF EndStub, TypeOK
  <2>5. /\ conn'[on[c]].wire = Append(conn[on[c]].wire, m) /\ QueueOK(conn'[on[c]], db[on[c]])
        /\ conn'[on[c]].status \in {conn[on[c]].status, "closed"}
        /\ conn'[on[c]].replies \in {conn[on[c]].replies, <<>>}
    <3> HIDE DEF n, m
    <3> QED
      BY <2>2, <2>3, <2>4
  <2>6. RollbackFirst(conn'[on[c]].wire)
    <3>1. conn[on[c]].wire = <<>> /\ NoSave(<<>>) /\ <<>> \in Seq(Command)
      BY <2>1 DEF Busy, NoSave
    <3>2. RollbackFirst(Append(<<>>, m))
      BY <2>1, <3>1, AppendDecides
    <3> QED
      BY <2>5, <3>1, <3>2
  <2>7. CallKept(c)'
    BY <1>3, <2>6
  <2>8. \E x \in Command : /\ conn'[on[c]].wire = Append(conn[on[c]].wire, x)
                           /\ x.op = "ROLLBACK" => InUse(c)
    BY <1>0, <1>7, <2>1, <2>5 DEF InUse
  <2> QED
    BY <1>0, <1>1, <1>2, <2>1, <2>4, <2>5, <2>7, <2>8, ServingKept
<1> QED
  BY <1>5, <1>6, <1>7

-----------------------------------------------------------------------------
(* The other steps of the program.                                          *)

\* A call made on the connection the stub holds.
LEMMA ReuseKept ==
  ASSUME Sequential, SequentialInv, NEW c \in Calls, NEW m \in Modes, Reuse(c, m)
  PROVE  Kept'
<1>0. /\ TypeOK /\ Holding /\ Queued /\ proc = "running" /\ pc[c] = "idle"
      /\ \A d \in Calls : pc[d] \notin InFlight
      /\ stub \in Conns /\ isValid(conn[stub])
      /\ UNCHANGED <<stub, db, durable, fault, conn, proc>>
  BY DEF SequentialInv, Kept, StageInv, Reuse, MayCall, Idle, stubVars, stubValid
<1>1. /\ pc'[c] = "checking" /\ on'[c] = stub
      /\ \A d \in Calls : d # c => pc'[d] = pc[d] /\ on'[d] = on[d]
  BY <1>0 DEF Reuse, TypeOK
<1>2. \A k \in Conns : Left(k) => Left(k)'
  BY <1>0, <1>1 DEF Left
<1>3. ASSUME NEW d \in Calls, d # c PROVE CallKept(d)'
  <2>1. \A e \in Calls : InUse(e)' => InUse(e) /\ on'[e] = on[e]
    BY <1>0, <1>1 DEF InUse
  <2>2. pc[d] # "idle" => on[d] \in Conns
    BY <1>0 DEF Holding
  <2> QED
    BY <1>0, <1>1, <1>2, <1>3, <2>1, <2>2, SettledKept
<1>4. CallKept(c)'
  <2>1. CallKept(c)
    BY DEF SequentialInv, Kept
  <2> QED
    BY <1>0, <1>1, <2>1 DEF CallKept, PendingOK, Unwritten, ServedOK, Alive
<1>5. Holding'
  BY <1>0, <1>1 DEF Holding, isValid
<1> QED
  BY <1>0, <1>3, <1>4, <1>5 DEF Kept, Queued

\* A call that has a connection made.
LEMMA ConnectKept ==
  ASSUME Sequential, SequentialInv, NEW c \in Calls, NEW m \in Modes, NEW k \in Conns, Connect(c, m, k)
  PROVE  Kept'
<1>0. /\ TypeOK /\ Holding /\ Queued /\ proc = "running" /\ pc[c] = "idle"
      /\ \A d \in Calls : pc[d] \notin InFlight
      /\ conn[k].status = "unused"
      /\ UNCHANGED <<stub, db, durable, fault, proc>>
      /\ conn' = [conn EXCEPT ![k] = [conn[k] EXCEPT !.status = "connecting"]]
  BY DEF SequentialInv, Kept, StageInv, Connect, MayCall, Idle
<1>1. /\ pc'[c] = "connecting" /\ on'[c] = k
      /\ \A d \in Calls : d # c => pc'[d] = pc[d] /\ on'[d] = on[d]
  BY <1>0 DEF Connect, TypeOK
<1>2. /\ conn'[k].status = "connecting" /\ conn'[k].wire = conn[k].wire /\ conn'[k].replies = conn[k].replies
      /\ \A j \in Conns : j # k => conn'[j] = conn[j]
  BY <1>0, StatusAsks DEF TypeOK, Status
<1>3. ASSUME NEW d \in Calls, d # c PROVE CallKept(d)'
  <2>1. \A e \in Calls : InUse(e)' => InUse(e) /\ on'[e] = on[e]
    BY <1>0, <1>1 DEF InUse
  <2>2. pc[d] # "idle" => on[d] \in Conns /\ on[d] # k
    BY <1>0 DEF Holding, InFlight
  <2>3. pc[d] # "idle" => conn'[on[d]] = conn[on[d]] /\ (Left(on[d]) => Left(on[d])')
    BY <1>0, <1>1, <1>2, <2>2 DEF Left
  <2> QED
    BY <1>0, <1>1, <1>3, <2>1, <2>2, <2>3, SettledKept
<1>4. CallKept(c)'
  <2>1. CallKept(c)
    BY DEF SequentialInv, Kept
  <2> QED
    BY <1>0, <1>1, <2>1 DEF CallKept, PendingOK, Unwritten, ServedOK, Alive
<1>5. Holding'
  <2>1. \A d \in Calls : pc'[d] # "idle" => on'[d] \in Conns
    BY <1>0, <1>1 DEF Holding
  <2>2. \A d \in Calls : pc'[d] \notin {"idle", "connecting"} =>
          /\ on'[d] # k /\ on'[d] \in Conns /\ conn[on'[d]].status \in {"up", "closed"}
          /\ pc'[d] \notin InFlight
    BY <1>0, <1>1 DEF Holding
  <2>3. \A d \in Calls : pc'[d] \notin {"idle", "connecting"} => conn'[on'[d]].status \in {"up", "closed"}
    BY <1>2, <2>2
  <2>4. \A j \in Conns : isValid(conn'[j]) => isValid(conn[j])
    BY <1>2 DEF isValid
  <2> QED
    BY <1>0, <2>1, <2>2, <2>3, <2>4 DEF Holding, InFlight, Continuation
<1>6. Queued'
  <2>1. QueueOK(conn'[k], db'[k])
    BY <1>0, <1>2 DEF Queued, QueueOK
  <2> QED
    BY <1>0, <1>2, <2>1 DEF Queued
<1> QED
  BY <1>3, <1>4, <1>5, <1>6 DEF Kept

\* The connection made: nothing was ever written to it.
LEMMA ConnectedKept ==
  ASSUME SequentialInv, NEW c \in Calls, Connected(c)
  PROVE  Kept'
<1>0. /\ TypeOK /\ Holding /\ Queued /\ OneAtATime /\ Attached /\ proc = "running" /\ pc[c] = "connecting"
      /\ UNCHANGED <<on, durable, fault, proc>> /\ stub' = on[c]
      /\ conn' = [conn EXCEPT ![on[c]] = [conn[on[c]] EXCEPT !.status = "up"]]
      /\ db' = [db EXCEPT ![on[c]] = [db[on[c]] EXCEPT !.state = "open"]]
  BY DEF SequentialInv, Kept, StageInv, Connected, Quiet, Idle
<1>1. pc'[c] = "checking" /\ \A d \in Calls : d # c => pc'[d] = pc[d] /\ pc[d] \notin InFlight
  BY <1>0 DEF Connected, TypeOK, OneAtATime, InFlight
<1>2. /\ on[c] \in Conns /\ conn[on[c]].status = "connecting" /\ ~Busy(conn[on[c]])
      /\ db[on[c]] = NewSession
  BY <1>0 DEF Attached
<1>3. /\ conn'[on[c]].status = "up" /\ conn'[on[c]].wire = <<>> /\ conn'[on[c]].replies = <<>>
      /\ db'[on[c]].state = "open" /\ db'[on[c]].pending = {}
      /\ \A j \in Conns : j # on[c] => conn'[j] = conn[j] /\ db'[j] = db[j]
  <2>1. conn'[on[c]] = [conn[on[c]] EXCEPT !.status = "up"] /\ conn[on[c]] \in Endpoint
    BY <1>0, <1>2 DEF TypeOK
  <2>2. /\ conn'[on[c]].status = "up" /\ conn'[on[c]].wire = conn[on[c]].wire
        /\ conn'[on[c]].replies = conn[on[c]].replies
    BY <2>1, StatusAsks DEF Status
  <2>3. db'[on[c]] = [NewSession EXCEPT !.state = "open"]
    BY <1>0, <1>2 DEF TypeOK
  <2>4. db'[on[c]].state = "open" /\ db'[on[c]].pending = {}
    BY <2>3 DEF NewSession
  <2>5. \A j \in Conns : j # on[c] => conn'[j] = conn[j] /\ db'[j] = db[j]
    BY <1>0 DEF TypeOK
  <2> QED
    BY <1>2, <2>2, <2>4, <2>5 DEF Busy
<1>4. \A d \in Calls, j \in Conns : d \in db'[j].pending => d \in db[j].pending
  BY <1>3
<1>5. ASSUME NEW d \in Calls, d # c PROVE CallKept(d)'
  <2>1. \A e \in Calls : InUse(e)' => InUse(e)
    BY <1>0, <1>1 DEF InUse
  <2>2. pc[d] # "idle" => on[d] \in Conns /\ on[d] # on[c]
    BY <1>0, <1>1, <1>2, <1>5 DEF Holding, InFlight
  <2>3. pc[d] # "idle" => conn'[on[d]] = conn[on[d]] /\ db'[on[d]] = db[on[d]] /\ (Left(on[d]) => Left(on[d])')
    <3> SUFFICES ASSUME pc[d] # "idle"
                 PROVE  conn'[on[d]] = conn[on[d]] /\ db'[on[d]] = db[on[d]] /\ (Left(on[d]) => Left(on[d])')
      OBVIOUS
    <3>1. \A e \in Calls : pc'[e] \in InFlight => on'[e] # on[d]
      BY <1>0, <1>1, <1>5, <2>2
    <3> QED
      BY <1>0, <1>3, <2>2, <3>1 DEF Left
  <2> QED
    BY <1>0, <1>1, <1>4, <1>5, <2>1, <2>2, <2>3, SettledKept
<1>6. CallKept(c)'
  <2>1. CallKept(c)
    BY DEF SequentialInv, Kept
  <2> QED
    BY <1>0, <1>1, <1>4, <2>1 DEF CallKept, PendingOK, Unwritten, ServedOK, Alive
<1>7. Holding'
  <2>1. \A d \in Calls : pc'[d] # "idle" => on'[d] \in Conns
    BY <1>0, <1>1, <1>2 DEF Holding
  <2>2. \A d \in Calls : pc'[d] \notin {"idle", "connecting"} =>
          \/ d = c
          \/ on'[d] # on[c] /\ conn'[on'[d]].status \in {"up", "closed"} /\ pc'[d] \notin InFlight
    BY <1>0, <1>1, <1>2, <1>3 DEF Holding
  <2> QED
    BY <1>0, <1>1, <1>3, <2>1, <2>2 DEF Holding, InFlight, Continuation, isValid
<1>8. Queued'
  <2>1. DOMAIN <<>> = {}
    OBVIOUS
  <2>2. QueueOK(conn'[on[c]], db'[on[c]])
    BY <1>3, <2>1 DEF QueueOK
  <2> QED
    BY <1>0, <1>3, <2>2 DEF Queued
<1> QED
  BY <1>5, <1>6, <1>7, <1>8 DEF Kept

\* end(): nothing is left in flight on the connection it closes.
LEMMA EndKept ==
  ASSUME Sequential, SequentialInv, End
  PROVE  Kept'
<1>0. /\ TypeOK /\ Holding /\ Queued /\ proc = "running"
      /\ \A d \in Calls : pc[d] \notin InFlight
      /\ UNCHANGED <<on, db, durable, fault, proc, pc>>
  BY DEF SequentialInv, Kept, StageInv, End, Idle
<1>1. /\ stub' \in {stub, None}
      /\ conn' = conn \/ (stub \in Conns /\ conn' = [conn EXCEPT ![stub] = end(conn[stub])])
  <2>1. CASE ~stubValid
    BY <2>1 DEF End, EndStub
  <2>2. CASE stubValid
    <3>1. EndStub(conn[stub])
      BY <2>2 DEF End
    <3> QED
      BY <1>0, <2>2, <3>1 DEF EndStub, TypeOK, stubValid
  <2> QED
    BY <2>1, <2>2
<1>2. \A k \in Conns : /\ conn'[k] = conn[k] \/ conn'[k] = end(conn[k])
                       /\ conn[k] \in Endpoint /\ db[k] \in Session
  BY <1>0, <1>1 DEF TypeOK
<1>3. \A k \in Conns : /\ conn'[k].wire = conn[k].wire
                      /\ conn'[k].status \in {conn[k].status, "closed"}
                      /\ conn'[k].replies \in {conn[k].replies, <<>>}
                      /\ QueueOK(conn'[k], db[k])
  BY <1>0, <1>2, ClosingAsks, QueueKept DEF Queued
<1>4. \A k \in Conns : Left(k) => Left(k)'
  BY <1>0, <1>1, <1>3, ConnsAssumption DEF Left, isValid
<1>5. ASSUME NEW d \in Calls PROVE CallKept(d)'
  <2>1. \A e \in Calls : InUse(e)' => InUse(e)
    BY <1>0 DEF InUse
  <2>2. pc[d] # "idle" => on[d] \in Conns
    BY <1>0 DEF Holding
  <2>3. pc[d] # "idle" => (Has(conn'[on[d]].replies, "BEGIN") => Has(conn[on[d]].replies, "BEGIN"))
    BY <1>3, <2>2, HasEmpty
  <2> QED
    BY <1>0, <1>3, <1>4, <2>1, <2>2, <2>3, SettledKept
<1>6. Holding'
  <2>1. \A d \in Calls : pc[d] \notin {"idle", "connecting"} => on[d] \in Conns /\ conn[on[d]].status \in {"up", "closed"}
    BY <1>0 DEF Holding
  <2>2. \A d \in Calls : pc[d] \notin {"idle", "connecting"} => conn'[on[d]].status \in {"up", "closed"}
    BY <1>3, <2>1
  <2> QED
    BY <1>0, <1>3, <2>2 DEF Holding, isValid, InFlight, Continuation
<1> QED
  BY <1>0, <1>3, <1>5, <1>6 DEF Kept, Queued

\* The pool's end() only makes the stub forget its connection.
LEMMA PoolEndedKept ==
  ASSUME SequentialInv, PoolEnded
  PROVE  Kept'
<1>0. /\ TypeOK /\ Holding /\ Queued /\ stub' = None
      /\ UNCHANGED <<on, db, durable, fault, proc, pc, conn>>
  BY DEF SequentialInv, Kept, StageInv, PoolEnded
<1>1. Holding' /\ Queued'
  BY <1>0 DEF Holding, Queued
<1>2. ASSUME NEW c \in Calls PROVE CallKept(c)'
  <2>1. CallKept(c)
    BY DEF SequentialInv, Kept
  <2>2. \A k \in Conns : Left(k) => Left(k)'
    BY <1>0, ConnsAssumption DEF Left
  <2>3. ServedOK(c) => ServedOK(c)'
    BY <1>0 DEF ServedOK, Alive
  <2>4. \A k \in Conns : PendingOK(c, k) => PendingOK(c, k)'
    BY <1>0, <2>2 DEF PendingOK
  <2>5. HandledOK(c) => HandledOK(c)'
    BY <1>0 DEF HandledOK, InUse, Saved
  <2>6. OkOK(c) => OkOK(c)'
    BY <1>0 DEF OkOK, Saved
  <2> QED
    BY <1>0, <2>1, <2>3, <2>4, <2>5, <2>6 DEF CallKept
<1> QED
  BY <1>1, <1>2 DEF Kept

\* A reply that is read: a step's is the last one in the queue, and a later call's
\* START TRANSACTION was answered only after it saved the handled calls.
LEMMA DeliverKept ==
  ASSUME SequentialInv, NEW k \in Conns, Deliver(k)
  PROVE  Kept'
<1> DEFINE r == Head(conn[k].replies)
<1>0. /\ TypeOK /\ Holding /\ Queued /\ OneAtATime /\ proc = "running"
      /\ isValid(conn[k]) /\ conn[k].replies # <<>>
      /\ UNCHANGED <<on, db, durable, proc, stub>>
  BY DEF SequentialInv, Kept, StageInv, Deliver, stubVars
<1>1. /\ conn[k] \in Endpoint /\ db[k] \in Session /\ r \in Reply /\ Asks(conn[k], r.op, r.call)
      /\ conn'[k].status = conn[k].status /\ conn'[k].wire = conn[k].wire
      /\ conn'[k].replies = Tail(conn[k].replies)
      /\ conn'[k].tx = (IF r.result = "ok" THEN r.tx ELSE TRUE)
      /\ \A j \in Conns : j # k => conn'[j] = conn[j]
      /\ QueueOK(conn'[k], db[k])
  <2>1. conn[k] \in Endpoint /\ db[k] \in Session
    BY <1>0 DEF TypeOK
  <2>2. conn'[k] = receivePacket(conn[k]) /\ \A j \in Conns : j # k => conn'[j] = conn[j]
    BY <1>0 DEF TypeOK, Deliver
  <2>3. QueueOK(conn'[k], db[k])
    BY <1>0, <2>1, <2>2, QueueKept DEF Queued
  <2> QED
    BY <1>0, <2>1, <2>2, <2>3, ReceivePacketAsks, ReceivePacketType
<1>2. conn[k].replies \in Seq(Reply)
  BY <1>1, EndpointFields
<1>3. r.op \in StepOp => /\ conn[k].wire = <<>> /\ Tail(conn[k].replies) = <<>>
                         /\ ReplyOK(r, db[k])
  <2>1. 1 \in DOMAIN conn[k].replies /\ r = conn[k].replies[1]
    BY <1>0, <1>2, TailFacts
  <2>2. Len(conn[k].replies) = 1 => Tail(conn[k].replies) = <<>>
    BY <1>2, AloneTail
  <2>3. QueueOK(conn[k], db[k])
    BY <1>0 DEF Queued
  <2> HIDE DEF r
  <2> QED
    BY <1>2, <2>1, <2>2, <2>3 DEF QueueOK
<1>4. \A j \in Conns : Has(conn'[j].replies, "BEGIN") => Has(conn[j].replies, "BEGIN")
  BY <1>0, <1>1, <1>2, HasTail
<1>5. r.op = "BEGIN" => Has(conn[k].replies, "BEGIN")
  <2>1. 1 \in DOMAIN conn[k].replies /\ r = conn[k].replies[1]
    BY <1>0, <1>2, TailFacts
  <2> HIDE DEF r
  <2> QED
    BY <2>1 DEF Has
<1>6. Queued'
  BY <1>0, <1>1 DEF Queued
<1>7. \/ pc' = pc /\ fault' = fault /\ r.op \notin StepOp
      \/ /\ r.op = "BEGIN" /\ fault' = fault
         /\ \A d \in Calls : pc'[d] = IF d = r.call THEN "begun" ELSE pc[d]
      \/ /\ r.op = "QUERY" /\ r.result = "ok" /\ fault' = fault
         /\ \A d \in Calls : pc'[d] = IF d = r.call THEN "answered" ELSE pc[d]
      \/ /\ r.op = "QUERY" /\ r.result \in {"statement", "deadlock"}
         /\ \A d \in Calls : /\ pc'[d] = IF d = r.call THEN "erring" ELSE pc[d]
                             /\ fault'[d] = IF d = r.call THEN r.result ELSE fault[d]
  <2>1. \/ pc' = pc /\ fault' = fault /\ r.op \in {"COMMIT", "ROLLBACK"}
        \/ r.op = "BEGIN" /\ fault' = fault /\ pc' = [pc EXCEPT ![r.call] = "begun"]
        \/ r.op = "QUERY" /\ r.result = "ok" /\ fault' = fault /\ pc' = [pc EXCEPT ![r.call] = "answered"]
        \/ r.op = "QUERY" /\ r.result # "ok" /\ pc' = [pc EXCEPT ![r.call] = "erring"]
           /\ fault' = [fault EXCEPT ![r.call] = r.result]
    BY DEF Deliver, Fails
  <2>2. r.call \in Calls /\ r.result \in Result
    BY <1>1 DEF Reply
  <2> HIDE DEF r
  <2> QED
    BY <1>0, <2>1, <2>2 DEF TypeOK, StepOp, Result
<1>8. r.op \in StepOp => /\ r.call \in Calls /\ on[r.call] = k /\ pc[r.call] \in InFlight
                         /\ pc[r.call] = IF r.op = "BEGIN" THEN "beginning" ELSE "querying"
  BY <1>1 DEF SequentialInv, StageInv, Staged, StepOp, InFlight, Reply
<1> HIDE DEF r
<1>9. \A d \in Calls : \/ pc'[d] = pc[d] /\ fault'[d] = fault[d]
                       \/ /\ d = r.call /\ r.op \in StepOp
                          /\ pc'[d] \in {"begun", "answered", "erring"}
  BY <1>7 DEF StepOp
<1>10. \A d \in Calls : /\ (pc[d] \in InFlight <=> pc'[d] \in InFlight) /\ (pc[d] = "idle" <=> pc'[d] = "idle")
                        /\ (pc'[d] = "connecting" => pc[d] = "connecting")
                        /\ (pc[d] \notin InFlight => pc'[d] = pc[d])
  BY <1>8, <1>9 DEF InFlight, Continuation
<1>11. Holding'
  <2>1. \A j \in Conns : conn'[j].status = conn[j].status
    BY <1>1
  <2>2. \A d \in Calls : pc'[d] \notin {"idle", "connecting"} => pc[d] \notin {"idle", "connecting"}
    BY <1>8, <1>9
  <2>3. \A d \in Calls : pc'[d] \in InFlight \ {"connecting"} => pc[d] \in InFlight \ {"connecting"}
    BY <1>10, <2>2
  <2>4. \A d \in Calls : pc[d] # "idle" => on[d] \in Conns
    BY <1>0 DEF Holding
  <2>5. \A d \in Calls : pc'[d] \notin {"idle", "connecting"} => conn'[on'[d]].status \in {"up", "closed"}
    BY <1>0, <1>10, <2>1, <2>2, <2>4 DEF Holding
  <2>6. \A d \in Calls : pc'[d] \in InFlight \ {"connecting"} =>
            /\ stub' \in {on'[d], None}
            /\ isValid(conn'[on'[d]]) \/ db'[on'[d]].state = "dropped"
    <3> SUFFICES ASSUME NEW d \in Calls, pc'[d] \in InFlight \ {"connecting"}
                 PROVE  /\ stub' \in {on'[d], None}
                        /\ isValid(conn'[on'[d]]) \/ db'[on'[d]].state = "dropped"
      OBVIOUS
    <3>1. on[d] \in Conns /\ pc[d] \in InFlight \ {"connecting"}
      BY <1>10, <2>3, <2>4 DEF InFlight, Continuation
    <3> QED
      BY <1>0, <2>1, <3>1 DEF Holding, isValid
  <2>7. \A j \in Conns : isValid(conn'[j]) => db'[j].state \in {"open", "dropped"}
    BY <1>0, <2>1 DEF Holding, isValid
  <2> QED
    BY <1>0, <1>10, <2>4, <2>5, <2>6, <2>7 DEF Holding
<1>12. ASSUME NEW d \in Calls, pc[d] \notin InFlight PROVE CallKept(d)'
  <2>1. pc[d] # "idle" => on[d] \in Conns
    BY <1>0 DEF Holding
  <2>2. \A j \in Conns : Left(j) => Left(j)'
    BY <1>0, <1>1, <1>10 DEF Left, isValid
  <2>3. pc[d] # "idle" => \A e \in Calls : InUse(e)' /\ d < e /\ on'[e] = on[d] =>
                             (InUse(e) /\ on[e] = on[d]) \/ Saved(d) \/ pc[d] # "handled"
    <3> SUFFICES ASSUME NEW e \in Calls, InUse(e)', on'[e] = on[d], pc[d] = "handled", ~InUse(e)
                 PROVE  Saved(d)
      BY <1>0
    <3>1. e = r.call /\ r.op \in StepOp
      BY <1>9 DEF InUse
    <3>2. r.op = "BEGIN"
      BY <1>8, <3>1 DEF InUse, StepOp
    <3>3. on[d] = k
      BY <1>0, <1>8, <3>1
    <3>4. HandledOK(d)
      BY DEF SequentialInv, Kept, CallKept
    <3> QED
      BY <1>5, <3>2, <3>3, <3>4 DEF HandledOK
  <2>4. pc[d] # "idle" => conn'[on[d]].wire = conn[on[d]].wire
    BY <1>1, <2>1
  <2> QED
    BY <1>0, <1>4, <1>10, <1>12, <2>1, <2>2, <2>3, <2>4, SettledKept
<1>13. ASSUME NEW d \in Calls, pc[d] \in InFlight PROVE CallKept(d)'
  <2>1. /\ d \notin durable /\ ServedOK(d) /\ on[d] \in Conns /\ pc'[d] \in InFlight
        /\ pc[d] \in Unwritten => \A j \in Conns : d \notin db[j].pending
        /\ \A j \in Conns : d \in db[j].pending => j = on[d] /\ conn[j].wire = <<>>
    BY <1>0, <1>10, <1>13, InFlightFacts
  <2>2. pc'[d] \notin Failed /\ pc'[d] \notin {"ok", "handled"}
    BY <2>1 DEF InFlight, Continuation, Failed
  <2>3. \A j \in Conns : d \in db'[j].pending => PendingOK(d, j)'
    <3> SUFFICES ASSUME NEW j \in Conns, d \in db[j].pending
                 PROVE  PendingOK(d, j)'
      BY <1>0
    <3>1. pc'[d] \notin Unwritten
      <4>1. CASE pc'[d] = pc[d]
        BY <2>1, <4>1
      <4>2. CASE d = r.call /\ r.op = "QUERY"
        BY <1>7, <4>2 DEF Unwritten, StepOp
      <4>3. CASE d = r.call /\ r.op = "BEGIN"
        BY <1>8, <2>1, <4>3 DEF Unwritten, StepOp
      <4> QED
        BY <1>9, <4>1, <4>2, <4>3 DEF StepOp
    <3>2. on'[d] = j /\ conn'[j].wire = <<>>
      BY <1>0, <1>1, <2>1
    <3> QED
      BY <2>2, <3>1, <3>2 DEF PendingOK
  <2>4. CASE pc'[d] = pc[d] /\ fault'[d] = fault[d]
    <3>1. ASSUME on[d] = k, Alive(d) PROVE ServedOK(d)'
      BY <1>0, <2>1, <3>1 DEF ServedOK, Busy
    <3>2. ASSUME on[d] # k PROVE ServedOK(d)'
      BY <1>0, <1>1, <2>1, <2>4, <3>2 DEF ServedOK, Alive
    <3>3. ASSUME ~Alive(d) PROVE ServedOK(d)'
      BY <1>0, <2>1, <2>4, <3>3 DEF ServedOK, Alive
    <3>4. ServedOK(d)'
      BY <3>1, <3>2, <3>3
    <3> QED
      BY <1>0, <2>1, <2>2, <2>3, <3>4 DEF CallKept
  <2>5. CASE d = r.call /\ r.op \in StepOp
    <3>1. /\ on'[d] = k /\ ~Busy(conn'[k]) /\ ReplyOK(r, db[k]) /\ r.call = d
      BY <1>0, <1>1, <1>3, <1>8, <2>5 DEF Busy
    <3>2. ASSUME r.op = "BEGIN" PROVE ServedOK(d)'
      <4>1. pc'[d] = "begun"
        BY <1>7, <2>5, <3>2 DEF StepOp
      <4> QED
        BY <1>0, <3>1, <3>2, <4>1 DEF ServedOK, ReplyOK
    <3>3. ASSUME r.op = "QUERY", r.result = "ok" PROVE ServedOK(d)'
      <4>1. pc'[d] = "answered"
        BY <1>7, <2>5, <3>3 DEF StepOp
      <4> QED
        BY <1>0, <1>1, <3>1, <3>3, <4>1 DEF ServedOK, ReplyOK
    <3>4. ASSUME r.op = "QUERY", r.result # "ok" PROVE ServedOK(d)'
      <4>1. pc'[d] = "erring" /\ fault'[d] = r.result /\ r.result \in {"statement", "deadlock"}
        BY <1>7, <2>5, <3>4 DEF StepOp
      <4> QED
        BY <1>0, <1>1, <3>1, <3>4, <4>1 DEF ServedOK, ReplyOK
    <3>5. ServedOK(d)'
      BY <2>5, <3>2, <3>3, <3>4 DEF StepOp
    <3> QED
      BY <1>0, <2>1, <2>2, <2>3, <3>5 DEF CallKept
  <2> QED
    BY <1>9, <2>4, <2>5
<1> QED
  BY <1>6, <1>11, <1>12, <1>13 DEF Kept

\* The connection reported lost: the calls that wait on it fail, having nothing
\* pending any more.
LEMMA SocketErrorKept ==
  ASSUME SequentialInv, NEW k \in Conns, SocketError(k)
  PROVE  Kept'
<1>0. /\ TypeOK /\ Holding /\ Queued /\ OneAtATime /\ proc = "running"
      /\ isValid(conn[k]) /\ db[k].state = "dropped" /\ db[k].pending = {}
      /\ UNCHANGED <<on, db, durable, stub>>
  BY DEF SequentialInv, Kept, StageInv, SocketError, Quiet, Idle, stubVars, Holding
<1>1. /\ conn'[k].status = "closed" /\ conn'[k].wire = <<>> /\ conn'[k].replies = <<>>
      /\ QueueOK(conn'[k], db[k])
      /\ \A j \in Conns : j # k => conn'[j] = conn[j]
  <2>1. conn[k] \in Endpoint /\ db[k] \in Session
    BY <1>0 DEF TypeOK
  <2>2. conn'[k] = fatalError(conn[k]) /\ \A j \in Conns : j # k => conn'[j] = conn[j]
    BY <1>0 DEF TypeOK, SocketError
  <2> QED
    BY <1>0, <2>1, <2>2, ClosingAsks, QueueKept DEF Queued
<1>2. \A d \in Calls : \/ pc'[d] = pc[d] /\ fault'[d] = fault[d]
                       \/ /\ on[d] = k /\ pc[d] \in {"beginning", "querying"}
                          /\ pc'[d] = "erring" /\ fault'[d] = "fatal"
  BY DEF SocketError, Waiting
<1>3. \A d \in Calls : /\ (pc[d] \in InFlight <=> pc'[d] \in InFlight) /\ (pc[d] = "idle" <=> pc'[d] = "idle")
                       /\ (pc'[d] = "connecting" <=> pc[d] = "connecting")
                       /\ (pc[d] \notin InFlight => pc'[d] = pc[d])
                       /\ (InUse(d)' => InUse(d))
  BY <1>2 DEF InFlight, Continuation, InUse
<1>4. Queued'
  BY <1>0, <1>1 DEF Queued
<1>5. Holding'
  <2>1. \A j \in Conns : conn'[j].status = IF j = k THEN "closed" ELSE conn[j].status
    BY <1>1
  <2>2. \A d \in Calls : pc[d] # "idle" => on[d] \in Conns
    BY <1>0 DEF Holding
  <2>3. \A d \in Calls : pc'[d] \notin {"idle", "connecting"} => conn'[on'[d]].status \in {"up", "closed"}
    BY <1>0, <1>3, <2>1, <2>2 DEF Holding
  <2>4. \A d \in Calls : pc'[d] \in InFlight \ {"connecting"} =>
            /\ stub' \in {on'[d], None}
            /\ isValid(conn'[on'[d]]) \/ db'[on'[d]].state = "dropped"
    <3> SUFFICES ASSUME NEW d \in Calls, pc'[d] \in InFlight \ {"connecting"}
                 PROVE  /\ stub' \in {on'[d], None}
                        /\ isValid(conn'[on'[d]]) \/ db'[on'[d]].state = "dropped"
      OBVIOUS
    <3>1. on[d] \in Conns /\ pc[d] \in InFlight \ {"connecting"}
      BY <1>3, <2>2 DEF InFlight, Continuation
    <3> QED
      BY <1>0, <2>1, <3>1 DEF Holding, isValid
  <2>5. \A j \in Conns : isValid(conn'[j]) => db'[j].state \in {"open", "dropped"}
    BY <1>0, <2>1 DEF Holding, isValid
  <2> QED
    BY <1>0, <1>3, <2>2, <2>3, <2>4, <2>5 DEF Holding
<1>6. ASSUME NEW d \in Calls, pc[d] \notin InFlight PROVE CallKept(d)'
  <2>1. pc[d] # "idle" => on[d] \in Conns
    BY <1>0 DEF Holding
  <2>2. pc[d] # "idle" => (Left(on[d]) => Left(on[d])')
    BY <1>0, <1>1, <1>3, <2>1 DEF Left, isValid
  <2>3. pc[d] # "idle" => \/ conn'[on[d]].wire = conn[on[d]].wire
                          \/ db[on[d]].state = "dropped"
    BY <1>0, <1>1, <2>1
  <2>4. pc[d] # "idle" => (Has(conn'[on[d]].replies, "BEGIN") => Has(conn[on[d]].replies, "BEGIN"))
    BY <1>1, <2>1, HasEmpty
  <2> QED
    BY <1>0, <1>3, <1>6, <2>2, <2>3, <2>4, SettledKept
<1>7. ASSUME NEW d \in Calls, pc[d] \in InFlight PROVE CallKept(d)'
  <2>1. /\ d \notin durable /\ ServedOK(d) /\ on[d] \in Conns /\ pc'[d] \in InFlight
        /\ pc[d] \in Unwritten => \A j \in Conns : d \notin db[j].pending
        /\ \A j \in Conns : d \in db[j].pending => j = on[d] /\ conn[j].wire = <<>>
    BY <1>0, <1>3, <1>7, InFlightFacts
  <2>2. pc'[d] \notin Failed /\ pc'[d] \notin {"ok", "handled"}
    BY <2>1 DEF InFlight, Continuation, Failed
  <2>3. \A j \in Conns : d \in db'[j].pending => PendingOK(d, j)'
    BY <1>0, <1>1, <1>2, <2>1, <2>2 DEF PendingOK, Unwritten
  <2>4. ASSUME on[d] = k PROVE ServedOK(d)'
    BY <1>0, <1>1, <2>4 DEF ServedOK, isValid
  <2>5. ASSUME on[d] # k PROVE ServedOK(d)'
    BY <1>0, <1>1, <1>2, <2>1, <2>5 DEF ServedOK, Alive
  <2> QED
    BY <1>0, <2>1, <2>2, <2>3, <2>4, <2>5 DEF CallKept
<1> QED
  BY <1>4, <1>5, <1>6, <1>7 DEF Kept

-----------------------------------------------------------------------------
(* The server.                                                              *)

\* The end of a session: it loses what was not committed only if the session
\* was dropped.
LEMMA OverKept ==
  ASSUME SequentialInv, NEW k \in Conns, NEW state \in {"ended", "dropped"},
         db[k].state = "open", db' = [db EXCEPT ![k] = Over(db[k], state)],
         UNCHANGED <<proc, pc, on, fault, stub, conn, durable>>,
         state = "ended" => /\ conn[k].wire = <<>>
                            /\ conn[k].status = "closed" \/ proc # "running"
  PROVE  Kept'
<1>0. TypeOK /\ Holding /\ Queued
  BY DEF SequentialInv, Kept, StageInv
<1>1. /\ db'[k].state = state /\ db'[k].pending = {} /\ QueueOK(conn[k], db'[k])
      /\ \A j \in Conns : j # k => db'[j] = db[j]
  <2>1. conn[k] \in Endpoint /\ db[k] \in Session
    BY <1>0 DEF TypeOK
  <2>2. db'[k] = Over(db[k], state) /\ \A j \in Conns : j # k => db'[j] = db[j]
    BY <1>0 DEF TypeOK
  <2>3. db'[k].state = state /\ db'[k].pending = {}
    BY <2>1, <2>2 DEF Over, Session
  <2>4. QueueOK(conn[k], Over(db[k], state))
    BY <1>0, <2>1, QueueKept DEF Queued
  <2> QED
    BY <2>2, <2>3, <2>4
<1>2. Queued'
  BY <1>0, <1>1 DEF Queued
<1>3. Holding'
  <2>1. \A d \in Calls : proc = "running" /\ pc[d] \in InFlight \ {"connecting"} =>
          isValid(conn[on[d]]) \/ db'[on[d]].state = "dropped"
    <3> SUFFICES ASSUME NEW d \in Calls, proc = "running", pc[d] \in InFlight \ {"connecting"},
                        ~isValid(conn[on[d]])
                 PROVE  db'[on[d]].state = "dropped"
      OBVIOUS
    <3>1. on[d] \in Conns /\ db[on[d]].state = "dropped"
      BY <1>0 DEF Holding, InFlight, Continuation
    <3> QED
      BY <1>1, <3>1
  <2>2. \A j \in Conns : db'[j].state # "open" => db'[j].pending = {}
    BY <1>0, <1>1 DEF Holding
  <2>3. proc = "running" => \A j \in Conns : isValid(conn[j]) => db'[j].state \in {"open", "dropped"}
    BY <1>0, <1>1 DEF Holding, isValid
  <2> QED
    BY <1>0, <2>1, <2>2, <2>3 DEF Holding
<1>4. ASSUME NEW d \in Calls PROVE CallKept(d)'
  <2>1. CallKept(d)
    BY DEF SequentialInv, Kept
  <2>2. \A j \in Conns : /\ db'[j].pending \subseteq db[j].pending
                         /\ db'[j].state = "open" => db'[j] = db[j]
                         /\ db[j].state = "dropped" => db'[j].state = "dropped"
    BY <1>0, <1>1
  <2>3. pc[d] # "idle" => on[d] \in Conns
    BY <1>0 DEF Holding
  <2>4. ServedOK(d) /\ pc[d] # "idle" => ServedOK(d)'
    <3> SUFFICES ASSUME ServedOK(d), pc[d] # "idle" PROVE ServedOK(d)'
      OBVIOUS
    <3>1. db'[on[d]] = db[on[d]] \/ (db'[on[d]].state # "open" /\ db'[on[d]].pending = {})
      BY <1>1, <2>3
    <3>2. CASE db'[on[d]] = db[on[d]]
      BY <3>2 DEF ServedOK, Alive
    <3>3. CASE db'[on[d]].state # "open" /\ db'[on[d]].pending = {}
      BY <3>3 DEF ServedOK, Alive
    <3> QED
      BY <3>1, <3>2, <3>3
  <2>5. pc[d] = "idle" => ServedOK(d)'
    BY DEF ServedOK, Alive
  <2>6. \A j \in Conns : PendingOK(d, j) => PendingOK(d, j)'
    BY DEF PendingOK, Left
  <2>7. pc[d] # "idle" /\ Saved(d) => Saved(d)'
    BY <2>2, <2>3 DEF Saved
  <2>8. pc[d] = "handled" /\ HandledOK(d) => HandledOK(d)'
    <3> SUFFICES ASSUME pc[d] = "handled", HandledOK(d) PROVE HandledOK(d)'
      OBVIOUS
    <3>1. Saved(d) => Saved(d)'
      BY <2>7
    <3>2. \A e \in Calls : InUse(e)' => InUse(e)
      BY DEF InUse
    <3>3. db'[on[d]].state = "open" => d \in durable \/ d \in db'[on[d]].pending
      BY <2>2, <2>3 DEF HandledOK
    <3> QED
      BY <3>1, <3>2, <3>3 DEF HandledOK
  <2>9. pc[d] = "ok" /\ OkOK(d) => OkOK(d)'
    <3> SUFFICES ASSUME pc[d] = "ok", OkOK(d) PROVE OkOK(d)'
      OBVIOUS
    <3>1. CASE Saved(d)
      BY <2>7, <3>1 DEF OkOK
    <3>2. CASE on[d] # k
      BY <1>1, <2>3, <3>2 DEF OkOK, Saved
    <3>3. CASE on[d] = k /\ ~Saved(d)
      <4>1. state # "ended"
        <5>1. SaveFirst(conn[k].wire)
          BY <3>3 DEF OkOK
        <5>2. ~SaveFirst(<<>>)
          BY DEF SaveFirst
        <5> QED
          BY <5>1, <5>2
      <4> QED
        BY <1>1, <3>3, <4>1 DEF OkOK, Saved
    <3> QED
      BY <3>1, <3>2, <3>3
  <2>10. \A j \in Conns : d \in db'[j].pending => PendingOK(d, j)'
    BY <2>1, <2>2, <2>6 DEF CallKept
  <2> QED
    BY <2>1, <2>4, <2>5, <2>8, <2>9, <2>10 DEF CallKept
<1> QED
  BY <1>2, <1>3, <1>4 DEF Kept

\* A command executed: the head of the wire, what it does to both ends, and whose
\* it is.
Effect(k, result, writes) ==
  LET h == Head(conn[k].wire)
      n == conn[k]
      a == conn'[k]
      t == db'[k] IN
  /\ n.wire \in Seq(Command) /\ n.wire # <<>>
  /\ a.status = n.status /\ a.wire = Tail(n.wire)
  /\ \/ a.replies = n.replies
     \/ \E m \in Reply : m.op = h.op /\ a.replies = Append(n.replies, m)
  /\ \A j \in Conns : j # k => conn'[j] = conn[j] /\ db'[j] = db[j]
  /\ db[k].state = "open" /\ t.state = "open"
  /\ h.op \in StepOp => h.call \in Calls /\ on[h.call] = k /\ pc[h.call] \in InFlight
  /\ h.op = "QUERY" => db[k].tx /\ a.wire = <<>> /\ pc[h.call] = "querying"
  /\ h.op \in Saves => durable' = durable \cup db[k].pending /\ t.pending = {}
  /\ h.op = "ROLLBACK" => durable' = durable /\ t.pending = {}
  /\ h.op = "QUERY" => durable' = durable
  /\ h.op = "QUERY" /\ result = "deadlock" => t.pending = {}
  /\ h.op = "QUERY" /\ result # "deadlock" =>
       t.pending = IF writes THEN db[k].pending \cup {h.call} ELSE db[k].pending
  /\ h.op \in Op
  /\ QueueOK(a, t)

\* That is what executing a command does.
LEMMA ExecutedHead ==
  ASSUME SequentialInv, NEW k \in Conns, NEW result \in Result, NEW writes \in BOOLEAN,
         Execute(k, result, writes)
  PROVE  Effect(k, result, writes)
<1> DEFINE h == Head(conn[k].wire)
           s == db[k]
           t == Executed(s, h, result, writes)
<1>0. /\ TypeOK /\ Queued /\ Staged /\ s.state = "open" /\ conn[k].wire # <<>>
      /\ conn[k] \in Endpoint /\ s \in Session
      /\ h.op # "QUERY" => result = "ok"
      /\ h.op = "QUERY" /\ result = "ok" => writes
  BY DEF SequentialInv, Kept, StageInv, Execute, TypeOK
<1>1. /\ durable' = durable \cup Persisted(s, h, writes)
      /\ conn'[k] = Answered(conn[k], result, t.tx) /\ db'[k] = t
      /\ \A j \in Conns : j # k => conn'[j] = conn[j] /\ db'[j] = db[j]
  BY <1>0 DEF Execute, TypeOK
<1>2. h \in Command /\ t \in Session /\ t.tx \in BOOLEAN /\ conn[k].wire \in Seq(Command)
  BY <1>0, ExecuteType, EndpointFields DEF Session
<1>3. h.op \in Op /\ h.call \in Calls
  BY <1>2 DEF Command
<1> DEFINE m == [op |-> h.op, call |-> h.call, result |-> result, tx |-> t.tx]
<1>4. /\ conn'[k].status = conn[k].status /\ conn'[k].wire = Tail(conn[k].wire)
      /\ isValid(conn[k]) => conn'[k].replies = Append(conn[k].replies, m)
      /\ ~isValid(conn[k]) => conn'[k].replies = conn[k].replies
      /\ Asks(conn[k], h.op, h.call)
  BY <1>0, <1>1, <1>2, AnsweredAsks
<1>5. m \in Reply /\ m.op = h.op
  BY <1>2, <1>3 DEF Reply
<1>6. QueueOK(conn'[k], t)
  BY <1>0, <1>1, QueueExecuted DEF Queued
<1>7. h.op \in StepOp => /\ on[h.call] = k
                         /\ pc[h.call] = IF h.op = "BEGIN" THEN "beginning" ELSE "querying"
  BY <1>0, <1>3, <1>4 DEF Staged, StepOp
<1>8. h.op = "QUERY" => s.tx /\ conn'[k].wire = <<>>
  <2>1. 1 \in DOMAIN conn[k].wire /\ h = conn[k].wire[1]
    BY <1>0, <1>2, TailFacts
  <2>2. Len(conn[k].wire) = 1 => Tail(conn[k].wire) = <<>>
    BY <1>2, AloneTail
  <2>3. QueueOK(conn[k], s)
    BY <1>0 DEF Queued
  <2> HIDE DEF h
  <2> QED
    BY <1>0, <1>4, <2>1, <2>2, <2>3 DEF QueueOK, StepOp
<1>9. /\ h.op \in Saves => durable' = durable \cup s.pending
      /\ h.op \notin Saves => durable' = durable
  BY <1>1, <1>3, <1>8 DEF Persisted, Saves, Op
<1>10. /\ t.state = s.state
       /\ h.op # "QUERY" \/ result = "deadlock" => t.pending = {}
       /\ h.op = "QUERY" /\ result # "deadlock" =>
            t.pending = IF writes THEN s.pending \cup {h.call} ELSE s.pending
  <2>1. CASE h.op = "QUERY" /\ result # "deadlock"
    <3>1. t = [s EXCEPT !.pending = IF writes /\ s.tx THEN s.pending \cup {h.call} ELSE s.pending]
      BY <2>1 DEF Executed
    <3> QED
      BY <1>0, <1>8, <2>1, <3>1 DEF Session
  <2>2. CASE ~(h.op = "QUERY" /\ result # "deadlock")
    <3>1. t = [s EXCEPT !.tx = (h.op = "BEGIN"), !.pending = {}]
      BY <2>2 DEF Executed
    <3> QED
      BY <1>0, <2>2, <3>1 DEF Session
  <2> QED
    BY <2>1, <2>2
<1> HIDE DEF h, t, m
<1>11. \/ conn'[k].replies = conn[k].replies
       \/ \E x \in Reply : x.op = h.op /\ conn'[k].replies = Append(conn[k].replies, x)
  BY <1>4, <1>5
<1> QED
  BY <1>0, <1>1, <1>2, <1>3, <1>4, <1>6, <1>7, <1>8, <1>9, <1>10, <1>11, Zenon
     DEF Effect, h, StepOp, Saves, InFlight, Op

\* Whatever the server executes, nothing a failed call wrote is committed and
\* nothing a handled or successful one wrote is lost.
LEMMA ExecuteKept ==
  ASSUME SequentialInv, NEW k \in Conns, NEW result \in Result, NEW writes \in BOOLEAN,
         Execute(k, result, writes)
  PROVE  Kept'
<1> DEFINE h == Head(conn[k].wire)
           w == conn[k].wire
           s == db[k]
<1>0. /\ TypeOK /\ Holding /\ Queued /\ OneAtATime
      /\ \A d \in Calls : CallKept(d)
      /\ UNCHANGED <<proc, pc, on, fault, stub>>
  BY DEF SequentialInv, Kept, StageInv, Execute, stubVars
<1>a. Effect(k, result, writes)
  BY ExecutedHead
<1>1. /\ w \in Seq(Command) /\ w # <<>> /\ s.state = "open" /\ db'[k].state = "open"
      /\ conn'[k].status = conn[k].status /\ conn'[k].wire = Tail(w)
      /\ \A j \in Conns : j # k => conn'[j] = conn[j] /\ db'[j] = db[j]
  BY <1>a, Zenon DEF Effect
<1>2. /\ h.op \in StepOp => h.call \in Calls /\ on[h.call] = k /\ pc[h.call] \in InFlight
      /\ h.op = "QUERY" => conn'[k].wire = <<>> /\ pc[h.call] = "querying"
      /\ h.op \in Op
  BY <1>a, Zenon DEF Effect
<1>3. /\ h.op \in Saves => durable' = durable \cup s.pending /\ db'[k].pending = {}
      /\ h.op \notin Saves => durable' = durable
      /\ h.op = "ROLLBACK" => db'[k].pending = {}
  BY <1>2, <1>a DEF Effect, Saves, Op
<1>4. h.op = "QUERY" => \/ db'[k].pending = {} /\ result = "deadlock"
                        \/ db'[k].pending \in {s.pending, s.pending \cup {h.call}}
  BY <1>a, Zenon DEF Effect
<1>5. QueueOK(conn'[k], db'[k])
  BY <1>a, Zenon DEF Effect
<1> HIDE DEF h
<1>6. /\ \A d \in db'[k].pending : h.op = "QUERY" /\ (d \in s.pending \/ d = h.call)
      /\ durable \subseteq durable'
  BY <1>2, <1>3, <1>4 DEF Saves, Op
<1>7. Queued'
  BY <1>0, <1>1, <1>5 DEF Queued
<1>8. Holding'
  <2>1. \A j \in Conns : conn'[j].status = conn[j].status /\ db'[j].state = db[j].state
    BY <1>1
  <2>2. \A j \in Conns : db'[j].state # "open" => db'[j].pending = {}
    BY <1>0, <1>1 DEF Holding
  <2>3. \A d \in Calls : pc[d] \notin {"idle", "connecting"} => conn'[on[d]].status \in {"up", "closed"}
    BY <1>0, <2>1 DEF Holding
  <2>4. \A d \in Calls : proc = "running" /\ pc[d] \in InFlight \ {"connecting"} =>
          isValid(conn'[on[d]]) \/ db'[on[d]].state = "dropped"
    <3> SUFFICES ASSUME NEW d \in Calls, proc = "running", pc[d] \in InFlight \ {"connecting"}
                 PROVE  isValid(conn'[on[d]]) \/ db'[on[d]].state = "dropped"
      OBVIOUS
    <3>1. on[d] \in Conns /\ (isValid(conn[on[d]]) \/ db[on[d]].state = "dropped")
      BY <1>0 DEF Holding, InFlight, Continuation
    <3> QED
      BY <2>1, <3>1 DEF isValid
  <2>5. proc = "running" => \A j \in Conns : isValid(conn'[j]) => db'[j].state \in {"open", "dropped"}
    BY <1>0, <2>1 DEF Holding, isValid
  <2> QED
    BY <1>0, <2>2, <2>3, <2>4, <2>5 DEF Holding
<1>9. ASSUME NEW d \in Calls, pc[d] \in InFlight PROVE CallKept(d)'
  <2>1. /\ d \notin durable /\ (proc = "running" => ServedOK(d)) /\ on[d] \in Conns
        /\ pc[d] \in Unwritten => \A j \in Conns : d \notin db[j].pending
        /\ \A j \in Conns : d \in db[j].pending => j = on[d] /\ conn[j].wire = <<>>
    BY <1>9, InFlightFacts
  <2>2. d \notin s.pending /\ pc[d] \notin Failed /\ pc[d] \notin {"ok", "handled"}
    BY <1>1, <1>9, <2>1 DEF InFlight, Continuation, Failed
  <2>3. d \notin durable'
    BY <1>3, <2>1, <2>2
  <2>4. ASSUME NEW j \in Conns, d \in db'[j].pending PROVE PendingOK(d, j)'
    <3>1. CASE j # k
      <4>1. d \in db[j].pending /\ conn'[j] = conn[j]
        BY <1>1, <2>4, <3>1
      <4> QED
        BY <1>0, <2>1, <2>2, <4>1 DEF PendingOK
    <3>2. CASE j = k
      <4>1. h.op = "QUERY" /\ d = h.call
        BY <1>6, <2>2, <2>4, <3>2
      <4> QED
        BY <1>0, <1>2, <2>2, <3>2, <4>1 DEF PendingOK, StepOp, Unwritten
    <3> QED
      BY <3>1, <3>2
  <2>5. ASSUME proc = "running", on[d] = k PROVE ServedOK(d)'
    <3>1. ~Alive(d)
      <4>1. Alive(d) => isValid(conn[k])
        BY <1>0, <1>1, <1>9, <2>5 DEF Holding, Alive
      <4>2. Busy(conn[k])
        BY <1>1 DEF Busy
      <4> QED
        BY <2>1, <2>5, <4>1, <4>2 DEF ServedOK
    <3>2. pc[d] = "erring" => d \notin db'[k].pending
      <4>1. h.op = "QUERY" => d # h.call \/ pc[d] = "querying"
        BY <1>2
      <4> QED
        BY <1>6, <2>2, <4>1
    <3>3. pc[d] = "erring" => fault[d] = "fatal"
      BY <3>1 DEF Alive
    <3> QED
      BY <1>0, <2>5, <3>1, <3>2, <3>3 DEF ServedOK, Alive
  <2>6. ASSUME proc = "running", on[d] # k PROVE ServedOK(d)'
    BY <1>0, <1>1, <2>1, <2>6 DEF ServedOK, Alive
  <2> QED
    BY <1>0, <2>2, <2>3, <2>4, <2>5, <2>6 DEF CallKept
<1>10. ASSUME NEW d \in Calls, pc[d] \notin InFlight, pc[d] = "idle" \/ on[d] # k PROVE CallKept(d)'
  <2>1. d \notin s.pending
    BY <1>0, <1>10 DEF CallKept, PendingOK, Unwritten
  <2>2. h.op = "QUERY" => d # h.call
    BY <1>2, <1>10 DEF StepOp
  <2>3. d \in durable' <=> d \in durable
    BY <1>3, <2>1
  <2>4. \A j \in Conns : d \in db'[j].pending => d \in db[j].pending
    BY <1>1, <1>6, <2>1, <2>2
  <2>5. pc[d] # "idle" => on[d] \in Conns /\ conn'[on[d]] = conn[on[d]] /\ db'[on[d]] = db[on[d]]
    BY <1>0, <1>1, <1>10 DEF Holding
  <2>6. \A j \in Conns : Left(j) => Left(j)'
    BY <1>0, <1>1 DEF Left, isValid
  <2>7. \A e \in Calls : InUse(e)' => InUse(e)
    BY <1>0 DEF InUse
  <2> QED
    BY <1>0, <1>10, <2>3, <2>4, <2>5, <2>6, <2>7, SettledKept
<1>11. ASSUME NEW d \in Calls, pc[d] \notin InFlight, pc[d] # "idle", on[d] = k PROVE CallKept(d)'
  <2>1. CallKept(d) /\ pc[d] \in Outcome /\ pc[d] \notin Unwritten \ {"refused"}
    BY <1>0, <1>11 DEF TypeOK, Outcome, Unwritten, InFlight, Continuation
  <2>2. /\ SaveFirst(w) => h.op # "ROLLBACK" /\ (h.op \in Saves \/ SaveFirst(Tail(w)))
        /\ RollbackFirst(w) => h.op \notin Saves /\ (h.op = "ROLLBACK" \/ RollbackFirst(Tail(w)))
        /\ NoSave(w) => h.op \notin Saves /\ NoSave(Tail(w))
    BY <1>1, TailDecides DEF h
  <2>3. h.op = "QUERY" => ~SaveFirst(Tail(w)) /\ ~RollbackFirst(Tail(w))
    <3>1. DOMAIN <<>> = {}
      OBVIOUS
    <3>2. ~SaveFirst(<<>>) /\ ~RollbackFirst(<<>>)
      BY <3>1 DEF SaveFirst, RollbackFirst
    <3> QED
      BY <1>1, <1>2, <3>2
  <2>4. d \in s.pending => PendingOK(d, k)
    BY <2>1 DEF CallKept
  <2>5. d \in durable' => pc[d] \in {"ok", "handled"}
    <3>1. CASE d \in durable
      BY <2>1, <3>1 DEF CallKept
    <3>2. CASE d \in s.pending /\ h.op \in Saves
      BY <2>1, <2>2, <2>4, <3>2 DEF PendingOK, Failed, Outcome
    <3> QED
      BY <1>3, <3>1, <3>2
  <2>6. h.op = "QUERY" => d # h.call
    BY <1>2, <1>11 DEF StepOp
  <2>7. ASSUME NEW j \in Conns, d \in db'[j].pending PROVE PendingOK(d, j)'
    <3>1. d \in db[j].pending
      BY <1>1, <1>6, <2>6, <2>7
    <3>2. PendingOK(d, j) /\ j = k
      BY <1>11, <2>1, <3>1 DEF CallKept, PendingOK
    <3>3. h.op = "QUERY"
      BY <1>6, <2>7, <3>2
    <3>4. pc[d] \in Failed => NoSave(Tail(w)) /\ Left(k)
      BY <2>2, <2>3, <3>2, <3>3 DEF PendingOK
    <3>5. Left(k) => Left(k)'
      BY <1>0, <1>1 DEF Left, isValid
    <3> QED
      BY <1>0, <1>1, <1>11, <3>2, <3>4, <3>5 DEF PendingOK
  <2>8. pc[d] = "handled" => d \in durable'
    <3> SUFFICES ASSUME pc[d] = "handled" PROVE d \in durable'
      OBVIOUS
    <3>1. HandledOK(d)
      BY <2>1 DEF CallKept
    <3>2. d \in durable \/ d \in s.pending
      BY <1>1, <1>11, <3>1 DEF HandledOK
    <3>3. CASE h.op \in Saves
      BY <1>3, <3>2, <3>3
    <3>4. CASE h.op = "ROLLBACK"
      <4>1. Has(w, "ROLLBACK")
        <5>1. 1 \in DOMAIN w /\ h = w[1]
          BY <1>1, TailFacts DEF h
        <5> QED
          BY <3>4, <5>1 DEF Has
      <4> QED
        BY <1>1, <1>6, <1>11, <3>1, <4>1 DEF HandledOK, Saved
    <3>5. CASE h.op = "QUERY"
      <4> DEFINE e == h.call
      <4>1. e \in Calls /\ on[e] = k /\ pc[e] = "querying" /\ e # d
        BY <1>2, <2>6, <3>5 DEF StepOp
      <4>2. d < e
        <5>1. pc[e] \notin Outcome /\ pc[d] # "idle"
          BY <4>1 DEF Outcome
        <5>2. ~(e < d)
          BY <1>0, <4>1, <5>1 DEF OneAtATime
        <5>3. d \in Nat /\ e \in Nat
          BY <4>1, CallsAssumption
        <5> HIDE DEF e
        <5> QED
          BY <4>1, <5>2, <5>3
      <4>3. Saved(d)
        BY <1>11, <3>1, <4>1, <4>2 DEF HandledOK, InUse
      <4> QED
        BY <1>1, <1>6, <1>11, <4>3 DEF Saved
    <3> QED
      BY <1>2, <3>3, <3>4, <3>5 DEF Op, Saves
  <2>9. pc[d] = "ok" => d \in durable'
    <3> SUFFICES ASSUME pc[d] = "ok" PROVE d \in durable'
      OBVIOUS
    <3>1. OkOK(d)
      BY <2>1 DEF CallKept
    <3>2. CASE Saved(d)
      BY <1>1, <1>6, <1>11, <3>2 DEF Saved
    <3>3. CASE d \in s.pending /\ SaveFirst(w)
      <4>1. h.op \in Saves
        BY <1>2, <2>2, <2>3, <3>3 DEF Op, Saves
      <4> QED
        BY <1>3, <3>3, <4>1
    <3> QED
      BY <1>11, <3>1, <3>2, <3>3 DEF OkOK
  <2>10. ServedOK(d)'
    BY <1>0, <1>11 DEF ServedOK, Alive, InFlight, Continuation
  <2>11. pc[d] = "handled" => HandledOK(d)'
    BY <2>8 DEF HandledOK, Saved
  <2>12. pc[d] = "ok" => OkOK(d)'
    BY <2>9 DEF OkOK, Saved
  <2> QED
    BY <1>0, <2>5, <2>7, <2>10, <2>11, <2>12 DEF CallKept
<1> QED
  BY <1>7, <1>8, <1>9, <1>10, <1>11 DEF Kept

-----------------------------------------------------------------------------
(* What a sequential program can rely on.                                   *)

\* At the start no call has been made.
LEMMA InitSequentialInv ==
  ASSUME \A o \in Options : ~o.throwOnError, Init
  PROVE  SequentialInv
<1>1. StageInv /\ ~opt.throwOnError
  BY InitStageInv DEF Init
<1>2. /\ \A c \in Calls : pc[c] = "idle"
      /\ \A k \in Conns : conn[k] = NewEndpoint /\ db[k] = NewSession
      /\ durable = {}
  BY DEF Init
<1>3. /\ \A k \in Conns : /\ conn[k].status = "unused" /\ conn[k].wire = <<>> /\ conn[k].replies = <<>>
                          /\ db[k].pending = {}
      /\ DOMAIN <<>> = {}
  BY <1>2 DEF NewEndpoint, NewSession
<1>4. OneAtATime
  BY <1>2 DEF OneAtATime, InFlight, Continuation
<1>5. Holding
  BY <1>2, <1>3 DEF Holding, isValid, InFlight, Continuation
<1>6. Queued
  BY <1>3 DEF Queued, QueueOK
<1>7. \A c \in Calls : CallKept(c)
  BY <1>2, <1>3 DEF CallKept, ServedOK, Alive
<1> QED
  BY <1>1, <1>4, <1>5, <1>6, <1>7 DEF SequentialInv, Kept

\* The options are those of the constructor.
LEMMA OptionsStay == [Next]_vars => opt' = opt
<1> USE DEF stubVars
<1>1. ASSUME NEW c \in Calls, \/ Connected(c) \/ ConnectFails(c) \/ HandledLater(c)
                              \/ \E m \in Modes : Reuse(c, m) \/ \E k \in Conns : Connect(c, m, k)
      PROVE  opt' = opt
  BY <1>1 DEF Connected, ConnectFails, HandledLater, Reuse, Connect
<1>2. ASSUME NEW c \in Calls, Continue(c) PROVE opt' = opt
  BY <1>2 DEF Continue, Check, Begun, Handled, Succeeds, _handleError
<1>3. ASSUME NEW k \in Conns, \/ Deliver(k) \/ SocketError(k) \/ SessionEnds(k) \/ Drop(k)
                              \/ \E result \in Result, writes \in BOOLEAN : Execute(k, result, writes)
      PROVE  opt' = opt
  BY <1>3 DEF Deliver, SocketError, SessionEnds, Drop, Execute
<1>4. End \/ PoolEnded \/ UNCHANGED vars => opt' = opt
  BY DEF End, PoolEnded, vars
<1> QED
  BY <1>1, <1>2, <1>3, <1>4 DEF Next, Calling

\* A step that changes nothing keeps what is known.
LEMMA StutterKept ==
  ASSUME SequentialInv, UNCHANGED vars
  PROVE  Kept'
BY DEF SequentialInv, Kept, vars, Holding, Queued, CallKept, ServedOK, Alive, PendingOK, Left,
       HandledOK, InUse, Saved, OkOK

\* SequentialInv is inductive for a program that awaits each call.
LEMMA NextSequentialInv ==
  ASSUME Sequential, SequentialInv, [Next]_vars
  PROVE  SequentialInv'
<1>1. StageInv' /\ opt' = opt
  BY NextStageInv, OptionsStay DEF SequentialInv
<1>2. OneAtATime'
  BY <1>1, NextOneAtATime DEF SequentialInv
<1>3. Kept'
  <2>1. ASSUME NEW c \in Calls, NEW m \in Modes, Reuse(c, m) PROVE Kept'
    BY <2>1, ReuseKept
  <2>2. ASSUME NEW c \in Calls, NEW m \in Modes, NEW k \in Conns, Connect(c, m, k) PROVE Kept'
    BY <2>2, ConnectKept
  <2>3. ASSUME NEW c \in Calls, Connected(c) \/ ConnectFails(c) \/ Continue(c) \/ HandledLater(c)
        PROVE  Kept'
    BY <1>2, <2>3, ConnectedKept, ConnectFailsKept, CheckKept, BegunKept, HandledKept, SucceedsKept,
       HandleErrorKept DEF Continue
  <2>4. End \/ PoolEnded \/ UNCHANGED vars => Kept'
    BY EndKept, PoolEndedKept, StutterKept
  <2>5. ASSUME NEW k \in Conns, Deliver(k) \/ SocketError(k) PROVE Kept'
    BY <2>5, DeliverKept, SocketErrorKept
  <2>6. ASSUME NEW k \in Conns, NEW result \in Result, NEW writes \in BOOLEAN, Execute(k, result, writes)
        PROVE  Kept'
    BY <2>6, ExecuteKept
  <2>7. ASSUME NEW k \in Conns, SessionEnds(k) \/ Drop(k) PROVE Kept'
    <3>1. UNCHANGED <<proc, pc, on, fault, stub, conn, durable>> /\ db[k].state = "open"
      BY <2>7 DEF SessionEnds, Drop, stubVars
    <3>2. CASE SessionEnds(k)
      BY <3>1, <3>2, OverKept DEF SessionEnds
    <3>3. CASE Drop(k)
      BY <3>1, <3>3, OverKept DEF Drop
    <3> QED
      BY <2>7, <3>2, <3>3
  <2> QED
    BY <2>1, <2>2, <2>3, <2>4, <2>5, <2>6, <2>7 DEF Next, Calling
<1> QED
  BY <1>1, <1>2, <1>3 DEF SequentialInv

\* What SequentialInv says to the program.
LEMMA SequentialPromises ==
  SequentialInv => AtomicFailure /\ HandledSavedByNext /\ DurableSuccess
<1> SUFFICES ASSUME SequentialInv PROVE AtomicFailure /\ HandledSavedByNext /\ DurableSuccess
  OBVIOUS
<1>0. \A c \in Calls : CallKept(c)
  BY DEF SequentialInv, Kept
<1>1. AtomicFailure
  BY <1>0 DEF AtomicFailure, CallKept
<1>2. HandledSavedByNext
  BY <1>0 DEF HandledSavedByNext, CallKept, HandledOK, InUse, Saved
<1>3. DurableSuccess
  BY <1>0 DEF DurableSuccess, CallKept, OkOK, Saved, CommitComing, SaveFirst, Saves
<1> QED
  BY <1>1, <1>2, <1>3

\* Nothing of a failed call is ever committed when the calls are made one at a time
\* with the default options, whatever else fails: deadlocks and lost connections
\* included, with or without a pool (lines 96-132 with 255).
THEOREM SequentialAtomicFailure ==
  ASSUME Sequential, \A o \in Options : ~o.throwOnError
  PROVE  Spec => []AtomicFailure
<1>1. Init => SequentialInv
  BY InitSequentialInv
<1>2. SequentialInv /\ [Next]_vars => SequentialInv'
  BY NextSequentialInv
<1>3. SequentialInv => AtomicFailure
  BY SequentialPromises
<1> QED
  BY <1>1, <1>2, <1>3, PTL DEF Spec

\* What a handler's call wrote is saved by the next call on its connection, even if
\* that next call's statement then deadlocks (lines 267-269).
THEOREM SequentialHandledSaved ==
  ASSUME Sequential, \A o \in Options : ~o.throwOnError
  PROVE  Spec => []HandledSavedByNext
<1>1. Init => SequentialInv
  BY InitSequentialInv
<1>2. SequentialInv /\ [Next]_vars => SequentialInv'
  BY NextSequentialInv
<1>3. SequentialInv => HandledSavedByNext
  BY SequentialPromises
<1> QED
  BY <1>1, <1>2, <1>3, PTL DEF Spec

\* Success means saved, or about to be, also with a pool and when statements deadlock
\* (line 270): SuccessIsDurable assumes neither of calls made one at a time.
THEOREM SequentialSuccess ==
  ASSUME Sequential, \A o \in Options : ~o.throwOnError
  PROVE  Spec => []DurableSuccess
<1>1. Init => SequentialInv
  BY InitSequentialInv
<1>2. SequentialInv /\ [Next]_vars => SequentialInv'
  BY NextSequentialInv
<1>3. SequentialInv => DurableSuccess
  BY SequentialPromises
<1> QED
  BY <1>1, <1>2, <1>3, PTL DEF Spec

-----------------------------------------------------------------------------
(* The stub implements the ledger.                                          *)

\* What the ledger sees of a call, state by state.
Reported ==
  /\ report \in [Calls -> {"none", "open", "done", "failed"}]
  /\ \A c \in Calls : /\ pc[c] = "idle" => report[c] = "none"
                      /\ pc[c] \in InFlight => report[c] = "open"
                      /\ pc[c] \in {"ok", "handled"} => report[c] = "done"
                      /\ pc[c] \in Failed => report[c] = "failed"

\* The report is what its definition says.
LEMMA Reports == Reported
<1> DEFINE told(c) == CASE pc[c] = "idle" -> "none"
                        [] pc[c] \in InFlight -> "open"
                        [] pc[c] \in {"ok", "handled"} -> "done"
                        [] OTHER -> "failed"
<1>1. \A c \in Calls : /\ told(c) \in {"none", "open", "done", "failed"}
                       /\ pc[c] = "idle" => told(c) = "none"
                       /\ pc[c] \in InFlight => told(c) = "open"
                       /\ pc[c] \in {"ok", "handled"} => told(c) = "done"
                       /\ pc[c] \in Failed => told(c) = "failed"
  BY DEF InFlight, Continuation, Failed
<1> HIDE DEF told
<1>2. report = [c \in Calls |-> told(c)]
  BY DEF report, told
<1> QED
  BY <1>1, <1>2 DEF Reported

\* The ledger starts empty.
LEMMA InitLedger == Init => Ledger!Init
<1> SUFFICES ASSUME Init PROVE Ledger!Init
  OBVIOUS
<1>1. Reported
  BY Reports
<1>2. \A c \in Calls : report[c] = "none"
  BY <1>1 DEF Init, Reported
<1>3. report = [c \in Calls |-> "none"] /\ durable = {}
  BY <1>1, <1>2 DEF Reported, Init
<1> QED
  BY <1>3 DEF Ledger!Init

\* Every step of the stub is one step of the ledger, or none.
LEMMA StepLedger ==
  ASSUME Sequential, SequentialInv, SequentialInv', Reported, Reported', [Next]_vars
  PROVE  [Ledger!Next]_(Ledger!ledger)
<1>0. /\ StageInv /\ OneAtATime /\ TypeOK /\ TypeOK'
      /\ \A c \in Calls : CallKept(c)'
  BY DEF SequentialInv, Kept, StageInv
<1>1. \A c \in Calls : pc'[c] = pc[c] => report'[c] = report[c]
  <2>1. \A c \in Calls : pc[c] \in {"idle", "ok", "handled"} \cup InFlight \cup Failed
    BY <1>0 DEF TypeOK, Outcome, Failed
  <2> QED
    BY <2>1 DEF Reported
<1>2. CASE \E result \in Result, writes \in BOOLEAN, k \in Conns : Execute(k, result, writes)
  <2>1. pc' = pc /\ durable \subseteq durable'
    BY <1>2 DEF Execute
  <2>2. report' = report
    BY <1>1, <2>1 DEF Reported
  <2>3. \A c \in durable' : c \in Calls /\ report[c] = "done"
    BY <1>0, <2>1 DEF CallKept, Reported, TypeOK
  <2>4. CASE durable' = durable
    BY <2>2, <2>4 DEF Ledger!ledger
  <2>5. CASE durable' # durable
    <3> DEFINE S == durable' \ durable
    <3>1. S # {} /\ S \in SUBSET Calls /\ durable' = durable \cup S
      BY <1>0, <2>1, <2>5 DEF TypeOK
    <3>2. S \subseteq Ledger!MayBeSaved \ durable
      BY <2>3 DEF Ledger!MayBeSaved
    <3>3. Ledger!Save(S)
      BY <2>2, <3>1, <3>2 DEF Ledger!Save
    <3> HIDE DEF S
    <3> QED
      BY <3>1, <3>3 DEF Ledger!Next
  <2> QED
    BY <2>4, <2>5
<1>3. CASE ~\E result \in Result, writes \in BOOLEAN, k \in Conns : Execute(k, result, writes)
  <2>1. durable' = durable
    <3>1. CASE Calls = {}
      BY <1>0, <3>1 DEF TypeOK
    <3>2. ASSUME NEW c \in Calls PROVE durable' = durable
      BY <1>0, <1>3, OnlyExecuteWrites
    <3> QED
      BY <3>1, <3>2
  <2>2. CASE \E e \in Calls, m \in Modes : Reuse(e, m) \/ \E k \in Conns : Connect(e, m, k)
    <3>1. PICK e \in Calls, m \in Modes : Reuse(e, m) \/ \E k \in Conns : Connect(e, m, k)
      BY <2>2
    <3>2. /\ pc[e] = "idle" /\ \A d \in Calls : pc[d] \notin InFlight
          /\ pc'[e] \in InFlight /\ \A d \in Calls : d # e => pc'[d] = pc[d]
      BY <1>0, <3>1 DEF Reuse, Connect, MayCall, TypeOK, InFlight
    <3>3. \A d \in Calls : report[d] # "open"
      <4>1. \A c \in Calls : pc[c] \in {"idle", "ok", "handled"} \cup Failed
        BY <1>0, <3>2 DEF TypeOK, Outcome, Failed
      <4> QED
        BY <4>1 DEF Reported
    <3>4. report[e] = "none" /\ report' = [report EXCEPT ![e] = "open"]
      BY <1>1, <3>2 DEF Reported
    <3>5. Ledger!Open(e)
      BY <2>1, <3>3, <3>4 DEF Ledger!Open
    <3> QED
      BY <3>5 DEF Ledger!Next
  <2>3. CASE ~\E e \in Calls, m \in Modes : Reuse(e, m) \/ \E k \in Conns : Connect(e, m, k)
    <3>1. \A c \in Calls : pc'[c] = pc[c] \/ (pc[c] \in InFlight /\ pc'[c] # "idle")
      BY <1>0, <2>3, PcMoves
    <3>2. CASE \A c \in Calls : report'[c] = report[c]
      <4>1. report' = report
        BY <3>2 DEF Reported
      <4> QED
        BY <2>1, <4>1 DEF Ledger!ledger
    <3>3. ASSUME NEW c \in Calls, report'[c] # report[c] PROVE Ledger!Next
      <4>1. pc[c] \in InFlight /\ pc'[c] \in Outcome /\ report[c] = "open"
        BY <1>0, <1>1, <3>1, <3>3 DEF Reported, TypeOK
      <4>2. \A d \in Calls : d # c => report'[d] = report[d]
        BY <1>0, <1>1, <3>1, <4>1 DEF OneAtATime
      <4>3. c \notin durable
        BY <4>1, InFlightFacts
      <4>4. CASE pc'[c] \in {"ok", "handled"}
        <5>1. report' = [report EXCEPT ![c] = "done"]
          BY <4>2, <4>4 DEF Reported
        <5> QED
          BY <2>1, <4>1, <5>1 DEF Ledger!Done, Ledger!Next
      <4>5. CASE pc'[c] \in Failed
        <5>1. report' = [report EXCEPT ![c] = "failed"]
          BY <4>2, <4>5 DEF Reported
        <5> QED
          BY <2>1, <4>1, <4>3, <5>1 DEF Ledger!Fail, Ledger!Next
      <4> QED
        BY <4>1, <4>4, <4>5 DEF Outcome, Failed
    <3> QED
      BY <3>2, <3>3
  <2> QED
    BY <2>2, <2>3
<1> QED
  BY <1>2, <1>3

\* One call at a time and with the default options, the stub implements CallLedger:
\* what a caller is told and what the database keeps never contradict each other.
THEOREM StubImplementsLedger ==
  ASSUME Sequential, \A o \in Options : ~o.throwOnError
  PROVE  Spec => ImplementsLedger
<1>1. Init => SequentialInv
  BY InitSequentialInv
<1>2. SequentialInv /\ [Next]_vars => SequentialInv'
  BY NextSequentialInv
<1>3. SequentialInv /\ SequentialInv' /\ Reported /\ Reported' /\ [Next]_vars
      => [Ledger!Next]_(Ledger!ledger)
  BY StepLedger
<1> QED
  BY <1>1, <1>2, <1>3, InitLedger, Reports, PTL DEF Spec, ImplementsLedger, Ledger!Spec
=============================================================================
