----------------------- MODULE DriverConnectionProofs -----------------------
(***************************************************************************)
(* What the operators of DriverConnection return, keep and remove: the     *)
(* facts about one connection that the proofs about the stub rest on.      *)
(***************************************************************************)
EXTENDS DriverConnection, Naturals, TLAPS

-----------------------------------------------------------------------------
(* Endpoints stay endpoints and sessions sessions.                           *)

\* An endpoint stays one when a field is replaced by a value of its type.
LEMMA EndpointFields ==
  ASSUME NEW n \in Endpoint
  PROVE  /\ n.status \in Status /\ n.tx \in BOOLEAN
         /\ n.wire \in Seq(Command) /\ n.replies \in Seq(Reply) /\ n.undoers \subseteq Calls
         /\ \A w \in Seq(Command) : [n EXCEPT !.wire = w] \in Endpoint
         /\ \A r \in Seq(Reply) : [n EXCEPT !.replies = r] \in Endpoint
         /\ \A t \in BOOLEAN : [n EXCEPT !.tx = t] \in Endpoint
         /\ \A st \in Status : [n EXCEPT !.status = st] \in Endpoint
BY DEF Endpoint

\* A command appended to the wire leaves an endpoint (connection.js 1040-1053).
LEMMA AddCommandType ==
  ASSUME NEW n \in Endpoint, NEW op \in Op, NEW c \in Calls
  PROVE  addCommand(n, op, c) \in Endpoint
<1>1. [op |-> op, call |-> c] \in Command
  BY DEF Command
<1>2. Append(n.wire, [op |-> op, call |-> c]) \in Seq(Command)
  BY <1>1, EndpointFields
<1>3. n.undoers \subseteq Calls /\ n.undoers \cup {c} \subseteq Calls
  BY EndpointFields
<1> QED
  BY <1>2, <1>3 DEF addCommand, Endpoint

\* So does a COMMIT or ROLLBACK, written or not (connection.js 1200-1229).
LEMMA ChangeTransactionType ==
  ASSUME NEW n \in Endpoint, NEW op \in Op, NEW c \in Calls
  PROVE  changeTransaction(n, op, c) \in Endpoint
BY AddCommandType DEF changeTransaction

\* Ending, losing and reading a connection leave an endpoint.
LEMMA ClosingType ==
  ASSUME NEW n \in Endpoint
  PROVE  /\ end(n) \in Endpoint
         /\ fatalError(n) \in Endpoint
<1> USE DEF Endpoint
<1>1. "closed" \in Status /\ <<>> \in Seq(Command) /\ <<>> \in Seq(Reply)
  BY DEF Status
<1>2. end(n) \in Endpoint
  BY <1>1 DEF end
<1>3. fatalError(n) \in Endpoint
  BY <1>1 DEF fatalError
<1> QED
  BY <1>2, <1>3

\* Reading a reply leaves an endpoint.
LEMMA ReceivePacketType ==
  ASSUME NEW n \in Endpoint, n.replies # <<>>
  PROVE  /\ Head(n.replies) \in Reply
         /\ receivePacket(n) \in Endpoint
<1>1. Head(n.replies) \in Reply /\ Tail(n.replies) \in Seq(Reply)
  BY DEF Endpoint
<1>2. (IF Head(n.replies).result = "ok" THEN Head(n.replies).tx ELSE TRUE) \in BOOLEAN
  BY <1>1 DEF Reply
<1> QED
  BY <1>1, <1>2 DEF receivePacket, Endpoint

\* Executing the command at the head of the wire keeps both ends well formed.
LEMMA ExecuteType ==
  ASSUME NEW n \in Endpoint, n.wire # <<>>, NEW s \in Session,
         NEW result \in Result, NEW writes \in BOOLEAN
  PROVE  /\ Head(n.wire) \in Command
         /\ Executed(s, Head(n.wire), result, writes) \in Session
         /\ Persisted(s, Head(n.wire), writes) \subseteq Calls
         /\ \A tx \in BOOLEAN : Answered(n, result, tx) \in Endpoint
<1>1. Head(n.wire) \in Command /\ Tail(n.wire) \in Seq(Command)
  BY DEF Endpoint
<1>2. Executed(s, Head(n.wire), result, writes) \in Session
  <2>1. CASE Head(n.wire).op = "QUERY" /\ result # "deadlock"
    BY <1>1, <2>1 DEF Executed, Session, Command
  <2>2. CASE ~(Head(n.wire).op = "QUERY" /\ result # "deadlock")
    <3>1. (Head(n.wire).op = "BEGIN") \in BOOLEAN
      OBVIOUS
    <3> QED
      BY <2>2, <3>1 DEF Executed, Session
  <2> QED
    BY <2>1, <2>2
<1>3. Persisted(s, Head(n.wire), writes) \subseteq Calls
  BY <1>1 DEF Persisted, Session, Command
<1>4. ASSUME NEW tx \in BOOLEAN PROVE Answered(n, result, tx) \in Endpoint
  <2> DEFINE r == [op |-> Head(n.wire).op, call |-> Head(n.wire).call,
                   result |-> result, tx |-> tx]
  <2>1. r \in Reply
    BY <1>1 DEF Command, Reply
  <2>2. (IF isValid(n) THEN Append(n.replies, r) ELSE n.replies) \in Seq(Reply)
    BY <2>1 DEF Endpoint
  <2> QED
    BY <1>1, <2>2 DEF Answered, Endpoint
<1> QED
  BY <1>1, <1>2, <1>3, <1>4

\* A session that is over is a session.
LEMMA OverType ==
  ASSUME NEW s \in Session, NEW state \in SessionState
  PROVE  Over(s, state) \in Session
BY DEF Over, Session

-----------------------------------------------------------------------------
(* What is in the receiveQueue after each operation.                        *)

\* Writing a command adds that command at the end of the wire, and no other.
LEMMA AddCommandAsks ==
  ASSUME NEW n \in Endpoint, NEW op \in Op, NEW c \in Calls
  PROVE  LET a == addCommand(n, op, c) IN
         /\ a.status = n.status /\ a.tx = n.tx /\ a.replies = n.replies
         /\ a.wire = Append(n.wire, [op |-> op, call |-> c])
         /\ \A o, d : Asks(a, o, d) <=> Asks(n, o, d) \/ (o = op /\ d = c)
<1> DEFINE a == addCommand(n, op, c)
           m == [op |-> op, call |-> c]
<1>1. /\ a.status = n.status /\ a.tx = n.tx /\ a.replies = n.replies
      /\ a.wire = Append(n.wire, m) /\ n.wire \in Seq(Command)
  BY EndpointFields DEF addCommand, Endpoint
<1>2. /\ DOMAIN a.wire = 1..(Len(n.wire) + 1) /\ DOMAIN n.wire = 1..Len(n.wire)
      /\ Len(n.wire) \in Nat
      /\ \A i \in DOMAIN n.wire : a.wire[i] = n.wire[i]
      /\ a.wire[Len(n.wire) + 1] = m
  BY <1>1
<1>3. ASSUME NEW o, NEW d PROVE Asks(a, o, d) <=> Asks(n, o, d) \/ (o = op /\ d = c)
  <2>1. (\E i \in DOMAIN a.wire : a.wire[i].op = o /\ a.wire[i].call = d)
        <=> (\E i \in DOMAIN n.wire : n.wire[i].op = o /\ n.wire[i].call = d) \/ (o = op /\ d = c)
    BY <1>2
  <2> QED
    BY <1>1, <2>1 DEF Asks
<1> QED
  BY <1>1, <1>3

\* COMMIT and ROLLBACK add nothing but themselves.
LEMMA ChangeTransactionAsks ==
  ASSUME NEW n \in Endpoint, NEW op \in Op, NEW c \in Calls
  PROVE  LET a == changeTransaction(n, op, c) IN
         /\ a.status = n.status /\ a.tx = n.tx /\ a.replies = n.replies
         /\ \A o, d : Asks(n, o, d) => Asks(a, o, d)
         /\ \A o, d : Asks(a, o, d) => Asks(n, o, d) \/ (o = op /\ d = c)
BY AddCommandAsks DEF changeTransaction

\* Closing a connection adds nothing; losing it empties the queue.
LEMMA ClosingAsks ==
  ASSUME NEW n \in Endpoint
  PROVE  /\ end(n).status = "closed" /\ end(n).replies = <<>> /\ end(n).wire = n.wire
         /\ \A o, d : Asks(end(n), o, d) => Asks(n, o, d)
         /\ fatalError(n).status = "closed" /\ fatalError(n).replies = <<>>
         /\ fatalError(n).wire = <<>>
         /\ \A o, d : ~Asks(fatalError(n), o, d)
<1>1. /\ end(n).status = "closed" /\ end(n).replies = <<>> /\ end(n).wire = n.wire
      /\ fatalError(n).status = "closed" /\ fatalError(n).replies = <<>>
      /\ fatalError(n).wire = <<>>
  BY DEF end, fatalError, Endpoint
<1>2. DOMAIN <<>> = {}
  OBVIOUS
<1> QED
  BY <1>1, <1>2 DEF Asks

\* The tail of a sequence is the sequence shifted by one.
LEMMA TailFacts ==
  ASSUME NEW S, NEW q \in Seq(S), q # <<>>
  PROVE  /\ Len(q) \in Nat \ {0} /\ DOMAIN q = 1..Len(q) /\ Head(q) = q[1] /\ 1 \in DOMAIN q
         /\ Tail(q) \in Seq(S) /\ DOMAIN Tail(q) = 1..(Len(q) - 1)
         /\ \A i \in DOMAIN Tail(q) : i + 1 \in DOMAIN q /\ Tail(q)[i] = q[i + 1]
OBVIOUS

\* Reading a reply takes it out of the queue.
LEMMA ReceivePacketAsks ==
  ASSUME NEW n \in Endpoint, n.replies # <<>>
  PROVE  LET a == receivePacket(n) IN
         /\ a.status = n.status /\ a.wire = n.wire /\ a.replies = Tail(n.replies)
         /\ a.tx = (IF Head(n.replies).result = "ok" THEN Head(n.replies).tx ELSE TRUE)
         /\ \A o, d : Asks(a, o, d) => Asks(n, o, d)
         /\ Asks(n, Head(n.replies).op, Head(n.replies).call)
<1> DEFINE a == receivePacket(n)
<1>1. /\ a.status = n.status /\ a.wire = n.wire /\ a.replies = Tail(n.replies)
      /\ a.tx = (IF Head(n.replies).result = "ok" THEN Head(n.replies).tx ELSE TRUE)
  BY DEF receivePacket, Endpoint
<1>2. n.replies \in Seq(Reply)
  BY EndpointFields
<1>3. ASSUME NEW o, NEW d, Asks(a, o, d) PROVE Asks(n, o, d)
  BY <1>1, <1>2, <1>3, TailFacts DEF Asks
<1>4. Asks(n, Head(n.replies).op, Head(n.replies).call)
  BY <1>2, TailFacts DEF Asks
<1> QED
  BY <1>1, <1>3, <1>4

\* The server moves the head of the wire to the end of the replies, or drops
\* its answer if nobody reads.
LEMMA AnsweredAsks ==
  ASSUME NEW n \in Endpoint, n.wire # <<>>, NEW result \in Result, NEW tx \in BOOLEAN
  PROVE  LET a == Answered(n, result, tx)
             h == Head(n.wire)
             r == [op |-> h.op, call |-> h.call, result |-> result, tx |-> tx] IN
         /\ a.status = n.status /\ a.tx = n.tx /\ a.wire = Tail(n.wire)
         /\ isValid(n) => a.replies = Append(n.replies, r)
         /\ ~isValid(n) => a.replies = n.replies
         /\ Asks(n, h.op, h.call)
         /\ \A o, d : Asks(a, o, d) => Asks(n, o, d)
<1> DEFINE a == Answered(n, result, tx)
           h == Head(n.wire)
           r == [op |-> h.op, call |-> h.call, result |-> result, tx |-> tx]
<1>1. /\ a.status = n.status /\ a.tx = n.tx /\ a.wire = Tail(n.wire)
      /\ isValid(n) => a.replies = Append(n.replies, r)
      /\ ~isValid(n) => a.replies = n.replies
  BY DEF Answered, Endpoint
<1>2. n.wire \in Seq(Command) /\ n.replies \in Seq(Reply) /\ h \in Command /\ r \in Reply
  <2>1. n.wire \in Seq(Command) /\ n.replies \in Seq(Reply)
    BY EndpointFields
  <2>2. h \in Command
    BY <2>1
  <2> QED
    BY <2>1, <2>2 DEF Command, Reply
<1>3. Asks(n, h.op, h.call)
  BY <1>2, TailFacts DEF Asks
<1>4. ASSUME NEW o, NEW d, Asks(a, o, d) PROVE Asks(n, o, d)
  <2>1. CASE \E i \in DOMAIN a.wire : a.wire[i].op = o /\ a.wire[i].call = d
    BY <1>1, <1>2, <2>1, TailFacts DEF Asks
  <2>2. CASE \E i \in DOMAIN a.replies : a.replies[i].op = o /\ a.replies[i].call = d
    <3>1. PICK i \in DOMAIN a.replies : a.replies[i].op = o /\ a.replies[i].call = d
      BY <2>2
    <3>2. \/ i \in DOMAIN n.replies /\ a.replies[i] = n.replies[i]
          \/ a.replies[i] = r
      BY <1>1, <1>2, <3>1
    <3>3. CASE i \in DOMAIN n.replies /\ a.replies[i] = n.replies[i]
      BY <3>1, <3>3 DEF Asks
    <3>4. CASE a.replies[i] = r
      BY <1>3, <3>1, <3>4
    <3> QED
      BY <3>2, <3>3, <3>4
  <2> QED
    BY <1>4, <2>1, <2>2 DEF Asks
<1> QED
  BY <1>1, <1>3, <1>4

\* What is in the queue afterwards and was not written was there before.
LEMMA NothingElseAsked ==
  ASSUME NEW n \in Endpoint, NEW o, NEW d
  PROVE  /\ \A op \in Op, c \in Calls :
              (o # op \/ d # c) /\ Asks(addCommand(n, op, c), o, d) => Asks(n, o, d)
         /\ \A result \in Result, tx \in BOOLEAN :
              n.wire # <<>> =>
                /\ Answered(n, result, tx).status = n.status
                /\ Asks(Answered(n, result, tx), o, d) => Asks(n, o, d)
<1>1. ASSUME NEW op \in Op, NEW c \in Calls, o # op \/ d # c, Asks(addCommand(n, op, c), o, d)
      PROVE  Asks(n, o, d)
  BY <1>1, AddCommandAsks
<1>2. ASSUME NEW result \in Result, NEW tx \in BOOLEAN, n.wire # <<>>
      PROVE  /\ Answered(n, result, tx).status = n.status
             /\ Asks(Answered(n, result, tx), o, d) => Asks(n, o, d)
  BY <1>2, AnsweredAsks
<1> QED
  BY <1>1, <1>2

-----------------------------------------------------------------------------
(* A call keeps at most one step in the receiveQueue.                       *)

\* Writing the next step of a call that has none in flight keeps one per call.
LEMMA OnceAddCommand ==
  ASSUME NEW n \in Endpoint, Once(n), NEW op \in Op, NEW c \in Calls,
         op \in StepOp => ~Asks(n, "BEGIN", c) /\ ~Asks(n, "QUERY", c)
  PROVE  Once(addCommand(n, op, c))
<1> DEFINE a == addCommand(n, op, c)
           m == [op |-> op, call |-> c]
<1>1. a.replies = n.replies /\ a.wire = Append(n.wire, m) /\ n.wire \in Seq(Command)
  BY AddCommandAsks, EndpointFields
<1>2. /\ DOMAIN a.wire = 1..(Len(n.wire) + 1) /\ DOMAIN n.wire = 1..Len(n.wire)
      /\ Len(n.wire) \in Nat
      /\ \A i \in DOMAIN n.wire : a.wire[i] = n.wire[i]
      /\ a.wire[Len(n.wire) + 1] = m
  BY <1>1
<1>3. /\ \A i \in DOMAIN n.wire : ~SameStep(n.wire[i], m) /\ ~SameStep(m, n.wire[i])
      /\ \A i \in DOMAIN n.replies : ~SameStep(m, n.replies[i])
  BY DEF SameStep, Asks, StepOp
<1>4. \A i, j \in DOMAIN a.wire : i # j => ~SameStep(a.wire[i], a.wire[j])
  BY <1>2, <1>3 DEF Once
<1>5. \A i \in DOMAIN a.wire, j \in DOMAIN a.replies : ~SameStep(a.wire[i], a.replies[j])
  BY <1>1, <1>2, <1>3 DEF Once
<1> QED
  BY <1>1, <1>4, <1>5 DEF Once

\* COMMIT and ROLLBACK are no steps.
LEMMA OnceChangeTransaction ==
  ASSUME NEW n \in Endpoint, Once(n), NEW op \in {"COMMIT", "ROLLBACK"}, NEW c \in Calls
  PROVE  Once(changeTransaction(n, op, c))
BY OnceAddCommand DEF changeTransaction, StepOp, Op

\* Closing or losing a connection adds no step.
LEMMA OnceClosing ==
  ASSUME NEW n \in Endpoint, Once(n)
  PROVE  Once(end(n)) /\ Once(fatalError(n))
BY ClosingAsks DEF Once

\* Once its reply has been read, a call has no step left in the queue.
LEMMA OnceReceivePacket ==
  ASSUME NEW n \in Endpoint, Once(n), n.replies # <<>>
  PROVE  LET a == receivePacket(n)  r == Head(n.replies) IN
         /\ Once(a)
         /\ r.op \in StepOp => ~Asks(a, "BEGIN", r.call) /\ ~Asks(a, "QUERY", r.call)
<1> DEFINE a == receivePacket(n)
           r == Head(n.replies)
<1>1. a.wire = n.wire /\ a.replies = Tail(n.replies) /\ n.replies \in Seq(Reply)
  BY ReceivePacketAsks, EndpointFields
<1>2. /\ r = n.replies[1] /\ 1 \in DOMAIN n.replies
      /\ \A i \in DOMAIN a.replies :
           i \in Nat \ {0} /\ i + 1 \in DOMAIN n.replies /\ a.replies[i] = n.replies[i + 1]
  BY <1>1, TailFacts
<1>3. Once(a)
  BY <1>1, <1>2 DEF Once
<1>4. /\ \A i \in DOMAIN a.replies : ~SameStep(r, a.replies[i])
      /\ \A i \in DOMAIN a.wire : ~SameStep(a.wire[i], r)
  BY <1>1, <1>2 DEF Once
<1> QED
  BY <1>3, <1>4 DEF SameStep, Asks, StepOp

\* Moving a command from the wire to the replies keeps one step per call.
LEMMA OnceAnswered ==
  ASSUME NEW n \in Endpoint, Once(n), n.wire # <<>>, NEW result \in Result, NEW tx \in BOOLEAN
  PROVE  Once(Answered(n, result, tx))
<1> DEFINE a == Answered(n, result, tx)
           h == Head(n.wire)
           r == [op |-> h.op, call |-> h.call, result |-> result, tx |-> tx]
<1>1. /\ a.wire = Tail(n.wire) /\ n.wire \in Seq(Command) /\ n.replies \in Seq(Reply)
      /\ isValid(n) => a.replies = Append(n.replies, r)
      /\ ~isValid(n) => a.replies = n.replies
  BY AnsweredAsks, EndpointFields
<1>2. /\ h = n.wire[1] /\ 1 \in DOMAIN n.wire
      /\ \A i \in DOMAIN a.wire :
           i \in Nat \ {0} /\ i + 1 \in DOMAIN n.wire /\ a.wire[i] = n.wire[i + 1]
  BY <1>1, TailFacts
<1>3. /\ \A i \in DOMAIN a.wire : ~SameStep(a.wire[i], r)
      /\ \A i \in DOMAIN n.replies : ~SameStep(r, n.replies[i]) /\ ~SameStep(n.replies[i], r)
  BY <1>2 DEF Once, SameStep
<1>4. \A i, j \in DOMAIN a.wire : i # j => ~SameStep(a.wire[i], a.wire[j])
  BY <1>2 DEF Once
<1>5. \A i \in DOMAIN a.wire, j \in DOMAIN n.replies : ~SameStep(a.wire[i], n.replies[j])
  BY <1>2 DEF Once
<1>6. CASE ~isValid(n)
  BY <1>1, <1>4, <1>5, <1>6 DEF Once
<1>7. CASE isValid(n)
  <2>1. a.replies = Append(n.replies, r)
    BY <1>1, <1>7
  <2>2. /\ DOMAIN a.replies = 1..(Len(n.replies) + 1) /\ DOMAIN n.replies = 1..Len(n.replies)
        /\ Len(n.replies) \in Nat
        /\ \A i \in DOMAIN n.replies : a.replies[i] = n.replies[i]
        /\ a.replies[Len(n.replies) + 1] = r
    <3>1. h \in Command
      BY <1>1
    <3>2. r \in Reply
      BY <3>1 DEF Command, Reply
    <3> QED
      BY <1>1, <2>1, <3>2
  <2>3. \A i, j \in DOMAIN a.replies : i # j => ~SameStep(a.replies[i], a.replies[j])
    BY <1>3, <2>2 DEF Once
  <2>4. \A i \in DOMAIN a.wire, j \in DOMAIN a.replies : ~SameStep(a.wire[i], a.replies[j])
    BY <1>3, <1>5, <2>2
  <2> QED
    BY <1>4, <2>3, <2>4 DEF Once
<1> QED
  BY <1>6, <1>7

\* A change of status touches no queue.
LEMMA StatusAsks ==
  ASSUME NEW n \in Endpoint, NEW st \in Status
  PROVE  LET a == [n EXCEPT !.status = st] IN
         /\ a.status = st /\ a.tx = n.tx /\ a.wire = n.wire /\ a.replies = n.replies
         /\ \A o, d : Asks(a, o, d) <=> Asks(n, o, d)
         /\ Once(a) <=> Once(n)
<1> DEFINE a == [n EXCEPT !.status = st]
<1>1. a.status = st /\ a.tx = n.tx /\ a.wire = n.wire /\ a.replies = n.replies
  BY DEF Endpoint
<1> QED
  BY <1>1 DEF Asks, Once

\* No operation forgets who wrote a ROLLBACK to a connection.
LEMMA UndoersStay ==
  ASSUME NEW n \in Endpoint
  PROVE  /\ \A st : [n EXCEPT !.status = st].undoers = n.undoers
         /\ end(n).undoers = n.undoers
         /\ fatalError(n).undoers = n.undoers
         /\ receivePacket(n).undoers = n.undoers
         /\ \A result, tx : Answered(n, result, tx).undoers = n.undoers
         /\ \A op \in Op, c \in Calls :
              /\ n.undoers \subseteq addCommand(n, op, c).undoers
              /\ op = "ROLLBACK" => c \in addCommand(n, op, c).undoers
BY DEF Endpoint, end, fatalError, receivePacket, Answered, addCommand
=============================================================================
