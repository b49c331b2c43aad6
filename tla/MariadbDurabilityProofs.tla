---------------------- MODULE MariadbDurabilityProofs ----------------------
(***************************************************************************)
(* A stub loses no call it reported successful, for every number of calls, *)
(* connections and statements in flight, but to a deadlock on its          *)
(* connection or, with a pool, to another call's failure; and nothing of a *)
(* call that failed is saved unless another call used its connection or    *)
(* rolled it back.  Both also hold in an offline program, which ends the   *)
(* stub and exits whatever is in flight.                                   *)
(***************************************************************************)
EXTENDS MariadbStubProofs, Offline

-----------------------------------------------------------------------------
(* What one step does to one connection.                                    *)

\* A statement or a COMMIT is written to k by the continuation of its own call.
Issuer(op, d, k) ==
  /\ op = "QUERY" => Begun(d) /\ on[d] = k
  /\ op = "COMMIT" => Succeeds(d) /\ on[d] = k

\* The program's side writes at most one command to connection k, and reads
\* nothing.  It is a ROLLBACK only if k does not survive the step or, with a
\* pool, a call has failed.
Writes(k) ==
  /\ db'[k] = db[k]
  /\ conn[k].undoers \subseteq conn'[k].undoers
  /\ \/ conn'[k].wire = conn[k].wire
     \/ \E op \in Op, d \in Calls :
          Issuer(op, d, k) /\ conn'[k].wire = Append(conn[k].wire, [op |-> op, call |-> d])
  /\ isValid(conn'[k]) =>
       /\ isValid(conn[k])
       /\ \/ conn'[k] = conn[k]
          \/ \E op \in Op, d \in Calls :
               /\ op = "ROLLBACK" => opt'.pooled /\ pc'[d] = "swallowed"
               /\ conn'[k] = addCommand(conn[k], op, d)

\* What of k the program's side leaves alone.
LEMMA WritesKeeps ==
  ASSUME StageInv, NEW k \in Conns, Writes(k)
  PROVE  isValid(conn'[k]) => /\ isValid(conn[k])
                              /\ conn'[k].replies = conn[k].replies
                              /\ conn'[k].tx = conn[k].tx
<1>1. CASE conn'[k] = conn[k]
  BY <1>1
<1>2. ASSUME NEW op \in Op, NEW d \in Calls, isValid(conn[k]),
             conn'[k] = addCommand(conn[k], op, d)
      PROVE  conn'[k].replies = conn[k].replies /\ conn'[k].tx = conn[k].tx
  <2>1. conn[k] \in Endpoint
    BY DEF StageInv, TypeOK
  <2>2. /\ addCommand(conn[k], op, d).replies = conn[k].replies
        /\ addCommand(conn[k], op, d).tx = conn[k].tx
    BY <2>1, AddCommandAsks
  <2> QED
    BY <1>2, <2>2
<1> QED
  BY <1>1, <1>2 DEF Writes

\* end(), with or without the ROLLBACK of a failed call, only writes to k.
LEMMA WritesByEnding ==
  ASSUME StageInv, NEW n, EndStub(n), UNCHANGED db, NEW k \in Conns,
         \/ n = (IF stubValid THEN conn[stub] ELSE NewEndpoint)
         \/ \E c \in Calls : n = Undo(c) /\ opt' = opt /\ pc'[c] = "swallowed"
  PROVE  Writes(k)
<1> USE DEF StageInv
<1>1. CASE ~stubValid
  BY <1>1 DEF EndStub, Writes
<1>2. ASSUME stubValid, opt.pooled, pool # "none" PROVE Writes(k)
  <2>1. stub \in Conns /\ conn[stub] \in Endpoint /\ conn' = [conn EXCEPT ![stub] = n]
    BY <1>2 DEF stubValid, TypeOK, EndStub
  <2>2. CASE k # stub
    BY <2>1, <2>2 DEF Writes, TypeOK
  <2>3. CASE k = stub
    <3>1. \/ n = conn[stub]
          \/ \E c \in Calls : /\ n = addCommand(conn[stub], "ROLLBACK", c)
                             /\ opt'.pooled /\ pc'[c] = "swallowed"
      BY <1>2 DEF Undo, changeTransaction
    <3>2. "ROLLBACK" \in Op /\ isValid(conn[stub])
      BY <1>2 DEF Op, stubValid
    <3>3. \/ n.wire = conn[stub].wire
          \/ \E c \in Calls : n.wire = Append(conn[stub].wire, [op |-> "ROLLBACK", call |-> c])
      BY <2>1, <3>1, <3>2, AddCommandAsks
    <3>4. conn'[k] = n
      BY <2>1, <2>3 DEF TypeOK
    <3>5. conn[stub].undoers \subseteq n.undoers
      BY <2>1, <3>1, <3>2, UndoersStay
    <3> QED
      BY <2>3, <3>1, <3>2, <3>3, <3>4, <3>5 DEF Writes, Issuer
  <2> QED
    BY <2>2, <2>3
<1>3. ASSUME stubValid, ~(opt.pooled /\ pool # "none") PROVE Writes(k)
  <2>1. stub \in Conns /\ conn[stub] \in Endpoint /\ conn' = [conn EXCEPT ![stub] = end(n)]
    BY <1>3 DEF stubValid, TypeOK, EndStub
  <2>2. CASE k # stub
    BY <2>1, <2>2 DEF Writes, TypeOK
  <2>3. CASE k = stub
    <3>1. \/ n = conn[stub]
          \/ \E c \in Calls : n = addCommand(conn[stub], "ROLLBACK", c)
      BY <1>3 DEF Undo, changeTransaction
    <3>2. "ROLLBACK" \in Op
      BY DEF Op
    <3>3. \/ n.wire = conn[stub].wire
          \/ \E c \in Calls : n.wire = Append(conn[stub].wire, [op |-> "ROLLBACK", call |-> c])
      BY <2>1, <3>1, <3>2, AddCommandAsks
    <3>4. n \in Endpoint
      BY <2>1, <3>1, <3>2, AddCommandType
    <3>5. conn'[k].status = "closed" /\ conn'[k].wire = n.wire
      BY <2>1, <2>3, <3>4, ClosingAsks DEF TypeOK
    <3>6. conn[stub].undoers \subseteq n.undoers
      BY <2>1, <3>1, <3>2, UndoersStay
    <3>7. conn[k].undoers \subseteq conn'[k].undoers
      BY <2>1, <2>3, <3>4, <3>6, UndoersStay DEF TypeOK
    <3> QED
      BY <2>3, <3>2, <3>3, <3>5, <3>7 DEF Writes, Issuer, isValid
  <2> QED
    BY <2>2, <2>3
<1> QED
  BY <1>1, <1>2, <1>3

\* A connection attempt that starts or fails writes nothing.
LEMMA WritesByStatus ==
  ASSUME StageInv, NEW j \in Conns, NEW st \in Status, st # "up", UNCHANGED db, NEW k \in Conns,
         conn' = [conn EXCEPT ![j] = [conn[j] EXCEPT !.status = st]]
  PROVE  Writes(k)
BY StatusQueues, UndoersStay DEF StageInv, TypeOK, Writes, isValid

\* A call that issues a command on a live connection writes that command.
LEMMA WritesByCommand ==
  ASSUME StageInv, UNCHANGED db, NEW k \in Conns, NEW op \in Op \ {"ROLLBACK"},
         NEW c \in Calls, isValid(conn[on[c]]) \/ on[c] \notin Conns, Issuer(op, c, on[c]),
         conn' = [conn EXCEPT ![on[c]] = addCommand(conn[on[c]], op, c)]
  PROVE  Writes(k)
<1>1. CASE k = on[c]
  <2>1. conn'[k] = addCommand(conn[k], op, c) /\ conn[k] \in Endpoint /\ isValid(conn[k])
    BY <1>1 DEF StageInv, TypeOK
  <2> QED
    BY <2>1, AddCommandAsks, UndoersStay DEF Writes
<1>2. CASE k # on[c]
  BY <1>2 DEF StageInv, TypeOK, Writes
<1> QED
  BY <1>1, <1>2

\* Every step either only writes to k or is one of the named steps of k.
LEMMA ConnSteps ==
  ASSUME StageInv, [Next]_vars, NEW k \in Conns
  PROVE  \/ Writes(k)
         \/ \E c \in Calls : Connected(c) /\ on[c] = k
         \/ Deliver(k)
         \/ SocketError(k)
         \/ \E result \in Result, writes \in BOOLEAN : Execute(k, result, writes)
         \/ SessionEnds(k)
         \/ Drop(k)
<1> USE DEF StageInv, stubVars
<1>0. {"BEGIN", "QUERY", "COMMIT"} \subseteq Op \ {"ROLLBACK"}
      /\ {"connecting", "closed"} \subseteq Status
  BY DEF Op, Status
<1>1. ASSUME conn'[k] = conn[k], db'[k] = db[k] PROVE Writes(k)
  BY <1>1 DEF Writes
<1>2. ASSUME NEW c \in Calls, NEW m \in Modes, NEW j \in Conns, Connect(c, m, j) PROVE Writes(k)
  BY <1>0, <1>2, WritesByStatus DEF Connect
<1>3. ASSUME NEW c \in Calls, Connected(c), on[c] # k PROVE Writes(k)
  BY <1>1, <1>3 DEF Connected, TypeOK
<1>4. ASSUME NEW c \in Calls, ConnectFails(c) PROVE Writes(k)
  <2>1. on[c] \in Conns
    BY <1>4 DEF ConnectFails, Quiet, Idle, Attached
  <2> QED
    BY <1>0, <1>4, <2>1, WritesByStatus DEF ConnectFails
<1>5. ASSUME NEW c \in Calls, NEW op \in {"BEGIN", "QUERY"}, NEW next, Issue(c, op, next), UNCHANGED db,
             op = "QUERY" => Begun(c)
      PROVE  Writes(k)
  <2>0. Issuer(op, c, on[c])
    BY <1>5 DEF Issuer
  <2>1. CASE isValid(conn[on[c]])
    BY <1>0, <2>0, <1>5, <2>1, WritesByCommand DEF Issue
  <2>2. CASE ~isValid(conn[on[c]])
    BY <1>1, <1>5, <2>2 DEF Issue
  <2> QED
    BY <2>1, <2>2
<1>6. ASSUME NEW c \in Calls, Check(c) \/ Begun(c) PROVE Writes(k)
  <2>1. UNCHANGED db /\ \/ UNCHANGED conn
                        \/ Issue(c, "BEGIN", "beginning")
                        \/ Issue(c, "QUERY", "querying") /\ Begun(c)
    BY <1>6 DEF Check, Begun
  <2> QED
    BY <1>1, <1>5, <2>1
<1>7. ASSUME NEW c \in Calls, Succeeds(c) PROVE Writes(k)
  <2>1. CASE isValid(conn[on[c]])
    <3>1. UNCHANGED db /\ conn' = [conn EXCEPT ![on[c]] = changeTransaction(conn[on[c]], "COMMIT", c)]
      BY <1>7, <2>1 DEF Succeeds
    <3>2. CASE changeTransaction(conn[on[c]], "COMMIT", c) = addCommand(conn[on[c]], "COMMIT", c)
      BY <1>0, <1>7, <2>1, <3>1, <3>2, WritesByCommand DEF Issuer
    <3>3. CASE changeTransaction(conn[on[c]], "COMMIT", c) = conn[on[c]]
      BY <1>1, <3>1, <3>3 DEF TypeOK
    <3> QED
      BY <3>2, <3>3 DEF changeTransaction
  <2>2. CASE ~isValid(conn[on[c]])
    BY <1>1, <1>7, <2>2 DEF Succeeds
  <2> QED
    BY <2>1, <2>2
<1>8. ASSUME NEW c \in Calls, _handleError(c) PROVE Writes(k)
  <2>1. UNCHANGED <<db, opt>>
    BY <1>8 DEF _handleError
  <2>2. ASSUME ~UNCHANGED conn PROVE EndStub(Undo(c)) /\ pc'[c] = "swallowed"
    BY <1>8, <2>2 DEF _handleError, TypeOK
  <2>3. CASE UNCHANGED conn
    BY <1>1, <2>1, <2>3
  <2>4. CASE ~UNCHANGED conn
    BY <2>1, <2>2, <2>4, WritesByEnding
  <2> QED
    BY <2>3, <2>4
<1>9. ASSUME End PROVE Writes(k)
  BY <1>9, WritesByEnding DEF End
<1>10. ASSUME NEW j \in Conns, j # k,
              \/ Deliver(j) \/ SocketError(j) \/ SessionEnds(j) \/ Drop(j)
              \/ \E result \in Result, writes \in BOOLEAN : Execute(j, result, writes)
       PROVE  Writes(k)
  <2>1. conn'[k] = conn[k]
    BY <1>10 DEF Deliver, SocketError, SessionEnds, Drop, Execute, TypeOK
  <2>2. db'[k] = db[k]
    BY <1>10 DEF Deliver, SocketError, SessionEnds, Drop, Execute, TypeOK
  <2> QED
    BY <1>1, <2>1, <2>2
<1>11. ASSUME UNCHANGED <<conn, db>> PROVE Writes(k)
  BY <1>1, <1>11
<1>12. ASSUME NEW c \in Calls, NEW m \in Modes, Reuse(c, m) PROVE Writes(k)
  BY <1>11, <1>12 DEF Reuse
<1>13. ASSUME PoolEnded \/ UNCHANGED vars \/ \E c \in Calls : Handled(c) \/ HandledLater(c)
       PROVE  Writes(k)
  BY <1>11, <1>13 DEF Handled, HandledLater, PoolEnded, vars
<1> QED
  BY <1>2, <1>3, <1>4, <1>6, <1>7, <1>8, <1>9, <1>10, <1>12, <1>13 DEF Next, Calling, Continue

\* A connection just made has no command and a new session.
LEMMA FreshConnection ==
  ASSUME StageInv, NEW c \in Calls, Connected(c)
  PROVE  LET k == on[c] IN
         /\ k \in Conns /\ conn[k].status = "connecting" /\ db[k] = NewSession
         /\ conn'[k].wire = <<>> /\ conn'[k].replies = <<>>
         /\ db'[k].state = "open" /\ ~db'[k].tx /\ db'[k].pending = {}
<1> DEFINE k == on[c]
<1>1. proc = "running" /\ pc[c] = "connecting"
  BY DEF Connected, Quiet, Idle
<1>2. k \in Conns /\ conn[k].status = "connecting"
  BY <1>1 DEF StageInv, Attached
<1>3. ~Busy(conn[k]) /\ db[k] = NewSession
  BY <1>2 DEF StageInv, Attached
<1>4. /\ conn' = [conn EXCEPT ![k] = [conn[k] EXCEPT !.status = "up"]]
      /\ db' = [db EXCEPT ![k] = [db[k] EXCEPT !.state = "open"]]
  BY DEF Connected
<1>5. conn'[k].wire = <<>> /\ conn'[k].replies = <<>>
  BY <1>2, <1>3, <1>4, StatusQueues DEF StageInv, Status, Busy
<1>6. db'[k] = [NewSession EXCEPT !.state = "open"]
  BY <1>2, <1>3, <1>4 DEF StageInv, TypeOK
<1> QED
  BY <1>2, <1>3, <1>5, <1>6 DEF NewSession

\* What executing a command does to a session, when deadlocks are excluded.
LEMMA SessionSteps ==
  ASSUME NEW s \in Session, ~s.tx => s.pending = {}, NEW cmd \in Command,
         NEW result \in Result, NEW writes \in BOOLEAN
  PROVE  LET t == Executed(s, cmd, result, writes) IN
         /\ t.state = s.state
         /\ ~t.tx => t.pending = {}
         /\ \A c \in s.pending :
              cmd.op # "ROLLBACK" /\ result # "deadlock" =>
                c \in t.pending \/ c \in Persisted(s, cmd, writes)
         /\ cmd.op \in {"BEGIN", "COMMIT"} => s.pending \subseteq Persisted(s, cmd, writes)
         /\ cmd.op = "QUERY" /\ writes /\ result # "deadlock" =>
              cmd.call \in t.pending \/ cmd.call \in Persisted(s, cmd, writes)
<1>1. CASE cmd.op = "QUERY" /\ result # "deadlock"
  <2>1. Executed(s, cmd, result, writes)
          = [s EXCEPT !.pending = IF writes /\ s.tx THEN s.pending \cup {cmd.call} ELSE s.pending]
    BY <1>1 DEF Executed
  <2> QED
    BY <1>1, <2>1 DEF Persisted, Session
<1>2. CASE ~(cmd.op = "QUERY" /\ result # "deadlock")
  <2>1. Executed(s, cmd, result, writes) = [s EXCEPT !.tx = (cmd.op = "BEGIN"), !.pending = {}]
    BY <1>2 DEF Executed
  <2> QED
    BY <1>2, <2>1 DEF Persisted, Session, Command, Op
<1> QED
  BY <1>1, <1>2

-----------------------------------------------------------------------------
(* The driver's view of the transaction.                                    *)

\* Every step keeps the driver from taking an open transaction for a closed one.
LEMMA NextTxMirrored ==
  ASSUME StageInv, TxMirrored, [Next]_vars
  PROVE  TxMirrored'
<1> SUFFICES ASSUME NEW k \in Conns
             PROVE  /\ ~db'[k].tx => db'[k].pending = {}
                    /\ isValid(conn'[k]) /\ db'[k].state = "open" =>
                         LET r == conn'[k].replies IN
                           IF r = <<>> THEN ~conn'[k].tx => ~db'[k].tx
                                       ELSE r[Len(r)].result = "ok" => r[Len(r)].tx = db'[k].tx
  BY DEF TxMirrored
<1>0. /\ conn[k] \in Endpoint /\ db[k] \in Session /\ conn[k].replies \in Seq(Reply)
      /\ ~db[k].tx => db[k].pending = {}
  BY EndpointFields DEF StageInv, TypeOK, TxMirrored
<1>1. CASE Writes(k)
  <2>1. db'[k] = db[k]
    BY <1>1 DEF Writes
  <2>2. isValid(conn'[k]) => /\ isValid(conn[k])
                             /\ conn'[k].replies = conn[k].replies
                             /\ conn'[k].tx = conn[k].tx
    BY <1>1, WritesKeeps
  <2> QED
    BY <1>0, <2>1, <2>2 DEF TxMirrored
<1>2. ASSUME NEW c \in Calls, Connected(c), on[c] = k
      PROVE  /\ conn'[k].replies = <<>> /\ ~db'[k].tx /\ db'[k].pending = {}
  BY <1>2, FreshConnection
<1>3. CASE Deliver(k)
  <2> DEFINE r == conn[k].replies
  <2>1. /\ conn'[k] = receivePacket(conn[k]) /\ isValid(conn[k]) /\ r # <<>>
        /\ db'[k] = db[k]
    BY <1>3 DEF Deliver, StageInv, TypeOK
  <2>2. /\ conn'[k].replies = Tail(r)
        /\ conn'[k].tx = (IF Head(r).result = "ok" THEN Head(r).tx ELSE TRUE)
    BY <1>0, <2>1, ReceivePacketAsks
  <2>3. ASSUME db[k].state = "open" PROVE r[Len(r)].result = "ok" => r[Len(r)].tx = db[k].tx
    BY <2>1, <2>3 DEF TxMirrored
  <2>4. CASE Tail(r) = <<>>
    <3>1. Len(r) = 1 /\ Head(r) = r[1]
      <4>1. Len(Tail(r)) = Len(r) - 1 /\ Len(r) \in Nat /\ Head(r) = r[1]
        <5>1. \A q \in Seq(Reply) :
                q # <<>> => Len(Tail(q)) = Len(q) - 1 /\ Len(q) \in Nat /\ Head(q) = q[1]
          OBVIOUS
        <5> QED
          BY <1>0, <2>1, <5>1
      <4>2. Len(Tail(r)) = 0
        <5>1. Len(<<>>) = 0
          OBVIOUS
        <5> QED
          BY <2>4, <5>1, Zenon
      <4> QED
        BY <4>1, <4>2
    <3> QED
      BY <1>0, <2>1, <2>2, <2>3, <2>4, <3>1
  <2>5. CASE Tail(r) # <<>>
    <3>1. Tail(r)[Len(Tail(r))] = r[Len(r)]
      BY <1>0, <2>1, <2>5
    <3> QED
      BY <1>0, <2>1, <2>2, <2>3, <2>5, <3>1
  <2> QED
    BY <2>4, <2>5
<1>4. CASE SocketError(k)
  <2>1. conn'[k] = fatalError(conn[k]) /\ db'[k] = db[k]
    BY <1>4 DEF SocketError, StageInv, TypeOK
  <2>2. ~isValid(conn'[k])
    BY <1>0, <2>1, ClosingAsks DEF isValid
  <2> QED
    BY <1>0, <2>1, <2>2
<1>5. ASSUME NEW result \in Result, NEW writes \in BOOLEAN, Execute(k, result, writes)
      PROVE  /\ ~db'[k].tx => db'[k].pending = {}
             /\ isValid(conn'[k]) =>
                  \E q \in Seq(Reply), m \in Reply : conn'[k].replies = Append(q, m) /\ m.tx = db'[k].tx
  <2> DEFINE h == Head(conn[k].wire)
             s == Executed(db[k], h, result, writes)
             m == [op |-> h.op, call |-> h.call, result |-> result, tx |-> s.tx]
  <2>1. conn'[k] = Answered(conn[k], result, s.tx) /\ conn[k].wire # <<>> /\ db'[k] = s
    BY <1>5 DEF Execute, StageInv, TypeOK
  <2>2. h \in Command /\ s \in Session
    BY <1>0, <2>1, ExecuteType
  <2>3. s.tx \in BOOLEAN /\ (~s.tx => s.pending = {})
    BY <1>0, <2>2, SessionSteps DEF Session
  <2> HIDE DEF s, h
  <2>4. m \in Reply /\ m.tx = s.tx
    BY <2>2, <2>3 DEF Command, Reply
  <2>5. /\ conn'[k].status = conn[k].status
        /\ isValid(conn[k]) => conn'[k].replies = Append(conn[k].replies, m)
    <3>1. /\ Answered(conn[k], result, s.tx).status = conn[k].status
          /\ isValid(conn[k]) => Answered(conn[k], result, s.tx).replies = Append(conn[k].replies, m)
      BY <1>0, <2>1, <2>3, AnsweredAsks DEF h
    <3> QED
      BY <2>1, <3>1
  <2> QED
    BY <1>0, <2>1, <2>3, <2>4, <2>5 DEF isValid
<1>6. CASE SessionEnds(k) \/ Drop(k)
  <2>1. \E st \in {"ended", "dropped"} : db'[k] = Over(db[k], st)
    BY <1>6 DEF SessionEnds, Drop, StageInv, TypeOK
  <2>2. \A st : Over(db[k], st).pending = {} /\ Over(db[k], st).state = st
    BY <1>0 DEF Over, Session
  <2> QED
    BY <2>1, <2>2
<1>7. ASSUME NEW result \in Result, NEW writes \in BOOLEAN, Execute(k, result, writes),
             isValid(conn'[k])
      PROVE  LET r == conn'[k].replies IN r # <<>> /\ r[Len(r)].tx = db'[k].tx
  <2>1. PICK q \in Seq(Reply), m \in Reply : conn'[k].replies = Append(q, m) /\ m.tx = db'[k].tx
    BY <1>5, <1>7
  <2>2. Append(q, m) # <<>> /\ Append(q, m)[Len(Append(q, m))] = m
    OBVIOUS
  <2> QED
    BY <2>1, <2>2
<1> QED
  BY <1>1, <1>2, <1>3, <1>4, <1>5, <1>6, <1>7, ConnSteps

-----------------------------------------------------------------------------
(* What was written stays written.                                          *)

\* Nothing durable is forgotten, the stub keeps its options, and a process
\* that has ended does not come back.
LEMMA DurableGrows ==
  ASSUME [Next]_vars
  PROVE  durable \subseteq durable' /\ opt' = opt /\ (proc' = "running" => proc = "running")
<1> USE DEF stubVars
<1> DEFINE Good == /\ durable \subseteq durable' /\ opt' = opt
                   /\ proc' \in {proc, "exited", "crashed"}
<1>1. ASSUME NEW c \in Calls, NEW m \in Modes, Reuse(c, m) \/ \E k \in Conns : Connect(c, m, k)
      PROVE  Good
  BY <1>1 DEF Reuse, Connect
<1>2. ASSUME NEW c \in Calls, Connected(c) \/ ConnectFails(c)
      PROVE  Good
  BY <1>2 DEF Connected, ConnectFails
<1>3. ASSUME NEW c \in Calls, Check(c) \/ Begun(c)
      PROVE  Good
  BY <1>3 DEF Check, Begun
<1>4. ASSUME NEW c \in Calls, Handled(c) \/ HandledLater(c)
      PROVE  Good
  BY <1>4 DEF Handled, HandledLater
<1>5. ASSUME NEW c \in Calls, Succeeds(c) \/ _handleError(c)
      PROVE  Good
  BY <1>5 DEF Succeeds, _handleError
<1>6. ASSUME End \/ PoolEnded
      PROVE  Good
  BY <1>6 DEF End, PoolEnded
<1>7. ASSUME NEW k \in Conns, Deliver(k) \/ SocketError(k)
      PROVE  Good
  BY <1>7 DEF Deliver, SocketError
<1>8. ASSUME NEW k \in Conns, NEW result \in Result, NEW writes \in BOOLEAN, Execute(k, result, writes)
      PROVE  Good
  BY <1>8 DEF Execute
<1>9. ASSUME NEW k \in Conns, SessionEnds(k) \/ Drop(k)
      PROVE  Good
  BY <1>9 DEF SessionEnds, Drop
<1>10. ASSUME UNCHANGED vars
       PROVE  Good
  BY <1>10 DEF vars
<1>11. Good
  BY <1>1, <1>2, <1>3, <1>4, <1>5, <1>6, <1>7, <1>8, <1>9, <1>10
  DEF Next, Calling, Continue
<1> QED
  BY <1>11

\* A failed call stays failed, and of what.  A call that waits for its
\* statement goes on waiting until it gets the reply or its connection is lost.
Failed == {"erring", "swallowed", "rejected"}

LEMMA FailedSteps ==
  ASSUME StageInv, [Next]_vars, NEW d \in Calls
  PROVE  /\ pc[d] \in Failed => on'[d] = on[d] /\ fault'[d] = fault[d] /\ pc'[d] \in Failed
         /\ pc[d] = "swallowed" => pc'[d] = "swallowed"
         /\ pc[d] = "querying" =>
              /\ on'[d] = on[d]
              /\ \/ pc'[d] = "querying"
                 \/ \E k \in Conns :
                      /\ Deliver(k) /\ on[d] = k
                      /\ LET r == Head(conn[k].replies) IN
                           /\ r.op = "QUERY" /\ r.call = d
                           /\ r.result = "deadlock" => pc'[d] = "erring" /\ fault'[d] = "deadlock"
                 \/ SocketError(on[d]) /\ on[d] \in Conns
<1> USE DEF StageInv, stubVars, Failed
<1> DEFINE Good == /\ pc[d] \in Failed => on'[d] = on[d] /\ fault'[d] = fault[d] /\ pc'[d] \in Failed
                   /\ pc[d] = "swallowed" => pc'[d] = "swallowed"
                   /\ pc[d] = "querying" => on'[d] = on[d]
           Waits == pc[d] = "querying" => pc'[d] = "querying"
           Reads(k) == /\ on[d] = k
                       /\ LET r == Head(conn[k].replies) IN
                            /\ r.op = "QUERY" /\ r.call = d
                            /\ r.result = "deadlock" => pc'[d] = "erring" /\ fault'[d] = "deadlock"
<1>1. ASSUME NEW c \in Calls, NEW m \in Modes, Reuse(c, m) \/ \E k \in Conns : Connect(c, m, k)
      PROVE  Good /\ Waits
  BY <1>1 DEF Reuse, Connect, MayCall, TypeOK
<1>2. ASSUME NEW c \in Calls, NEW st, pc' = [pc EXCEPT ![c] = st], UNCHANGED on,
             UNCHANGED fault \/ (pc[c] # "erring" /\ \E f : fault' = [fault EXCEPT ![c] = f]),
             pc[c] \notin {"swallowed", "rejected", "querying"},
             pc[c] = "erring" => st \in Failed
      PROVE  Good /\ Waits
  BY <1>2 DEF TypeOK
<1>3. ASSUME UNCHANGED <<pc, on, fault>> PROVE Good /\ Waits
  BY <1>3
<1>4. ASSUME NEW c \in Calls, Connected(c) \/ ConnectFails(c) PROVE Good /\ Waits
  <2>1. UNCHANGED <<on, fault>> /\ pc[c] = "connecting"
        /\ (UNCHANGED pc \/ \E st \in {"checking", "rejected"} : pc' = [pc EXCEPT ![c] = st])
    BY <1>4 DEF Connected, ConnectFails
  <2> QED
    BY <1>2, <1>3, <2>1
<1>5. ASSUME NEW c \in Calls, Check(c) \/ Begun(c) PROVE Good /\ Waits
  <2>1. UNCHANGED on /\ pc[c] \in {"checking", "begun"}
        /\ (UNCHANGED fault \/ \E f : fault' = [fault EXCEPT ![c] = f])
        /\ (UNCHANGED <<pc, fault>> \/ \E st : pc' = [pc EXCEPT ![c] = st])
    BY <1>5 DEF Check, Begun, Resumes, Issue, Fails
  <2> QED
    BY <1>2, <1>3, <2>1
<1>6. ASSUME NEW c \in Calls, Handled(c) \/ HandledLater(c) \/ Succeeds(c) PROVE Good /\ Waits
  <2>1. UNCHANGED on /\ pc[c] \in {"answered", "handling"}
        /\ (UNCHANGED fault \/ \E f : fault' = [fault EXCEPT ![c] = f])
        /\ \E st : pc' = [pc EXCEPT ![c] = st]
    BY <1>6 DEF Handled, HandledLater, HandlerSettles, Resumes, Fails, Succeeds
  <2> QED
    BY <1>2, <2>1
<1>7. ASSUME NEW c \in Calls, _handleError(c) PROVE Good /\ Waits
  <2>1. UNCHANGED <<on, fault>> /\ pc[c] = "erring"
        /\ \E st \in {"rejected", "swallowed"} : pc' = [pc EXCEPT ![c] = st]
    BY <1>7 DEF _handleError, Resumes
  <2> QED
    BY <1>2, <2>1
<1>8. ASSUME NEW k \in Conns, Deliver(k) PROVE Good /\ (Waits \/ Reads(k))
  <2> DEFINE r == Head(conn[k].replies)
  <2>1. /\ UNCHANGED on
        /\ \/ UNCHANGED <<pc, fault>>
           \/ r.op = "BEGIN" /\ pc' = [pc EXCEPT ![r.call] = "begun"] /\ UNCHANGED fault
           \/ /\ r.op = "QUERY" /\ r.result = "ok"
              /\ pc' = [pc EXCEPT ![r.call] = "answered"] /\ UNCHANGED fault
           \/ /\ r.op = "QUERY"
              /\ pc' = [pc EXCEPT ![r.call] = "erring"] /\ fault' = [fault EXCEPT ![r.call] = r.result]
    BY <1>8 DEF Deliver, Fails
  <2>2. r \in Reply /\ Asks(conn[k], r.op, r.call)
    BY <1>8, ReceivePacketType, ReceivePacketAsks DEF Deliver, TypeOK
  <2>3. /\ r.call \in Calls
        /\ r.op = "BEGIN" => pc[r.call] = "beginning"
        /\ r.op = "QUERY" => on[r.call] = k /\ pc[r.call] = "querying"
    BY <2>2 DEF Staged, Reply
  <2> HIDE DEF r
  <2>4. Good
    BY <2>1, <2>3 DEF TypeOK
  <2>5. CASE r.op = "QUERY" /\ r.call = d
    BY <2>1, <2>3, <2>4, <2>5 DEF TypeOK, r
  <2>6. CASE ~(r.op = "QUERY" /\ r.call = d)
    BY <2>1, <2>3, <2>4, <2>6 DEF TypeOK
  <2> QED
    BY <2>4, <2>5, <2>6
<1>9. ASSUME NEW k \in Conns, SocketError(k) PROVE Good /\ (Waits \/ on[d] = k)
  BY <1>9 DEF SocketError, Waiting, TypeOK
<1>10. \/ Good /\ Waits
       \/ \E k \in Conns : Deliver(k) /\ Good /\ Reads(k)
       \/ \E k \in Conns : SocketError(k) /\ Good /\ on[d] = k
  <2> HIDE DEF Good, Waits, Reads
  <2> QED
    BY <1>1, <1>3, <1>4, <1>5, <1>6, <1>7, <1>8, <1>9
    DEF Next, Calling, Continue, End, PoolEnded, Execute, SessionEnds, Drop, vars
<1> QED
  BY <1>10

\* A call that has undone others on a connection has done so for good.
LEMMA UndidStays ==
  ASSUME StageInv, [Next]_vars, NEW k \in Conns
  PROVE  /\ \A d \in Calls : Undid(d, k) => Undid(d, k)'
         /\ UndoneOn(k) => UndoneOn(k)'
<1>0. conn[k] \in Endpoint
  BY DEF StageInv, TypeOK
<1>1. conn[k].undoers \subseteq conn'[k].undoers
  <2>1. CASE Writes(k)
    BY <2>1 DEF Writes
  <2>2. ASSUME NEW c \in Calls, Connected(c), on[c] = k PROVE conn'[k].undoers = conn[k].undoers
    BY <1>0, <2>2 DEF Connected, StageInv, TypeOK, Endpoint
  <2>3. CASE Deliver(k)
    BY <1>0, <2>3, UndoersStay DEF Deliver, StageInv, TypeOK
  <2>4. CASE SocketError(k)
    BY <1>0, <2>4, UndoersStay DEF SocketError, StageInv, TypeOK
  <2>5. ASSUME NEW result \in Result, NEW writes \in BOOLEAN, Execute(k, result, writes)
        PROVE  conn'[k].undoers = conn[k].undoers
    <3>1. \E tx : conn'[k] = Answered(conn[k], result, tx)
      BY <2>5 DEF Execute, StageInv, TypeOK
    <3> QED
      BY <1>0, <3>1, UndoersStay
  <2>6. CASE SessionEnds(k) \/ Drop(k)
    BY <2>6 DEF SessionEnds, Drop
  <2> QED
    BY <2>1, <2>2, <2>3, <2>4, <2>5, <2>6, ConnSteps
<1>2. \A d \in Calls : Undid(d, k) => Undid(d, k)'
  BY <1>1, FailedSteps, DurableGrows DEF Undid
<1> QED
  BY <1>2 DEF UndoneOn

\* A ROLLBACK on a connection that stays open is that of a failed call, with a
\* pool.
LEMMA NextUndoersKnown ==
  ASSUME StageInv, UndoersKnown, [Next]_vars
  PROVE  UndoersKnown'
<1> SUFFICES ASSUME NEW k \in Conns, isValid(conn'[k]), NEW c \in Calls, Asks(conn'[k], "ROLLBACK", c)
             PROVE  Undid(c, k)'
  BY DEF UndoersKnown
<1>0. conn[k] \in Endpoint
  BY DEF StageInv, TypeOK
<1>7. isValid(conn[k]) /\ Asks(conn[k], "ROLLBACK", c) => Undid(c, k)'
  BY UndidStays DEF UndoersKnown
<1>1. CASE Writes(k)
  <2>1. isValid(conn[k])
    BY <1>1 DEF Writes
  <2>2. CASE conn'[k] = conn[k]
    BY <1>7, <2>1, <2>2
  <2>3. ASSUME NEW op \in Op, NEW d \in Calls,
               op = "ROLLBACK" => opt'.pooled /\ pc'[d] = "swallowed",
               conn'[k] = addCommand(conn[k], op, d)
        PROVE  Undid(c, k)'
    <3>1. Asks(addCommand(conn[k], op, d), "ROLLBACK", c)
      BY <2>3
    <3>2. CASE Asks(conn[k], "ROLLBACK", c)
      BY <1>7, <2>1, <3>2
    <3>3. CASE op = "ROLLBACK" /\ c = d
      BY <1>0, <2>3, <3>3, UndoersStay DEF Undid
    <3> QED
      BY <1>0, <3>1, <3>2, <3>3, NothingElseAsked
  <2> QED
    BY <1>1, <2>2, <2>3 DEF Writes
<1>2. ASSUME NEW d \in Calls, Connected(d), on[d] = k PROVE Undid(c, k)'
  <2>1. conn'[k].wire = <<>> /\ conn'[k].replies = <<>>
    BY <1>2, FreshConnection
  <2>2. DOMAIN <<>> = {}
    OBVIOUS
  <2> QED
    BY <2>1, <2>2 DEF Asks
<1>3. CASE Deliver(k)
  <2>1. conn'[k] = receivePacket(conn[k]) /\ isValid(conn[k]) /\ conn[k].replies # <<>>
    BY <1>3 DEF Deliver, StageInv, TypeOK
  <2> QED
    BY <1>0, <1>7, <2>1, ReceivePacketAsks
<1>4. CASE SocketError(k)
  <2>1. conn'[k] = fatalError(conn[k])
    BY <1>4 DEF SocketError, StageInv, TypeOK
  <2> QED
    BY <1>0, <2>1, ClosingAsks
<1>5. ASSUME NEW result \in Result, NEW writes \in BOOLEAN, Execute(k, result, writes)
      PROVE  Undid(c, k)'
  <2> DEFINE s == Executed(db[k], Head(conn[k].wire), result, writes)
  <2>1. /\ conn'[k] = Answered(conn[k], result, s.tx) /\ conn[k].wire # <<>> /\ db[k] \in Session
    BY <1>5 DEF Execute, StageInv, TypeOK
  <2>2. s.tx \in BOOLEAN
    BY <1>0, <2>1, ExecuteType DEF Session
  <2>3. /\ conn'[k].status = conn[k].status
        /\ Asks(conn'[k], "ROLLBACK", c) => Asks(conn[k], "ROLLBACK", c)
    <3> HIDE DEF s
    <3> QED
      BY <1>0, <2>1, <2>2, NothingElseAsked
  <2> QED
    BY <1>7, <2>3 DEF isValid
<1>6. CASE SessionEnds(k) \/ Drop(k)
  BY <1>6, <1>7 DEF SessionEnds, Drop
<1> QED
  BY <1>1, <1>2, <1>3, <1>4, <1>5, <1>6, ConnSteps

\* A deadlock on a connection stays one, unless the connection is lost.
LEMMA DeadlockStays ==
  ASSUME StageInv, StageInv', [Next]_vars, NEW k \in Conns, DeadlockOn(k)
  PROVE  DeadlockOn(k)' \/ db'[k].state = "dropped"
<1>1. PICK d \in Calls : on[d] = k /\ Struck(d)
  BY DEF DeadlockOn
<1>2. SUFFICES ASSUME db'[k].state # "dropped" PROVE on'[d] = k /\ Struck(d)'
  BY DEF DeadlockOn
<1>3. CASE pc[d] \in Failed
  BY <1>1, <1>3, FailedSteps DEF Struck, Failed
<1>4. CASE pc[d] \notin Failed
  <2> DEFINE Gone(w) == \A i \in DOMAIN w : ~(w[i].op = "QUERY" /\ w[i].call = d)
             Bad(r) == \A i \in DOMAIN r : r[i].op = "QUERY" /\ r[i].call = d => r[i].result = "deadlock"
  <2>1. pc[d] = "querying" /\ Gone(conn[k].wire) /\ Bad(conn[k].replies)
    BY <1>1, <1>4 DEF Struck, Failed
  <2>2. on'[d] = k
    BY <1>1, <2>1, FailedSteps
  <2>3. ~SocketError(k)
    <3> SUFFICES ASSUME SocketError(k) PROVE FALSE
      OBVIOUS
    <3>1. db'[k].state = "dropped"
      BY DEF SocketError
    <3> QED
      BY <1>2, <3>1
  <2>4. /\ conn[k] \in Endpoint /\ conn[k].wire \in Seq(Command) /\ conn[k].replies \in Seq(Reply)
    BY EndpointFields DEF StageInv, TypeOK
  <2>5. CASE pc'[d] # "querying"
    <3>1. /\ Deliver(k) /\ conn[k].replies # <<>>
          /\ Head(conn[k].replies).op = "QUERY" /\ Head(conn[k].replies).call = d
          /\ Head(conn[k].replies).result = "deadlock" => pc'[d] = "erring" /\ fault'[d] = "deadlock"
      BY <1>1, <2>1, <2>3, <2>5, FailedSteps DEF Deliver
    <3>2. 1 \in DOMAIN conn[k].replies /\ conn[k].replies[1] = Head(conn[k].replies)
      BY <2>4, <3>1, TailFacts
    <3>3. Head(conn[k].replies).result = "deadlock"
      BY <2>1, <3>1, <3>2
    <3> QED
      BY <2>2, <3>1, <3>3 DEF Struck
  <2>6. CASE pc'[d] = "querying"
    <3> SUFFICES Gone(conn'[k].wire) /\ Bad(conn'[k].replies)
      BY <2>2, <2>6 DEF Struck
    <3>0. conn'[k].replies # <<>> => isValid(conn'[k])
      <4>1. conn'[k].status \in Status
        BY DEF StageInv, TypeOK, Endpoint
      <4> QED
        BY <4>1 DEF StageInv, Attached, Busy, isValid, Status
    <3>1. DOMAIN <<>> = {}
      OBVIOUS
    <3>2. \A q \in Seq(Command) : \A x :
            Gone(q) /\ ~(x.op = "QUERY" /\ x.call = d) => Gone(Append(q, x))
      OBVIOUS
    <3>3. \A q \in Seq(Command) : q # <<>> /\ Gone(q) => Gone(Tail(q))
      OBVIOUS
    <3>4. \A q \in Seq(Reply) : q # <<>> /\ Bad(q) => Bad(Tail(q))
      OBVIOUS
    <3>5. \A q \in Seq(Reply) : \A x :
            Bad(q) /\ ~(x.op = "QUERY" /\ x.call = d) => Bad(Append(q, x))
      OBVIOUS
    <3>6. Gone(<<>>) /\ Bad(<<>>)
      BY <3>1
    <3>7. CASE Writes(k)
      <4>1. ASSUME NEW op \in Op, NEW e \in Calls, Issuer(op, e, k),
                   conn'[k].wire = Append(conn[k].wire, [op |-> op, call |-> e])
            PROVE  Gone(conn'[k].wire)
        <5>1. op = "QUERY" => e # d
          BY <2>1, <4>1 DEF Issuer, Begun, Resumes
        <5>2. LET x == [op |-> op, call |-> e] IN ~(x.op = "QUERY" /\ x.call = d)
          BY <5>1
        <5> HIDE DEF Gone
        <5> QED
          BY <2>1, <2>4, <3>2, <4>1, <5>2
      <4>2. Gone(conn'[k].wire)
        <5> HIDE DEF Gone
        <5> QED
          BY <2>1, <3>7, <4>1 DEF Writes
      <4>3. Bad(conn'[k].replies)
        <5>1. CASE conn'[k].replies = <<>>
          BY <3>1, <5>1
        <5>2. CASE conn'[k].replies # <<>>
          BY <2>1, <3>0, <3>7, <5>2, WritesKeeps
        <5> QED
          BY <5>1, <5>2
      <4> QED
        BY <4>2, <4>3
    <3>8. ASSUME NEW e \in Calls, Connected(e), on[e] = k
          PROVE  Gone(conn'[k].wire) /\ Bad(conn'[k].replies)
      <4>1. conn'[k].wire = <<>> /\ conn'[k].replies = <<>>
        BY <3>8, FreshConnection
      <4> HIDE DEF Gone, Bad
      <4> QED
        BY <3>6, <4>1
    <3>9. CASE Deliver(k)
      <4>1. conn'[k] = receivePacket(conn[k]) /\ conn[k].replies # <<>>
        BY <3>9 DEF Deliver, StageInv, TypeOK
      <4>2. conn'[k].wire = conn[k].wire /\ conn'[k].replies = Tail(conn[k].replies)
        BY <2>4, <4>1, ReceivePacketAsks
      <4> HIDE DEF Gone, Bad
      <4> QED
        BY <2>1, <2>4, <3>4, <4>1, <4>2
    <3>10. ASSUME NEW result \in Result, NEW writes \in BOOLEAN, Execute(k, result, writes)
           PROVE  Gone(conn'[k].wire) /\ Bad(conn'[k].replies)
      <4> DEFINE h == Head(conn[k].wire)
                 s == Executed(db[k], h, result, writes)
                 m == [op |-> h.op, call |-> h.call, result |-> result, tx |-> s.tx]
      <4>1. conn[k].wire # <<>> /\ conn'[k] = Answered(conn[k], result, s.tx) /\ db[k] \in Session
        BY <3>10 DEF Execute, StageInv, TypeOK
      <4>2. ~(h.op = "QUERY" /\ h.call = d)
        BY <2>1, <2>4, <4>1, TailFacts
      <4>3. ~(m.op = "QUERY" /\ m.call = d)
        BY <4>2
      <4>4. /\ conn'[k].wire = Tail(conn[k].wire)
            /\ conn'[k].replies \in {conn[k].replies, Append(conn[k].replies, m)}
        <5>1. s.tx \in BOOLEAN
          BY <2>4, <4>1, ExecuteType DEF Session
        <5>2. \A t \in BOOLEAN :
                /\ Answered(conn[k], result, t).wire = Tail(conn[k].wire)
                /\ Answered(conn[k], result, t).replies \in
                     {conn[k].replies,
                      Append(conn[k].replies,
                             [op |-> h.op, call |-> h.call, result |-> result, tx |-> t])}
          BY <2>4, <4>1, AnsweredAsks
        <5> HIDE DEF s
        <5> QED
          BY <4>1, <5>1, <5>2
      <4> HIDE DEF Gone, Bad, m
      <4> QED
        BY <2>1, <2>4, <3>3, <3>5, <4>1, <4>3, <4>4
    <3>11. CASE SessionEnds(k) \/ Drop(k)
      BY <2>1, <3>11 DEF SessionEnds, Drop
    <3> HIDE DEF Gone, Bad
    <3> QED
      BY <2>3, <3>7, <3>8, <3>9, <3>10, <3>11, ConnSteps
  <2> QED
    BY <2>5, <2>6
<1> QED
  BY <1>3, <1>4

\* The victim of a deadlock has no other step under way than its answer.
LEMMA DeadlockStrikes ==
  ASSUME StageInv, NEW k \in Conns, NEW writes \in BOOLEAN, Execute(k, "deadlock", writes)
  PROVE  DeadlockOn(k)'
<1> DEFINE h == Head(conn[k].wire)
           s == Executed(db[k], h, "deadlock", writes)
           m == [op |-> h.op, call |-> h.call, result |-> "deadlock", tx |-> s.tx]
<1>0. /\ conn[k] \in Endpoint /\ conn[k].wire \in Seq(Command) /\ conn[k].replies \in Seq(Reply)
      /\ db[k] \in Session /\ "deadlock" \in Result
  BY EndpointFields DEF StageInv, TypeOK, Result
<1>1. /\ conn[k].wire # <<>> /\ conn'[k] = Answered(conn[k], "deadlock", s.tx)
      /\ h.op = "QUERY" /\ "deadlock" \in Faults /\ pc' = pc /\ on' = on
  BY DEF Execute, StageInv, TypeOK
<1>2. h \in Command /\ s \in Session /\ h = conn[k].wire[1] /\ 1 \in DOMAIN conn[k].wire
  BY <1>0, <1>1, ExecuteType, TailFacts
<1>3. PICK d \in Calls : d = h.call /\ on[d] = k /\ pc[d] = "querying"
  <2>1. h.call \in Calls
    BY <1>2 DEF Command
  <2>2. on[h.call] = k /\ pc[h.call] = "querying"
    BY <1>1, <1>2, <2>1 DEF StageInv, Staged, Asks
  <2> HIDE DEF h
  <2> QED
    BY <2>1, <2>2
<1>4. /\ conn'[k].wire = Tail(conn[k].wire)
      /\ conn'[k].replies \in {conn[k].replies, Append(conn[k].replies, m)}
  <2>1. s.tx \in BOOLEAN
    BY <1>2 DEF Session
  <2>2. \A t \in BOOLEAN :
          /\ Answered(conn[k], "deadlock", t).wire = Tail(conn[k].wire)
          /\ Answered(conn[k], "deadlock", t).replies \in
               {conn[k].replies,
                Append(conn[k].replies,
                       [op |-> h.op, call |-> h.call, result |-> "deadlock", tx |-> t])}
    BY <1>0, <1>1, AnsweredAsks
  <2> HIDE DEF s
  <2> QED
    BY <1>1, <2>1, <2>2
<1>5. /\ \A i \in DOMAIN conn[k].wire :
           conn[k].wire[i].op = "QUERY" /\ conn[k].wire[i].call = d => i = 1
      /\ \A i \in DOMAIN conn[k].replies :
           ~(conn[k].replies[i].op = "QUERY" /\ conn[k].replies[i].call = d)
  BY <1>1, <1>2, <1>3 DEF StageInv, OnceEach, Once, SameStep, StepOp
<1>6. \A i \in DOMAIN Tail(conn[k].wire) :
        ~(Tail(conn[k].wire)[i].op = "QUERY" /\ Tail(conn[k].wire)[i].call = d)
  <2>1. \A q \in Seq(Command) : q # <<>> =>
          \A i \in DOMAIN Tail(q) : i + 1 \in DOMAIN q /\ Tail(q)[i] = q[i + 1] /\ i + 1 # 1
    OBVIOUS
  <2> QED
    BY <1>0, <1>1, <1>5, <2>1
<1>7. \A i \in DOMAIN conn'[k].replies :
        conn'[k].replies[i].op = "QUERY" /\ conn'[k].replies[i].call = d =>
          conn'[k].replies[i].result = "deadlock"
  <2>1. \A q \in Seq(Reply) : \A x : \A i \in DOMAIN Append(q, x) :
          (i \in DOMAIN q /\ Append(q, x)[i] = q[i]) \/ Append(q, x)[i] = x
    OBVIOUS
  <2>2. m.result = "deadlock"
    OBVIOUS
  <2> HIDE DEF m
  <2> QED
    BY <1>0, <1>4, <1>5, <2>1, <2>2
<1>8. on'[d] = k /\ Struck(d)'
  <2>1. on'[d] = k /\ pc'[d] = "querying"
    BY <1>1, <1>3
  <2>2. \A i \in DOMAIN conn'[k].wire :
          ~(conn'[k].wire[i].op = "QUERY" /\ conn'[k].wire[i].call = d)
    BY <1>4, <1>6
  <2> QED
    BY <1>7, <2>1, <2>2 DEF Struck
<1> QED
  BY <1>1, <1>8 DEF DeadlockOn

\* Executing a command that is no ROLLBACK keeps every call's writes.
LEMMA ExecuteKeeps ==
  ASSUME StageInv, TxMirrored, NEW k \in Conns,
         NEW result \in Result \ {"deadlock"}, NEW writes \in BOOLEAN, Execute(k, result, writes)
  PROVE  LET h == Head(conn[k].wire) IN
         /\ h \in Command /\ Asks(conn[k], h.op, h.call) /\ h = conn[k].wire[1]
         /\ conn[k].wire # <<>> /\ conn'[k].wire = Tail(conn[k].wire)
         /\ db'[k].state = "open"
         /\ h.op # "ROLLBACK" =>
              \A c \in db[k].pending : c \in db'[k].pending \/ c \in durable'
         /\ h.op \in {"BEGIN", "COMMIT"} => db[k].pending \subseteq durable'
         /\ h.op = "QUERY" /\ result = "ok" =>
              h.call \in db'[k].pending \/ h.call \in durable'
         /\ IF isValid(conn[k])
            THEN conn'[k].replies = Append(conn[k].replies,
                   [op |-> h.op, call |-> h.call, result |-> result, tx |-> db'[k].tx])
            ELSE conn'[k].replies = conn[k].replies
<1> DEFINE h == Head(conn[k].wire)
           s == Executed(db[k], h, result, writes)
<1>1. /\ conn[k] \in Endpoint /\ db[k] \in Session /\ (~db[k].tx => db[k].pending = {})
      /\ conn[k].wire # <<>> /\ db[k].state = "open"
      /\ db'[k] = s /\ conn'[k] = Answered(conn[k], result, s.tx)
      /\ durable' = durable \cup Persisted(db[k], h, writes)
      /\ result # "deadlock" /\ (h.op = "QUERY" /\ result = "ok" => writes)
  BY DEF Execute, StageInv, TypeOK, TxMirrored
<1>2. h \in Command /\ s \in Session /\ h = conn[k].wire[1]
  BY <1>1, ExecuteType, EndpointFields
<1> HIDE DEF h
<1>3. /\ s.state = "open" /\ s.tx \in BOOLEAN
      /\ \A c \in db[k].pending :
           h.op # "ROLLBACK" => c \in s.pending \/ c \in Persisted(db[k], h, writes)
      /\ h.op \in {"BEGIN", "COMMIT"} => db[k].pending \subseteq Persisted(db[k], h, writes)
      /\ h.op = "QUERY" /\ writes => h.call \in s.pending \/ h.call \in Persisted(db[k], h, writes)
  <2>1. s.tx \in BOOLEAN
    BY <1>2 DEF Session
  <2> QED
    BY <1>1, <1>2, <2>1, SessionSteps
<1> HIDE DEF s
<1>4. /\ Answered(conn[k], result, s.tx).wire = Tail(conn[k].wire)
      /\ isValid(conn[k]) => Answered(conn[k], result, s.tx).replies = Append(conn[k].replies,
                   [op |-> h.op, call |-> h.call, result |-> result, tx |-> s.tx])
      /\ ~isValid(conn[k]) => Answered(conn[k], result, s.tx).replies = conn[k].replies
      /\ Asks(conn[k], h.op, h.call)
  BY <1>1, <1>3, AnsweredAsks DEF h
<1>5. h.op = "QUERY" /\ result = "ok" => h.call \in db'[k].pending \/ h.call \in durable'
  BY <1>1, <1>3
<1> QED
  BY <1>1, <1>2, <1>3, <1>4, <1>5 DEF h

\* On a live connection of a running program nothing written is lost, but to a
\* deadlock or, with a pool, to a failed call.
LEMMA WrittenStable ==
  ASSUME StageInv, StageInv', UndoersKnown, TxMirrored,
         [Next]_vars, NEW k \in Conns, isValid(conn[k]), proc = "running",
         NEW c \in Calls, Written(c, k)
  PROVE  Written(c, k)'
<1>0. durable \subseteq durable'
  BY DurableGrows
<1>1. ASSUME DeadlockOn(k) \/ UndoneOn(k) PROVE Written(c, k)'
  BY <1>1, DeadlockStays, UndidStays DEF Written
<1>2. ASSUME db'[k] = db[k] PROVE Written(c, k)'
  BY <1>0, <1>2, <1>1 DEF Written
<1>3. ASSUME NEW d \in Calls, Connected(d), on[d] = k PROVE Written(c, k)'
  BY <1>0, <1>3, <1>1, FreshConnection DEF Written, NewSession
<1>4. ASSUME NEW writes \in BOOLEAN, Execute(k, "deadlock", writes) PROVE Written(c, k)'
  BY <1>4, DeadlockStrikes DEF Written
<1>5. ASSUME NEW result \in Result \ {"deadlock"}, NEW writes \in BOOLEAN,
             Execute(k, result, writes)
      PROVE  Written(c, k)'
  <2> DEFINE h == Head(conn[k].wire)
  <2>1. /\ h \in Command /\ Asks(conn[k], h.op, h.call) /\ db'[k].state = "open"
        /\ h.op # "ROLLBACK" => \A d \in db[k].pending : d \in db'[k].pending \/ d \in durable'
    BY <1>5, ExecuteKeeps
  <2>2. h.op = "ROLLBACK" => UndoneOn(k)
    BY <2>1 DEF UndoersKnown, UndoneOn, Command
  <2>3. db[k].state = "open"
    BY <1>5 DEF Execute
  <2> QED
    BY <1>0, <1>1, <2>1, <2>2, <2>3 DEF Written
<1>6. ~SessionEnds(k)
  BY DEF SessionEnds, isValid
<1>7. CASE Drop(k)
  BY <1>7 DEF Drop, Over, StageInv, TypeOK, Session, Written
<1>8. CASE Deliver(k) \/ SocketError(k) \/ Writes(k)
  BY <1>2, <1>8 DEF Deliver, SocketError, Writes
<1> QED
  BY <1>3, <1>5, <1>6, <1>7, <1>8, <1>4, ConnSteps

\* A call reaches "answered" only through the reply to its statement, and
\* reports success only from there.
LEMMA AnsweredSteps ==
  ASSUME StageInv, [Next]_vars, NEW c \in Calls
  PROVE  /\ pc'[c] = "answered" =>
              \/ pc[c] = "answered" /\ on'[c] = on[c]
              \/ \E k \in Conns :
                   /\ Deliver(k) /\ on[c] = k /\ on'[c] = k
                   /\ LET r == Head(conn[k].replies) IN
                        r.op = "QUERY" /\ r.result = "ok" /\ r.call = c
         /\ pc'[c] = "ok" =>
              \/ pc[c] = "ok" /\ on'[c] = on[c]
              \/ Succeeds(c) /\ on'[c] = on[c]
<1> USE DEF StageInv, stubVars
<1> DEFINE Good == /\ pc'[c] = "answered" => pc[c] = "answered" /\ on'[c] = on[c]
                   /\ pc'[c] = "ok" => pc[c] = "ok" /\ on'[c] = on[c]
<1>1. ASSUME NEW d \in Calls, NEW m \in Modes, Reuse(d, m) \/ \E k \in Conns : Connect(d, m, k)
      PROVE  Good
  BY <1>1 DEF Reuse, Connect, MayCall, TypeOK
<1>2. ASSUME NEW d \in Calls, NEW st, st \notin {"answered", "ok"},
             pc' = [pc EXCEPT ![d] = st], UNCHANGED on
      PROVE  Good
  BY <1>2 DEF TypeOK
<1>3. ASSUME UNCHANGED <<pc, on>> PROVE Good
  BY <1>3
<1>4. ASSUME NEW d \in Calls, Connected(d) \/ ConnectFails(d) \/ Check(d) \/ Begun(d)
      PROVE  Good
  BY <1>2, <1>3, <1>4 DEF Connected, ConnectFails, Check, Begun, Issue, Fails
<1>5. ASSUME NEW d \in Calls, Handled(d) \/ HandledLater(d) \/ _handleError(d)
      PROVE  Good
  <2>1. UNCHANGED on /\ \E st \in {"handled", "handling", "erring", "rejected", "swallowed"} :
                           pc' = [pc EXCEPT ![d] = st]
    BY <1>5 DEF Handled, HandledLater, HandlerSettles, Fails, _handleError
  <2> QED
    BY <1>2, <2>1
<1>6. ASSUME NEW d \in Calls, Succeeds(d)
      PROVE  Good \/ (d = c /\ pc'[c] = "ok" /\ on'[c] = on[c])
  BY <1>6 DEF Succeeds, TypeOK
<1>7. ASSUME NEW k \in Conns, Deliver(k)
      PROVE  \/ Good
             \/ /\ on[c] = k /\ on'[c] = k /\ pc'[c] = "answered"
                /\ LET r == Head(conn[k].replies) IN
                     r.op = "QUERY" /\ r.result = "ok" /\ r.call = c
  <2> DEFINE r == Head(conn[k].replies)
  <2>1. /\ UNCHANGED on
        /\ \/ UNCHANGED pc
           \/ \E st \in {"begun", "erring"} : pc' = [pc EXCEPT ![r.call] = st]
           \/ r.op = "QUERY" /\ r.result = "ok" /\ pc' = [pc EXCEPT ![r.call] = "answered"]
    BY <1>7 DEF Deliver, Fails
  <2>2. r \in Reply /\ Asks(conn[k], r.op, r.call)
    BY <1>7, ReceivePacketType, ReceivePacketAsks DEF Deliver, TypeOK
  <2>3. r.call \in Calls /\ (r.op = "QUERY" => on[r.call] = k)
    BY <2>2 DEF Staged, Reply
  <2> HIDE DEF r
  <2>4. CASE r.op = "QUERY" /\ r.result = "ok" /\ pc' = [pc EXCEPT ![r.call] = "answered"]
    <3>1. CASE r.call = c
      BY <2>1, <2>3, <2>4, <3>1 DEF TypeOK, r
    <3>2. CASE r.call # c
      BY <2>1, <2>4, <3>2 DEF TypeOK
    <3> QED
      BY <3>1, <3>2
  <2> QED
    BY <1>2, <1>3, <2>1, <2>3, <2>4
<1>8. ASSUME NEW k \in Conns, SocketError(k) PROVE Good
  BY <1>8 DEF SocketError, Waiting, TypeOK
<1> QED
  BY <1>1, <1>3, <1>4, <1>5, <1>6, <1>7, <1>8
  DEF Next, Calling, Continue, End, PoolEnded, Execute, SessionEnds, Drop, vars

\* A statement's good answer, unread or just read, still has its writes.
LEMMA NextWrittenBeforeOk ==
  ASSUME StageInv, StageInv', UndoersKnown, TxMirrored, WrittenBeforeOk, [Next]_vars
  PROVE  WrittenBeforeOk'
<1>0. proc' = "running" => proc = "running"
  BY DurableGrows
<1>1. ASSUME proc' = "running", NEW c \in Calls, pc'[c] = "answered", NEW k \in Conns, k = on'[c]
      PROVE  Written(c, k)'
  <2>1. CASE pc[c] = "answered" /\ on'[c] = on[c]
    BY <1>0, <1>1, <2>1, WrittenStable DEF StageInv, ReadyIsLive, WrittenBeforeOk
  <2>2. ASSUME NEW j \in Conns, Deliver(j), on'[c] = j,
               Head(conn[j].replies).op = "QUERY", Head(conn[j].replies).result = "ok",
               Head(conn[j].replies).call = c
        PROVE  Written(c, k)'
    <3>1. /\ j = k /\ isValid(conn[k]) /\ conn[k].replies # <<>>
          /\ conn[k].replies \in Seq(Reply)
      BY <1>1, <2>2, EndpointFields DEF Deliver, StageInv, TypeOK
    <3>2. 1 \in DOMAIN conn[k].replies /\ conn[k].replies[1] = Head(conn[k].replies)
      BY <3>1, TailFacts
    <3>3. Written(c, k)
      BY <1>0, <1>1, <2>2, <3>1, <3>2 DEF WrittenBeforeOk
    <3> QED
      BY <1>0, <1>1, <3>1, <3>3, WrittenStable
  <2> QED
    BY <1>1, <2>1, <2>2, AnsweredSteps
<1>2. ASSUME proc' = "running", NEW k \in Conns, NEW i \in DOMAIN conn'[k].replies,
             NEW c \in Calls, conn'[k].replies[i].op = "QUERY",
             conn'[k].replies[i].result = "ok", conn'[k].replies[i].call = c
      PROVE  Written(c, k)'
  <2>1. conn'[k].replies # <<>> /\ isValid(conn'[k])
    <3>1. conn'[k].replies # <<>>
      OBVIOUS
    <3>2. conn'[k].status \in Status
      BY DEF StageInv, TypeOK, Endpoint
    <3> QED
      BY <3>1, <3>2 DEF StageInv, Attached, Busy, isValid, Status
  <2>2. conn[k] \in Endpoint /\ conn[k].replies \in Seq(Reply)
    BY EndpointFields DEF StageInv, TypeOK
  <2>3. ASSUME isValid(conn[k]), NEW j \in DOMAIN conn[k].replies,
               conn[k].replies[j] = conn'[k].replies[i]
        PROVE  Written(c, k)'
    <3>1. Written(c, k)
      BY <1>0, <1>2, <2>3 DEF WrittenBeforeOk
    <3> QED
      BY <1>0, <1>2, <2>3, <3>1, WrittenStable
  <2>4. CASE Writes(k)
    BY <2>1, <2>3, <2>4, WritesKeeps
  <2>5. ASSUME NEW d \in Calls, Connected(d), on[d] = k PROVE FALSE
    BY <2>1, <2>5, FreshConnection
  <2>6. CASE Deliver(k)
    <3>1. /\ isValid(conn[k]) /\ conn[k].replies # <<>>
          /\ conn'[k].replies = Tail(conn[k].replies)
      BY <2>2, <2>6, ReceivePacketAsks DEF Deliver, StageInv, TypeOK
    <3>2. i + 1 \in DOMAIN conn[k].replies /\ conn[k].replies[i + 1] = conn'[k].replies[i]
      BY <2>2, <3>1, TailFacts
    <3> QED
      BY <2>3, <3>1, <3>2
  <2>7. CASE SocketError(k)
    <3>1. conn'[k] = fatalError(conn[k])
      BY <2>7 DEF SocketError, StageInv, TypeOK
    <3> QED
      BY <2>1, <2>2, <3>1, ClosingAsks
  <2>8. ASSUME NEW writes \in BOOLEAN, Execute(k, "deadlock", writes) PROVE Written(c, k)'
    BY <2>8, DeadlockStrikes DEF Written
  <2>9. ASSUME NEW result \in Result \ {"deadlock"}, NEW writes \in BOOLEAN,
               Execute(k, result, writes)
        PROVE  Written(c, k)'
    <3> DEFINE h == Head(conn[k].wire)
               m == [op |-> h.op, call |-> h.call, result |-> result, tx |-> db'[k].tx]
    <3>1. /\ h.op = "QUERY" /\ result = "ok" => h.call \in db'[k].pending \/ h.call \in durable'
          /\ db'[k].state = "open"
          /\ isValid(conn[k]) => conn'[k].replies = Append(conn[k].replies, m)
          /\ ~isValid(conn[k]) => conn'[k].replies = conn[k].replies
      BY <2>9, ExecuteKeeps
    <3>2. isValid(conn[k])
      <4>1. \E s : conn'[k] = Answered(conn[k], result, s)
        BY <2>9 DEF Execute, StageInv, TypeOK
      <4>2. conn'[k].status = conn[k].status
        BY <2>2, <4>1 DEF Answered, Endpoint
      <4> QED
        BY <2>1, <4>2 DEF isValid
    <3> HIDE DEF h
    <3>3. \/ i \in DOMAIN conn[k].replies /\ conn[k].replies[i] = conn'[k].replies[i]
          \/ conn'[k].replies[i] = m
      <4>1. \A q \in Seq(Reply) : \A x : \A n \in DOMAIN Append(q, x) :
              (n \in DOMAIN q /\ q[n] = Append(q, x)[n]) \/ Append(q, x)[n] = x
        OBVIOUS
      <4>2. conn'[k].replies = Append(conn[k].replies, m) /\ conn[k].replies \in Seq(Reply)
        BY <2>2, <3>1, <3>2
      <4> HIDE DEF m
      <4> QED
        BY <4>1, <4>2, Zenon
    <3>4. CASE conn'[k].replies[i] = m
      BY <1>2, <3>1, <3>4 DEF Written
    <3> QED
      BY <2>3, <3>2, <3>3, <3>4
  <2>10. CASE SessionEnds(k) \/ Drop(k)
    BY <2>1, <2>3, <2>10 DEF SessionEnds, Drop
  <2> QED
    BY <2>4, <2>5, <2>6, <2>7, <2>9, <2>10, <2>8, ConnSteps
<1>3. \A c \in Calls : proc' = "running" /\ pc'[c] = "answered" => on'[c] \in Conns
  BY DEF StageInv, ReadyIsLive
<1>4. \A k \in Conns : \A i \in DOMAIN conn'[k].replies : conn'[k].replies[i].call \in Calls
  <2> TAKE k \in Conns
  <2>1. conn'[k] \in Endpoint
    BY DEF StageInv, TypeOK
  <2>2. conn'[k].replies \in Seq(Reply)
    BY <2>1, EndpointFields
  <2>3. \A i \in DOMAIN conn'[k].replies : conn'[k].replies[i] \in Reply
    BY <2>2
  <2> QED
    BY <2>3 DEF Reply
<1> QED
  BY <1>1, <1>2, <1>3, <1>4 DEF WrittenBeforeOk, Written

-----------------------------------------------------------------------------
(* A call reported successful is never lost.                                *)

\* A COMMIT under way stays under way until it has done its work, unless a
\* deadlock comes first.
LEMMA CommitStable ==
  ASSUME StageInv, TxMirrored, [Next]_vars,
         NEW k \in Conns, NEW c \in Calls, c \in db[k].pending, db[k].state = "open",
         NEW i \in DOMAIN conn[k].wire, conn[k].wire[i].op \in {"BEGIN", "COMMIT"},
         \A j \in DOMAIN conn[k].wire : j < i => conn[k].wire[j].op # "ROLLBACK"
  PROVE  \/ c \in durable'
         \/ db'[k].state = "dropped"
         \/ DeadlockOn(k)'
         \/ /\ c \in db'[k].pending /\ db'[k].state = "open"
            /\ \E m \in DOMAIN conn'[k].wire :
                 /\ conn'[k].wire[m].op \in {"BEGIN", "COMMIT"}
                 /\ \A j \in DOMAIN conn'[k].wire : j < m => conn'[k].wire[j].op # "ROLLBACK"
<1> DEFINE Under(w) == \E m \in DOMAIN w :
                         /\ w[m].op \in {"BEGIN", "COMMIT"}
                         /\ \A j \in DOMAIN w : j < m => w[j].op # "ROLLBACK"
<1>0. /\ conn[k].wire \in Seq(Command) /\ Under(conn[k].wire) /\ conn[k].wire # <<>>
      /\ db[k] \in Session /\ conn[k] \in Endpoint
  BY EndpointFields DEF StageInv, TypeOK
<1>1. CASE Writes(k)
  <2>1. \A w \in Seq(Command) : \A x : Under(w) => Under(Append(w, x))
    OBVIOUS
  <2>2. db'[k] = db[k] /\ (conn'[k].wire = conn[k].wire \/ \E x : conn'[k].wire = Append(conn[k].wire, x))
    BY <1>1 DEF Writes
  <2>3. Under(conn'[k].wire)
    <3> HIDE DEF Under
    <3> QED
      BY <1>0, <2>1, <2>2
  <2> QED
    BY <2>2, <2>3
<1>2. ASSUME NEW d \in Calls, Connected(d), on[d] = k PROVE FALSE
  BY <1>2, FreshConnection DEF NewSession
<1>3. CASE Deliver(k)
  <2>1. conn'[k] = receivePacket(conn[k]) /\ conn[k].replies # <<>> /\ db'[k] = db[k]
    BY <1>3 DEF Deliver, StageInv, TypeOK
  <2>2. conn'[k].wire = conn[k].wire
    BY <1>0, <2>1, ReceivePacketAsks
  <2> QED
    BY <1>0, <2>1, <2>2
<1>4. ~SocketError(k)
  BY DEF SocketError
<1>5. ASSUME NEW writes \in BOOLEAN, Execute(k, "deadlock", writes) PROVE DeadlockOn(k)'
  BY <1>5, DeadlockStrikes
<1>6. ASSUME NEW result \in Result \ {"deadlock"}, NEW writes \in BOOLEAN,
             Execute(k, result, writes)
      PROVE  \/ c \in durable'
             \/ c \in db'[k].pending /\ db'[k].state = "open" /\ Under(conn'[k].wire)
  <2> DEFINE h == Head(conn[k].wire)
  <2>1. /\ h = conn[k].wire[1] /\ conn'[k].wire = Tail(conn[k].wire) /\ db'[k].state = "open"
        /\ h.op # "ROLLBACK" => c \in db'[k].pending \/ c \in durable'
        /\ h.op \in {"BEGIN", "COMMIT"} => c \in durable'
    BY <1>6, ExecuteKeeps
  <2> HIDE DEF h
  <2>2. CASE i = 1
    BY <2>1, <2>2
  <2>3. CASE i # 1
    <3>1. /\ DOMAIN conn[k].wire = 1..Len(conn[k].wire) /\ Len(conn[k].wire) \in Nat
          /\ DOMAIN Tail(conn[k].wire) = 1..(Len(conn[k].wire) - 1)
          /\ \A j \in DOMAIN Tail(conn[k].wire) : Tail(conn[k].wire)[j] = conn[k].wire[j + 1]
          /\ i \in Nat /\ i > 1
      BY <1>0, <2>3, TailFacts
    <3>2. h.op # "ROLLBACK"
      BY <2>1, <3>1
    <3>3. /\ i - 1 \in DOMAIN Tail(conn[k].wire)
          /\ Tail(conn[k].wire)[i - 1] = conn[k].wire[i]
      BY <3>1
    <3>4. \A j \in DOMAIN Tail(conn[k].wire) : j < i - 1 => Tail(conn[k].wire)[j].op # "ROLLBACK"
      BY <3>1
    <3> QED
      BY <2>1, <3>2, <3>3, <3>4
  <2> QED
    BY <2>2, <2>3
<1>7. ~SessionEnds(k)
  BY <1>0 DEF SessionEnds
<1>8. CASE Drop(k)
  BY <1>0, <1>8 DEF Drop, Over, StageInv, TypeOK, Session
<1> QED
  BY <1>1, <1>2, <1>3, <1>4, <1>6, <1>7, <1>8, <1>5, ConnSteps

\* When a call reports success its COMMIT is on the wire, or was not needed.
LEMMA SuccessCommits ==
  ASSUME StageInv, UndoersKnown, TxMirrored, WrittenBeforeOk, NEW c \in Calls, Succeeds(c)
  PROVE  \/ c \in durable'
         \/ db'[on[c]].state = "dropped"
         \/ DeadlockOn(on[c])
         \/ UndoneOn(on[c])
         \/ /\ c \in db'[on[c]].pending /\ db'[on[c]].state = "open"
            /\ \E m \in DOMAIN conn'[on[c]].wire :
                 /\ conn'[on[c]].wire[m].op \in {"BEGIN", "COMMIT"}
                 /\ \A j \in DOMAIN conn'[on[c]].wire :
                      j < m => conn'[on[c]].wire[j].op # "ROLLBACK"
<1> DEFINE k == on[c]
<1>1. /\ proc = "running" /\ pc[c] = "answered" /\ db' = db /\ durable' = durable
      /\ on[c] \in Conns /\ isValid(conn[k]) /\ Written(c, k)
  BY DEF Succeeds, Resumes, StageInv, ReadyIsLive, WrittenBeforeOk
<1>2. conn' = [conn EXCEPT ![k] = changeTransaction(conn[k], "COMMIT", c)]
  BY <1>1 DEF Succeeds
<1>3. /\ conn'[k] = changeTransaction(conn[k], "COMMIT", c)
      /\ conn[k] \in Endpoint /\ conn[k].wire \in Seq(Command)
      /\ (~db[k].tx => db[k].pending = {})
  BY <1>1, <1>2, EndpointFields DEF StageInv, TypeOK, TxMirrored
<1>4. CASE c \in durable \/ db[k].state = "dropped" \/ DeadlockOn(k) \/ UndoneOn(k)
  BY <1>1, <1>4
<1>5. CASE db[k].state = "open" /\ c \in db[k].pending /\ ~UndoneOn(k)
  <2> DEFINE w == conn[k].wire
             m == [op |-> "COMMIT", call |-> c]
  <2>1. Busy(conn[k]) \/ conn[k].tx
    BY <1>1, <1>3, <1>5 DEF TxMirrored, Busy
  <2>2. conn'[k].wire = Append(w, m)
    <3>1. "COMMIT" \in Op
      BY DEF Op
    <3>2. conn'[k] = addCommand(conn[k], "COMMIT", c)
      BY <1>3, <2>1 DEF changeTransaction
    <3>3. addCommand(conn[k], "COMMIT", c).wire = Append(w, m)
      BY <1>3, <3>1, AddCommandAsks
    <3> QED
      BY <3>2, <3>3
  <2>3. \A j \in DOMAIN w : w[j].op # "ROLLBACK"
    <3> TAKE j \in DOMAIN w
    <3>1. w[j] \in Command
      BY <1>3
    <3>2. w[j].call \in Calls
      BY <3>1 DEF Command
    <3> QED
      BY <1>1, <1>5, <3>2 DEF UndoersKnown, UndoneOn, Asks
  <2>4. /\ Len(w) + 1 \in DOMAIN Append(w, m) /\ Append(w, m)[Len(w) + 1] = m
        /\ \A j \in DOMAIN Append(w, m) : j < Len(w) + 1 => j \in DOMAIN w /\ Append(w, m)[j] = w[j]
    BY <1>3
  <2>5. \A j \in DOMAIN Append(w, m) : j < Len(w) + 1 => Append(w, m)[j].op # "ROLLBACK"
    BY <2>3, <2>4
  <2>6. m.op = "COMMIT"
    OBVIOUS
  <2> HIDE DEF m
  <2> QED
    BY <1>1, <1>5, <2>2, <2>4, <2>5, <2>6
<1> QED
  BY <1>1, <1>4, <1>5 DEF Written

\* No step loses a call that was reported successful.
LEMMA NextSuccessKept ==
  ASSUME DurableInv, StageInv', [Next]_vars
  PROVE  OkOnConnection' /\ SuccessKept'
<1> USE DEF DurableInv
<1> DEFINE Kept(c) == \/ c \in durable
                      \/ CommitComing(c)
                      \/ db[on[c]].state = "dropped"
                      \/ DeadlockOn(on[c])
                      \/ UndoneOn(on[c])
<1>1. ASSUME NEW c \in Calls, pc'[c] = "ok" PROVE on'[c] = on[c] /\ on[c] \in Conns
  BY <1>1, AnsweredSteps
  DEF OkOnConnection, Succeeds, Resumes, StageInv, ReadyIsLive
<1>2. ASSUME NEW c \in Calls, pc'[c] = "ok" PROVE Kept(c)'
  <2>0. on'[c] = on[c] /\ on[c] \in Conns
    BY <1>1, <1>2
  <2>1. ASSUME DeadlockOn(on[c]) \/ UndoneOn(on[c]) PROVE Kept(c)'
    <3>1. PICK k \in Conns : k = on[c] /\ k = on'[c]
      BY <2>0
    <3>2. DeadlockOn(k)' \/ UndoneOn(k)' \/ db'[k].state = "dropped"
      BY <2>1, <3>1, DeadlockStays, UndidStays
    <3> QED
      BY <3>1, <3>2 DEF DeadlockOn, UndoneOn, Undid
  <2>2. CASE pc[c] = "ok"
    <3>1. Kept(c)
      BY <2>0, <2>2 DEF SuccessKept
    <3>2. CASE c \in durable
      BY <3>2, DurableGrows
    <3>3. CASE db[on[c]].state = "dropped"
      BY <2>0, <3>3, LostStaysLost
    <3>4. CASE CommitComing(c)
      <4>1. PICK i \in DOMAIN conn[on[c]].wire :
              /\ conn[on[c]].wire[i].op \in {"BEGIN", "COMMIT"}
              /\ \A j \in DOMAIN conn[on[c]].wire : j < i => conn[on[c]].wire[j].op # "ROLLBACK"
        BY <3>4 DEF CommitComing
      <4>2. c \in db[on[c]].pending /\ db[on[c]].state = "open"
        BY <3>4 DEF CommitComing
      <4> QED
        BY <2>0, <4>1, <4>2, CommitStable DEF CommitComing
    <3> QED
      BY <2>1, <3>1, <3>2, <3>3, <3>4
  <2>3. CASE Succeeds(c)
    BY <2>0, <2>1, <2>3, SuccessCommits DEF CommitComing
  <2> QED
    BY <1>2, <2>2, <2>3, AnsweredSteps
<1>3. OkOnConnection'
  BY <1>1 DEF OkOnConnection
<1>4. SuccessKept'
  BY <1>2 DEF SuccessKept
<1> QED
  BY <1>3, <1>4

\* At the start nothing is written.
LEMMA InitDurableInv == Init => DurableInv
<1> SUFFICES ASSUME Init PROVE DurableInv
  OBVIOUS
<1>1. StageInv
  BY InitStageInv
<1>2. /\ \A k \in Conns : conn[k] = NewEndpoint /\ db[k] = NewSession
      /\ \A c \in Calls : pc[c] = "idle"
  BY DEF Init
<1>3. UndoersKnown /\ TxMirrored
  BY <1>2 DEF UndoersKnown, TxMirrored, NewEndpoint, NewSession, isValid
<1>4. WrittenBeforeOk
  <2>1. DOMAIN <<>> = {}
    OBVIOUS
  <2> QED
    BY <1>2, <2>1 DEF WrittenBeforeOk, NewEndpoint
<1>5. OkOnConnection /\ SuccessKept
  BY <1>2 DEF OkOnConnection, SuccessKept
<1> QED
  BY <1>1, <1>3, <1>4, <1>5 DEF DurableInv

\* DurableInv is inductive.
LEMMA NextDurableInv == DurableInv /\ [Next]_vars => DurableInv'
<1> SUFFICES ASSUME DurableInv, [Next]_vars PROVE DurableInv'
  OBVIOUS
<1>1. StageInv'
  BY NextStageInv DEF DurableInv
<1>2. TxMirrored'
  BY NextTxMirrored DEF DurableInv
<1>3. UndoersKnown' /\ WrittenBeforeOk'
  BY <1>1, NextUndoersKnown, NextWrittenBeforeOk DEF DurableInv
<1>4. OkOnConnection' /\ SuccessKept'
  BY <1>1, NextSuccessKept
<1> QED
  BY <1>1, <1>2, <1>3, <1>4 DEF DurableInv

\* Every call that a stub reports successful is durable, or its COMMIT is under
\* way with no ROLLBACK ahead of it, unless its connection was lost, or a
\* deadlock took another call's transaction there, or another call failed and
\* rolled that connection back without closing it, with a pool: for every number of callers of a connection, whatever end(),
\* process.exit and failing calls do meanwhile.
THEOREM SuccessIsKept == Spec => []SuccessKept
<1>1. DurableInv => SuccessKept
  BY DEF DurableInv
<1> QED
  BY <1>1, InitDurableInv, NextDurableInv, PTL DEF Spec

\* Without a pool and without deadlocks the first three are all there is.
LEMMA KeptIsDurable ==
  ASSUME "deadlock" \notin Faults, ~opt.pooled, SuccessKept
  PROVE  DurableSuccess
BY DEF SuccessKept, DurableSuccess, UndoneOn, Undid, DeadlockOn

\* The stub never changes its options.
LEMMA UnpooledStays ==
  ASSUME \A o \in Options : ~o.pooled
  PROVE  /\ Init => ~opt.pooled
         /\ ~opt.pooled /\ [Next]_vars => ~opt'.pooled
BY DurableGrows DEF Init

\* Without a pool and without deadlocks, every call reported successful is
\* durable, or its COMMIT is under way with no ROLLBACK ahead of it, unless its
\* connection was lost.
THEOREM SuccessIsDurable ==
  ASSUME \A o \in Options : ~o.pooled, "deadlock" \notin Faults
  PROVE  Spec => []DurableSuccess
<1> DEFINE Inv == DurableInv /\ ~opt.pooled
<1>1. Init => Inv
  BY InitDurableInv, UnpooledStays
<1>2. Inv /\ [Next]_vars => Inv'
  BY NextDurableInv, UnpooledStays
<1>3. Inv => DurableSuccess
  BY KeptIsDurable DEF DurableInv
<1> QED
  BY <1>1, <1>2, <1>3, PTL DEF Spec

-----------------------------------------------------------------------------
(* A call that has its connection to itself.                                *)

\* A call that has sent nothing to its connection yet.
Unsent == {"idle", "connecting", "checking"}

Alone(c) == \A d \in Calls \ {c} : on[d] = on[c] => pc[d] \in Unsent

\* No other call has undone what its connection held.
Unhurt(c) == \A k \in Conns : on[c] = k => \A d \in Calls \ {c} : ~Undid(d, k)

\* A transaction holds writes of the calls on its connection, and a COMMIT on
\* the wire is that of a successful one.
PendingOwned == \A k \in Conns : \A c \in db[k].pending : on[c] = k
CommitsOwned ==
  \A k \in Conns : \A i \in DOMAIN conn[k].wire :
    LET cmd == conn[k].wire[i] IN
      cmd.op = "COMMIT" => on[cmd.call] = k /\ pc[cmd.call] = "ok"

\* From the answer to the START TRANSACTION of c on, k has a transaction open
\* when it executes the statement of c.
InTransaction(c, k) ==
  db[k].state = "open" =>
    /\ \A i \in DOMAIN conn[k].wire :
         conn[k].wire[i].op = "QUERY" /\ conn[k].wire[i].call = c =>
           /\ db[k].tx
           /\ \A j \in DOMAIN conn[k].wire : j < i => conn[k].wire[j].op # "ROLLBACK"
    /\ isValid(conn[k]) =>
         /\ pc[c] = "begun" => db[k].tx
         /\ \A i \in DOMAIN conn[k].replies :
              conn[k].replies[i].op = "BEGIN" /\ conn[k].replies[i].call = c => db[k].tx

AloneInv ==
  \A c \in Calls : Alone(c) /\ Unhurt(c) =>
    /\ \A k \in Conns : on[c] = k => InTransaction(c, k)
    /\ pc[c] # "ok" => c \notin durable

\* A call keeps its connection and goes on, and what was reported stays so.
LEMMA CallsGoOn ==
  ASSUME StageInv, [Next]_vars, NEW c \in Calls
  PROVE  /\ pc[c] # "idle" => on'[c] = on[c]
         /\ pc[c] = "idle" => pc'[c] \in Unsent
         /\ pc'[c] \in Unsent => pc[c] \in Unsent
         /\ pc[c] = "ok" => pc'[c] = "ok"
         /\ pc'[c] = "begun" =>
              \/ pc[c] = "begun"
              \/ \E k \in Conns :
                   /\ Deliver(k) /\ on[c] = k
                   /\ Head(conn[k].replies).op = "BEGIN" /\ Head(conn[k].replies).call = c
<1> USE DEF StageInv, stubVars, Unsent
<1> DEFINE Good == /\ pc[c] # "idle" => on'[c] = on[c]
                   /\ pc[c] = "idle" => pc'[c] \in Unsent
                   /\ pc'[c] \in Unsent => pc[c] \in Unsent
                   /\ pc[c] = "ok" => pc'[c] = "ok"
           Read(k) == /\ on[c] = k
                      /\ Head(conn[k].replies).op = "BEGIN" /\ Head(conn[k].replies).call = c
<1>1. ASSUME NEW d \in Calls, NEW m \in Modes, Reuse(d, m) \/ \E k \in Conns : Connect(d, m, k)
      PROVE  Good /\ (pc'[c] = "begun" => pc[c] = "begun")
  BY <1>1 DEF Reuse, Connect, MayCall, TypeOK
<1>2. ASSUME NEW d \in Calls, NEW st, pc' = [pc EXCEPT ![d] = st], UNCHANGED on,
             pc[d] \notin {"idle", "ok"}, st \in Unsent => pc[d] \in Unsent
      PROVE  Good /\ (st # "begun" /\ pc'[c] = "begun" => pc[c] = "begun")
  BY <1>2 DEF TypeOK
<1>3. ASSUME UNCHANGED <<pc, on>> PROVE Good /\ (pc'[c] = "begun" => pc[c] = "begun")
  BY <1>3
<1>4. ASSUME NEW d \in Calls, Connected(d) \/ ConnectFails(d)
      PROVE  Good /\ (pc'[c] = "begun" => pc[c] = "begun")
  <2>1. UNCHANGED on /\ pc[d] = "connecting"
        /\ (UNCHANGED pc \/ \E st \in {"checking", "rejected"} : pc' = [pc EXCEPT ![d] = st])
    BY <1>4 DEF Connected, ConnectFails
  <2> QED
    BY <1>2, <1>3, <2>1
<1>5. ASSUME NEW d \in Calls, Check(d) \/ Begun(d)
      PROVE  Good /\ (pc'[c] = "begun" => pc[c] = "begun")
  <2>1. UNCHANGED on /\ pc[d] \in {"checking", "begun"}
        /\ (UNCHANGED pc \/ \E st \in {"beginning", "querying", "erring", "refused"} :
                              pc' = [pc EXCEPT ![d] = st])
    BY <1>5 DEF Check, Begun, Resumes, Issue, Fails
  <2> QED
    BY <1>2, <1>3, <2>1
<1>6. ASSUME NEW d \in Calls, Handled(d) \/ HandledLater(d) \/ Succeeds(d) \/ _handleError(d)
      PROVE  Good /\ (pc'[c] = "begun" => pc[c] = "begun")
  <2>1. UNCHANGED on /\ pc[d] \in {"answered", "handling", "erring"}
        /\ \E st \in {"handled", "handling", "erring", "ok", "rejected", "swallowed"} :
             pc' = [pc EXCEPT ![d] = st]
    BY <1>6 DEF Handled, HandledLater, HandlerSettles, Resumes, Fails, Succeeds, _handleError
  <2> QED
    BY <1>2, <2>1
<1>7. ASSUME NEW k \in Conns, Deliver(k)
      PROVE  Good /\ (pc'[c] = "begun" => pc[c] = "begun" \/ Read(k))
  <2> DEFINE r == Head(conn[k].replies)
  <2>1. /\ UNCHANGED on
        /\ \/ UNCHANGED pc
           \/ r.op = "BEGIN" /\ pc' = [pc EXCEPT ![r.call] = "begun"]
           \/ r.op = "QUERY" /\ \E st \in {"answered", "erring"} : pc' = [pc EXCEPT ![r.call] = st]
    BY <1>7 DEF Deliver, Fails
  <2>2. r \in Reply /\ Asks(conn[k], r.op, r.call)
    BY <1>7, ReceivePacketType, ReceivePacketAsks DEF Deliver, TypeOK
  <2>3. r.call \in Calls /\ (r.op \in {"BEGIN", "QUERY"} =>
                               on[r.call] = k /\ pc[r.call] \in {"beginning", "querying"})
    BY <2>2 DEF Staged, Reply
  <2> HIDE DEF r
  <2>4. CASE r.op = "BEGIN" /\ pc' = [pc EXCEPT ![r.call] = "begun"]
    <3>1. Good
      BY <1>2, <2>1, <2>3, <2>4
    <3>2. pc'[c] = "begun" => pc[c] = "begun" \/ r.call = c
      BY <2>4 DEF TypeOK
    <3>3. r.call = c => Read(k)
      BY <2>3, <2>4 DEF r
    <3> QED
      BY <3>1, <3>2, <3>3
  <2>5. CASE r.op = "QUERY" /\ \E st \in {"answered", "erring"} : pc' = [pc EXCEPT ![r.call] = st]
    BY <1>2, <2>1, <2>3, <2>5
  <2> QED
    BY <1>3, <2>1, <2>4, <2>5
<1>8. ASSUME NEW k \in Conns, SocketError(k) PROVE Good /\ (pc'[c] = "begun" => pc[c] = "begun")
  BY <1>8 DEF SocketError, Waiting, TypeOK
<1>9. \/ Good /\ (pc'[c] = "begun" => pc[c] = "begun")
      \/ \E k \in Conns : Deliver(k) /\ Good /\ (pc'[c] = "begun" => pc[c] = "begun" \/ Read(k))
  <2> HIDE DEF Good, Read
  <2> QED
    BY <1>1, <1>3, <1>4, <1>5, <1>6, <1>7, <1>8
    DEF Next, Calling, Continue, End, PoolEnded, Execute, SessionEnds, Drop, vars
<1> QED
  BY <1>9

\* A transaction only ever takes the writes of calls on its own connection.
LEMMA NextPendingOwned ==
  ASSUME StageInv, NoEffectBeforeBegin, PendingOwned, [Next]_vars
  PROVE  PendingOwned'
<1> SUFFICES ASSUME NEW k \in Conns, NEW c \in Calls, c \in db'[k].pending PROVE on'[c] = k
  <2>1. StageInv'
    BY NextStageInv
  <2>2. \A k \in Conns : db'[k].pending \subseteq Calls
    BY <2>1 DEF StageInv, TypeOK, Session
  <2> QED
    BY <2>2 DEF PendingOwned
<1>1. ASSUME c \in db[k].pending PROVE on'[c] = k
  <2>1. pc[c] # "idle" /\ on[c] = k
    BY <1>1 DEF NoEffectBeforeBegin, PendingOwned
  <2> QED
    BY <2>1, CallsGoOn
<1>2. ASSUME NEW result \in Result, NEW writes \in BOOLEAN, NEW j \in Conns,
             Execute(j, result, writes), c \notin db[k].pending
      PROVE  on'[c] = k
  <2> DEFINE h == Head(conn[j].wire)
  <2>1. k = j /\ h.op = "QUERY" /\ h.call = c /\ Asks(conn[j], h.op, h.call)
    BY <1>2, ExecuteWrites DEF StageInv
  <2>2. on[c] = k
    BY <2>1 DEF StageInv, Staged
  <2> QED
    BY <1>2, <2>2 DEF Execute
<1> QED
  BY <1>1, <1>2, OnlyExecuteWrites DEF StageInv

\* A COMMIT on the wire stays that of a call that succeeded on its connection.
LEMMA NextCommitsOwned ==
  ASSUME StageInv, CommitsOwned, [Next]_vars
  PROVE  CommitsOwned'
<1> SUFFICES ASSUME NEW k \in Conns
             PROVE  \A i \in DOMAIN conn'[k].wire :
                      LET cmd == conn'[k].wire[i] IN
                        cmd.op = "COMMIT" => on'[cmd.call] = k /\ pc'[cmd.call] = "ok"
  BY DEF CommitsOwned
<1>0. conn[k] \in Endpoint /\ conn[k].wire \in Seq(Command)
  BY EndpointFields DEF StageInv, TypeOK
<1> DEFINE Owned(cmd) == cmd.op = "COMMIT" => on'[cmd.call] = k /\ pc'[cmd.call] = "ok"
           Fine == \A i \in DOMAIN conn'[k].wire : Owned(conn'[k].wire[i])
<1>1. \A i \in DOMAIN conn[k].wire : Owned(conn[k].wire[i])
  <2> SUFFICES ASSUME NEW i \in DOMAIN conn[k].wire, conn[k].wire[i].op = "COMMIT"
               PROVE  on'[conn[k].wire[i].call] = k /\ pc'[conn[k].wire[i].call] = "ok"
    OBVIOUS
  <2> DEFINE d == conn[k].wire[i].call
  <2>1. conn[k].wire[i] \in Command
    BY <1>0
  <2>2. d \in Calls
    BY <2>1 DEF Command
  <2>3. on[d] = k /\ pc[d] = "ok"
    BY DEF CommitsOwned
  <2> HIDE DEF d
  <2>4. on'[d] = k /\ pc'[d] = "ok"
    BY <2>2, <2>3, CallsGoOn
  <2> QED
    BY <2>4 DEF d
<1> HIDE DEF Owned
<1>2. ASSUME conn'[k].wire = conn[k].wire PROVE Fine
  BY <1>1, <1>2
<1>3. ASSUME conn'[k].wire = <<>> PROVE Fine
  <2>1. DOMAIN <<>> = {}
    OBVIOUS
  <2> QED
    BY <1>3, <2>1
<1>4. ASSUME NEW op \in Op, NEW d \in Calls, Issuer(op, d, k),
             conn'[k].wire = Append(conn[k].wire, [op |-> op, call |-> d])
      PROVE  Fine
  <2> DEFINE cmd == [op |-> op, call |-> d]
  <2>1. Owned(cmd)
    <3>1. op = "COMMIT" => on'[d] = k /\ pc'[d] = "ok"
      BY <1>4 DEF Issuer, Succeeds, StageInv, TypeOK
    <3> QED
      BY <3>1 DEF Owned
  <2>2. \A q \in Seq(Command) : \A x : \A i \in DOMAIN Append(q, x) :
          (i \in DOMAIN q /\ Append(q, x)[i] = q[i]) \/ Append(q, x)[i] = x
    OBVIOUS
  <2>3. conn'[k].wire = Append(conn[k].wire, cmd)
    BY <1>4
  <2> HIDE DEF cmd
  <2> QED
    BY <1>0, <1>1, <2>1, <2>2, <2>3
<1> HIDE DEF Fine
<1>5. ASSUME Writes(k) PROVE Fine
  BY <1>2, <1>4, <1>5 DEF Writes
<1>6. ASSUME NEW d \in Calls, Connected(d), on[d] = k PROVE Fine
  BY <1>3, <1>6, FreshConnection
<1>7. ASSUME Deliver(k) PROVE Fine
  <2>1. conn'[k] = receivePacket(conn[k]) /\ conn[k].replies # <<>>
    BY <1>7 DEF Deliver, StageInv, TypeOK
  <2>2. conn'[k].wire = conn[k].wire
    BY <1>0, <2>1, ReceivePacketAsks
  <2> QED
    BY <1>2, <2>2
<1>8. ASSUME SocketError(k) PROVE Fine
  <2>1. conn'[k] = fatalError(conn[k])
    BY <1>8 DEF SocketError, StageInv, TypeOK
  <2>2. conn'[k].wire = <<>>
    BY <1>0, <2>1, ClosingAsks
  <2> QED
    BY <1>3, <2>2
<1>9. ASSUME NEW result \in Result, NEW writes \in BOOLEAN, Execute(k, result, writes)
      PROVE  Fine
  <2>1. conn[k].wire # <<>> /\ \E s : conn'[k] = Answered(conn[k], result, s)
    BY <1>9 DEF Execute, StageInv, TypeOK
  <2>2. conn'[k].wire = Tail(conn[k].wire)
    BY <1>0, <2>1 DEF Answered, Endpoint
  <2>3. \A q \in Seq(Command) : q # <<>> =>
          \A i \in DOMAIN Tail(q) : i + 1 \in DOMAIN q /\ Tail(q)[i] = q[i + 1]
    OBVIOUS
  <2> QED
    BY <1>0, <1>1, <2>1, <2>2, <2>3 DEF Fine
<1>10. ASSUME SessionEnds(k) \/ Drop(k) PROVE Fine
  BY <1>2, <1>10 DEF SessionEnds, Drop
<1>11. Fine
  BY <1>5, <1>6, <1>7, <1>8, <1>9, <1>10, ConnSteps
<1> QED
  BY <1>11 DEF Fine, Owned

\* Of a call that has its connection to itself, the server only ever executes
\* its own commands, and the ROLLBACK of whoever ends the stub.
LEMMA AloneExecutes ==
  ASSUME StageInv, CommitsOwned, NEW c \in Calls, Alone(c), NEW k \in Conns, on[c] = k,
         NEW result \in Result, NEW writes \in BOOLEAN, Execute(k, result, writes)
  PROVE  LET h == Head(conn[k].wire) IN
         /\ h \in Command /\ h = conn[k].wire[1] /\ conn[k].wire # <<>>
         /\ conn'[k].wire = Tail(conn[k].wire)
         /\ \/ h.op = "ROLLBACK"
            \/ h.op = "BEGIN" /\ h.call = c /\ pc[c] = "beginning"
            \/ h.op = "QUERY" /\ h.call = c /\ pc[c] = "querying"
            \/ h.op = "COMMIT" /\ h.call = c /\ pc[c] = "ok"
<1> DEFINE h == Head(conn[k].wire)
<1>1. conn[k] \in Endpoint /\ conn[k].wire \in Seq(Command) /\ conn[k].wire # <<>>
  BY EndpointFields DEF StageInv, TypeOK, Execute
<1>2. h \in Command /\ h = conn[k].wire[1] /\ 1 \in DOMAIN conn[k].wire
  BY <1>1, TailFacts
<1>3. Asks(conn[k], h.op, h.call) /\ h.call \in Calls /\ h.op \in Op
  BY <1>2 DEF Asks, Command
<1>4. \E s : conn'[k] = Answered(conn[k], result, s)
  BY DEF Execute, StageInv, TypeOK
<1>5. conn'[k].wire = Tail(conn[k].wire)
  BY <1>1, <1>4 DEF Answered, Endpoint
<1>6. /\ h.op = "BEGIN" => on[h.call] = k /\ pc[h.call] = "beginning"
      /\ h.op = "QUERY" => on[h.call] = k /\ pc[h.call] = "querying"
      /\ h.op = "COMMIT" => on[h.call] = k /\ pc[h.call] = "ok"
  BY <1>2, <1>3 DEF StageInv, Staged, CommitsOwned
<1> HIDE DEF h
<1>7. on[h.call] = k /\ pc[h.call] \in {"beginning", "querying", "ok"} => h.call = c
  BY <1>3 DEF Alone, Unsent
<1> QED
  BY <1>1, <1>2, <1>3, <1>5, <1>6, <1>7 DEF Op, h

\* A step that neither answers the START TRANSACTION of c nor writes its
\* statement nor runs anything on k leaves c in its transaction.
LEMMA NextInTransaction ==
  ASSUME StageInv, CommitsOwned, [Next]_vars,
         NEW c \in Calls, Alone(c), pc[c] # "idle",
         NEW k \in Conns, on[c] = k, InTransaction(c, k),
         isValid(conn[k]) => \A d \in Calls : ~Asks(conn[k], "ROLLBACK", d)
  PROVE  InTransaction(c, k)'
<1> DEFINE n == conn[k]
           QueryIn(w, tx) ==
             \A i \in DOMAIN w : w[i].op = "QUERY" /\ w[i].call = c =>
               /\ tx
               /\ \A j \in DOMAIN w : j < i => w[j].op # "ROLLBACK"
           BegunIn(r, tx) == \A i \in DOMAIN r : r[i].op = "BEGIN" /\ r[i].call = c => tx
<1>0. /\ n \in Endpoint /\ n.wire \in Seq(Command) /\ n.replies \in Seq(Reply)
      /\ db[k] \in Session
  BY EndpointFields DEF StageInv, TypeOK
<1>1. SUFFICES ASSUME db'[k].state = "open"
               PROVE  /\ QueryIn(conn'[k].wire, db'[k].tx)
                      /\ isValid(conn'[k]) => /\ pc'[c] = "begun" => db'[k].tx
                                              /\ BegunIn(conn'[k].replies, db'[k].tx)
  BY DEF InTransaction
<1>2. db[k].state = "open" =>
        /\ QueryIn(n.wire, db[k].tx)
        /\ isValid(n) => /\ pc[c] = "begun" => db[k].tx
                         /\ BegunIn(n.replies, db[k].tx)
  BY DEF InTransaction
<1>3. isValid(n) => \A i \in DOMAIN n.wire : n.wire[i].op # "ROLLBACK"
  <2>1. \A x \in Command : x.call \in Calls
    BY DEF Command
  <2>2. \A i \in DOMAIN n.wire : n.wire[i] \in Command
    BY <1>0
  <2> QED
    BY <2>1, <2>2 DEF Asks
<1>4. ASSUME Deliver(k)
      PROVE  /\ QueryIn(conn'[k].wire, db'[k].tx)
             /\ isValid(conn'[k]) => /\ pc'[c] = "begun" => db'[k].tx
                                     /\ BegunIn(conn'[k].replies, db'[k].tx)
  <2>1. db' = db /\ isValid(n) /\ n.replies # <<>> /\ conn'[k] = receivePacket(n)
    BY <1>4 DEF Deliver, StageInv, TypeOK
  <2>2. conn'[k].wire = n.wire /\ conn'[k].replies = Tail(n.replies)
    BY <1>0, <2>1, ReceivePacketAsks
  <2>3. QueryIn(n.wire, db[k].tx) /\ (pc[c] = "begun" => db[k].tx) /\ BegunIn(n.replies, db[k].tx)
    BY <1>1, <1>2, <2>1
  <2>4. Head(n.replies) = n.replies[1] /\ 1 \in DOMAIN n.replies
    BY <1>0, <2>1, TailFacts
  <2>5. \A i \in DOMAIN Tail(n.replies) :
          i + 1 \in DOMAIN n.replies /\ Tail(n.replies)[i] = n.replies[i + 1]
    BY <1>0, <2>1, TailFacts
  <2>6. pc'[c] = "begun" => db[k].tx
    <3>1. CASE pc[c] = "begun"
      BY <2>3, <3>1
    <3>2. ASSUME Head(n.replies).op = "BEGIN", Head(n.replies).call = c PROVE db[k].tx
      BY <2>3, <2>4, <3>2
    <3> QED
      BY <3>1, <3>2, CallsGoOn
  <2>7. BegunIn(Tail(n.replies), db[k].tx)
    BY <2>3, <2>5
  <2> QED
    BY <2>1, <2>2, <2>3, <2>6, <2>7
<1>5. ASSUME ~Deliver(k) PROVE pc'[c] = "begun" => pc[c] = "begun"
  BY <1>5, CallsGoOn
<1>6. ASSUME Writes(k), ~Deliver(k)
      PROVE  /\ QueryIn(conn'[k].wire, db'[k].tx)
             /\ isValid(conn'[k]) => /\ pc'[c] = "begun" => db'[k].tx
                                     /\ BegunIn(conn'[k].replies, db'[k].tx)
  <2>1. db'[k] = db[k]
    BY <1>6 DEF Writes
  <2>2. isValid(conn'[k]) => isValid(n) /\ conn'[k].replies = n.replies
    BY <1>6, WritesKeeps
  <2>3. ASSUME NEW op \in Op, NEW d \in Calls, Issuer(op, d, k),
               conn'[k].wire = Append(n.wire, [op |-> op, call |-> d])
        PROVE  QueryIn(conn'[k].wire, db'[k].tx)
    <3> DEFINE cmd == [op |-> op, call |-> d]
               w == n.wire
    <3>1. op = "QUERY" /\ d = c => db[k].tx /\ \A j \in DOMAIN w : w[j].op # "ROLLBACK"
      <4> SUFFICES ASSUME op = "QUERY", d = c
                   PROVE  db[k].tx /\ \A j \in DOMAIN w : w[j].op # "ROLLBACK"
        OBVIOUS
      <4>1. proc = "running" /\ pc[c] = "begun"
        BY <2>3 DEF Issuer, Begun, Resumes
      <4>2. isValid(n)
        BY <4>1 DEF StageInv, ReadyIsLive
      <4> QED
        BY <1>1, <1>2, <1>3, <2>1, <4>1, <4>2
    <3>2. \A q \in Seq(Command) : \A x :
            /\ DOMAIN Append(q, x) = 1..(Len(q) + 1) /\ DOMAIN q = 1..Len(q) /\ Len(q) \in Nat
            /\ Append(q, x)[Len(q) + 1] = x
            /\ \A i \in DOMAIN q : Append(q, x)[i] = q[i]
      OBVIOUS
    <3>3. QueryIn(w, db[k].tx)
      BY <1>1, <1>2, <2>1
    <3>4. cmd.op = op /\ cmd.call = d
      OBVIOUS
    <3>5. w \in Seq(Command) /\ conn'[k].wire = Append(w, cmd)
      BY <1>0, <2>3
    <3> HIDE DEF cmd, w
    <3>6. QueryIn(Append(w, cmd), db[k].tx)
      <4> SUFFICES ASSUME NEW i \in DOMAIN Append(w, cmd),
                          Append(w, cmd)[i].op = "QUERY", Append(w, cmd)[i].call = c
                   PROVE  /\ db[k].tx
                          /\ \A j \in DOMAIN Append(w, cmd) :
                               j < i => Append(w, cmd)[j].op # "ROLLBACK"
        OBVIOUS
      <4>1. /\ DOMAIN Append(w, cmd) = 1..(Len(w) + 1) /\ DOMAIN w = 1..Len(w) /\ Len(w) \in Nat
            /\ Append(w, cmd)[Len(w) + 1] = cmd
            /\ \A j \in DOMAIN w : Append(w, cmd)[j] = w[j]
        BY <3>2, <3>5
      <4>2. \A j \in DOMAIN Append(w, cmd) : j < i => j \in DOMAIN w
        BY <4>1
      <4>3. CASE i \in DOMAIN w
        BY <3>3, <4>1, <4>2, <4>3
      <4>4. CASE i = Len(w) + 1
        BY <3>1, <3>4, <4>1, <4>2, <4>4
      <4> QED
        BY <4>1, <4>3, <4>4
    <3> QED
      BY <2>1, <3>5, <3>6
  <2>4. QueryIn(conn'[k].wire, db'[k].tx)
    <3>1. CASE conn'[k].wire = n.wire
      BY <1>1, <1>2, <2>1, <3>1
    <3> HIDE DEF QueryIn
    <3> QED
      BY <1>6, <2>3, <3>1 DEF Writes
  <2> QED
    BY <1>1, <1>2, <1>5, <1>6, <2>1, <2>2, <2>4
<1>7. ASSUME NEW d \in Calls, Connected(d), on[d] = k, ~Deliver(k)
      PROVE  /\ QueryIn(conn'[k].wire, db'[k].tx)
             /\ isValid(conn'[k]) => /\ pc'[c] = "begun" => db'[k].tx
                                     /\ BegunIn(conn'[k].replies, db'[k].tx)
  <2>1. conn'[k].wire = <<>> /\ conn'[k].replies = <<>> /\ n.status = "connecting"
    BY <1>7, FreshConnection
  <2>2. proc = "running"
    BY <1>7 DEF Connected, Quiet, Idle
  <2>3. pc'[c] # "begun"
    BY <1>5, <1>7, <2>1, <2>2 DEF StageInv, ReadyIsLive, isValid
  <2>4. DOMAIN <<>> = {}
    OBVIOUS
  <2> QED
    BY <2>1, <2>3, <2>4
<1>8. ASSUME NEW result \in Result, NEW writes \in BOOLEAN, Execute(k, result, writes), ~Deliver(k)
      PROVE  /\ QueryIn(conn'[k].wire, db'[k].tx)
             /\ isValid(conn'[k]) => /\ pc'[c] = "begun" => db'[k].tx
                                     /\ BegunIn(conn'[k].replies, db'[k].tx)
  <2> DEFINE h == Head(n.wire)
             s == Executed(db[k], h, result, writes)
             r == [op |-> h.op, call |-> h.call, result |-> result, tx |-> s.tx]
  <2>1. /\ n.wire # <<>> /\ pc' = pc
        /\ db'[k] = s /\ s \in Session /\ conn'[k] = Answered(n, result, s.tx)
    BY <1>0, <1>8, ExecuteType DEF Execute, StageInv, TypeOK
  <2>2. /\ h \in Command /\ h = n.wire[1]
        /\ \/ h.op = "ROLLBACK"
           \/ h.op = "BEGIN" /\ h.call = c /\ pc[c] = "beginning"
           \/ h.op = "QUERY" /\ h.call = c /\ pc[c] = "querying"
           \/ h.op = "COMMIT" /\ h.call = c /\ pc[c] = "ok"
    BY <1>8, AloneExecutes
  <2>3. 1 \in DOMAIN n.wire
    BY <1>0, <2>1, TailFacts
  <2>4. \A i \in DOMAIN Tail(n.wire) :
          i \in Nat /\ i + 1 \in DOMAIN n.wire /\ Tail(n.wire)[i] = n.wire[i + 1] /\ 1 < i + 1
    <3>1. \A q \in Seq(Command) : q # <<>> =>
            \A i \in DOMAIN Tail(q) :
              i \in Nat /\ i + 1 \in DOMAIN q /\ Tail(q)[i] = q[i + 1] /\ 1 < i + 1
      OBVIOUS
    <3> QED
      BY <1>0, <2>1, <3>1
  <2>5. /\ conn'[k].status = n.status /\ conn'[k].wire = Tail(n.wire)
        /\ isValid(n) => conn'[k].replies = Append(n.replies, r)
    <3>1. s.tx \in BOOLEAN
      BY <2>1 DEF Session
    <3> HIDE DEF s
    <3> QED
      BY <1>0, <2>1, <3>1, AnsweredAsks
  <2>6. h.op = "BEGIN" => s.tx
    BY <1>0, <2>1 DEF Executed, Session
  <2>7. r.op = h.op /\ r.call = h.call
    OBVIOUS
  <2>8. isValid(n) => h.op # "ROLLBACK"
    BY <1>3, <2>2, <2>3
  <2> HIDE DEF s, h, r
  <2>9. QueryIn(Tail(n.wire), s.tx)
    <3> SUFFICES ASSUME NEW i \in DOMAIN Tail(n.wire),
                        Tail(n.wire)[i].op = "QUERY", Tail(n.wire)[i].call = c
                 PROVE  FALSE
      OBVIOUS
    <3>1. i + 1 \in DOMAIN n.wire /\ n.wire[i + 1].op = "QUERY" /\ n.wire[i + 1].call = c
          /\ 1 < i + 1 /\ 1 # i + 1
      BY <2>4
    <3>2. h.op # "ROLLBACK"
      <4>1. db[k].state = "open"
        BY <1>8 DEF Execute
      <4>2. QueryIn(n.wire, db[k].tx)
        BY <1>2, <4>1
      <4> QED
        BY <2>2, <2>3, <3>1, <4>2
    <3>3. pc[c] = "querying"
      BY <3>1 DEF StageInv, Staged, Asks
    <3>4. h.op = "QUERY" /\ h.call = c
      BY <2>2, <3>2, <3>3
    <3>5. SameStep(n.wire[1], n.wire[i + 1])
      BY <2>2, <3>1, <3>4 DEF SameStep, StepOp
    <3> QED
      BY <2>3, <3>1, <3>5 DEF StageInv, OnceEach, Once
  <2>10. isValid(n) /\ pc[c] = "begun" => FALSE
    BY <2>2, <2>8
  <2>11. ASSUME isValid(n) PROVE BegunIn(Append(n.replies, r), s.tx)
    <3>1. \A i \in DOMAIN n.replies :
            n.replies[i].op = "BEGIN" /\ n.replies[i].call = c => pc[c] = "beginning"
      BY DEF StageInv, Staged, Asks
    <3>2. pc[c] = "beginning" => s.tx
      BY <2>2, <2>6, <2>8, <2>11
    <3>3. \A q \in Seq(Reply) : \A x : \A i \in DOMAIN Append(q, x) :
            (i \in DOMAIN q /\ Append(q, x)[i] = q[i]) \/ Append(q, x)[i] = x
      OBVIOUS
    <3>4. r.op = "BEGIN" => s.tx
      BY <2>6, <2>7
    <3> QED
      BY <1>0, <3>1, <3>2, <3>3, <3>4
  <2>12. QueryIn(conn'[k].wire, db'[k].tx)
    BY <2>1, <2>5, <2>9
  <2>13. isValid(conn'[k]) => isValid(n)
    BY <2>5 DEF isValid
  <2>14. isValid(n) => BegunIn(conn'[k].replies, db'[k].tx)
    BY <2>1, <2>5, <2>11
  <2> QED
    BY <2>1, <2>10, <2>12, <2>13, <2>14
<1>9. ASSUME SocketError(k) PROVE FALSE
  BY <1>1, <1>9 DEF SocketError
<1>10. ASSUME SessionEnds(k) \/ Drop(k) PROVE FALSE
  <2>1. db'[k] = Over(db[k], "ended") \/ db'[k] = Over(db[k], "dropped")
    BY <1>10 DEF SessionEnds, Drop, StageInv, TypeOK
  <2> QED
    BY <1>0, <1>1, <2>1 DEF Over, Session
<1> HIDE DEF QueryIn, BegunIn, n
<1> QED
  BY <1>4, <1>6, <1>7, <1>8, <1>9, <1>10, ConnSteps

\* Nothing of a call that has its connection to itself is saved before it has
\* succeeded: no START TRANSACTION or COMMIT of another call comes upon its
\* writes, and its own statement never runs outside its transaction.
LEMMA AloneUnsaved ==
  ASSUME StageInv, NoEffectBeforeBegin, PendingOwned, CommitsOwned, [Next]_vars,
         NEW c \in Calls, Alone(c), pc[c] # "ok", c \notin durable,
         \A k \in Conns : on[c] = k => InTransaction(c, k)
  PROVE  c \notin durable'
<1> SUFFICES ASSUME c \in durable' PROVE FALSE
  OBVIOUS
<1>1. \E result \in Result, writes \in BOOLEAN, k \in Conns : Execute(k, result, writes)
  BY OnlyExecuteWrites DEF StageInv
<1>2. PICK result \in Result, writes \in BOOLEAN, k \in Conns : Execute(k, result, writes)
  BY <1>1
<1> DEFINE h == Head(conn[k].wire)
<1>3. /\ h \in Command /\ Asks(conn[k], h.op, h.call)
      /\ c \in db[k].pending \/ (h.op = "QUERY" /\ h.call = c)
  BY <1>2, ExecuteWrites DEF StageInv
<1>4. on[c] = k
  BY <1>3 DEF PendingOwned, StageInv, Staged
<1>5. /\ h = conn[k].wire[1] /\ conn[k].wire # <<>>
      /\ \/ h.op = "ROLLBACK"
         \/ h.op = "BEGIN" /\ h.call = c /\ pc[c] = "beginning"
         \/ h.op = "QUERY" /\ h.call = c /\ pc[c] = "querying"
         \/ h.op = "COMMIT" /\ h.call = c /\ pc[c] = "ok"
  BY <1>2, <1>4, AloneExecutes
<1>6. db[k].state = "open" /\ c \in Persisted(db[k], h, writes)
  BY <1>2 DEF Execute
<1>7. 1 \in DOMAIN conn[k].wire
  <2>1. conn[k].wire \in Seq(Command)
    BY EndpointFields DEF StageInv, TypeOK
  <2> QED
    BY <1>5, <2>1, TailFacts
<1>8. h.op = "QUERY" /\ h.call = c => db[k].tx
  BY <1>4, <1>5, <1>6, <1>7 DEF InTransaction
<1>9. pc[c] = "beginning" => c \notin db[k].pending
  BY DEF NoEffectBeforeBegin
<1> HIDE DEF h
<1> QED
  BY <1>5, <1>6, <1>8, <1>9 DEF Persisted

\* Every step keeps what a call with its connection to itself relies on.  One
\* that undid others has run its own statement long before.
LEMMA NextAloneInv ==
  ASSUME StageInv, UndoersKnown, NoEffectBeforeBegin,
         PendingOwned, CommitsOwned, AloneInv, [Next]_vars
  PROVE  AloneInv'
<1>1. StageInv' /\ NoEffectBeforeBegin'
  BY NextStageInv, NextNoEffect
<1> SUFFICES ASSUME NEW c \in Calls, Alone(c)', Unhurt(c)'
             PROVE  /\ \A k \in Conns : on'[c] = k => InTransaction(c, k)'
                    /\ pc'[c] # "ok" => c \notin durable'
  BY DEF AloneInv
<1>2. CASE pc'[c] \in Unsent
  <2>1. \A k \in Conns : /\ ~Asks(conn'[k], "QUERY", c) /\ ~Asks(conn'[k], "BEGIN", c)
                         /\ pc'[c] # "begun"
    BY <1>1, <1>2 DEF StageInv, Staged, Unsent
  <2>2. \A k \in Conns : InTransaction(c, k)'
    BY <2>1 DEF InTransaction, Asks
  <2>3. c \notin durable'
    BY <1>1, <1>2 DEF NoEffectBeforeBegin, Unsent
  <2> QED
    BY <2>2, <2>3
<1>3. CASE pc'[c] \notin Unsent
  <2>1. pc[c] # "idle" /\ on'[c] = on[c] /\ (pc[c] = "ok" => pc'[c] = "ok")
    BY <1>3, CallsGoOn
  <2>2. Alone(c)
    <3> SUFFICES ASSUME NEW d \in Calls \ {c}, on[d] = on[c], pc[d] # "idle"
                 PROVE  pc[d] \in Unsent
      BY DEF Alone, Unsent
    <3>1. on'[d] = on[d] /\ (pc'[d] \in Unsent => pc[d] \in Unsent)
      BY CallsGoOn
    <3> QED
      BY <2>1, <3>1 DEF Alone
  <2>3. Unhurt(c)
    BY <2>1, UndidStays DEF Unhurt
  <2>4. /\ \A k \in Conns : on[c] = k => InTransaction(c, k)
        /\ pc[c] # "ok" => c \notin durable
    BY <2>3, <2>2 DEF AloneInv
  <2>5. ASSUME NEW k \in Conns, on'[c] = k PROVE InTransaction(c, k)'
    <3>1. on[c] = k /\ InTransaction(c, k)
      BY <2>1, <2>4, <2>5
    <3>2. CASE ~Undid(c, k)
      <4>1. isValid(conn[k]) => \A d \in Calls : ~Asks(conn[k], "ROLLBACK", d)
        BY <2>3, <3>1, <3>2 DEF UndoersKnown, Unhurt
      <4> QED
        BY <2>1, <2>2, <3>1, <4>1, NextInTransaction
    <3>3. CASE Undid(c, k)
      <4>2. pc'[c] = "swallowed"
        BY <3>3, FailedSteps DEF Undid
      <4>3. ~Asks(conn'[k], "QUERY", c) /\ ~Asks(conn'[k], "BEGIN", c)
        BY <1>1, <4>2 DEF StageInv, Staged
      <4> QED
        BY <4>2, <4>3 DEF InTransaction, Asks
    <3> QED
      BY <3>2, <3>3
  <2>6. pc'[c] # "ok" => c \notin durable'
    BY <2>1, <2>2, <2>4, AloneUnsaved
  <2> QED
    BY <2>5, <2>6
<1> QED
  BY <1>2, <1>3

-----------------------------------------------------------------------------
(* The stub in an offline program.                                          *)

\* stop() takes a step of the stub or none, and the exit of the process only
\* stops what the program would have done.
LEMMA OfflineSteps ==
  ASSUME [OfflineNext]_offlineVars
  PROVE  [Next]_vars \/ Exit
BY DEF OfflineNext, offlineVars, stop, Next, vars

\* Nothing the invariants say of the stub and the database changes at the exit.
LEMMA ExitKeeps ==
  ASSUME Exit
  PROVE  /\ StageInv => StageInv'
         /\ NoEffectBeforeBegin => NoEffectBeforeBegin'
         /\ CrashOnlyOnLoss'
         /\ DurableInv => DurableInv'
         /\ UndoersKnown => UndoersKnown'
         /\ PendingOwned => PendingOwned'
         /\ CommitsOwned => CommitsOwned'
         /\ AloneInv => AloneInv'
         /\ opt' = opt
<1>1. /\ proc' = "exited"
      /\ opt' = opt /\ stub' = stub /\ pool' = pool /\ closed' = closed /\ pc' = pc
      /\ mode' = mode /\ on' = on /\ fault' = fault /\ reading' = reading
      /\ conn' = conn /\ db' = db /\ durable' = durable
  BY DEF Exit, stubVars
<1>2. TypeOK => TypeOK'
  BY <1>1 DEF TypeOK
<1>3. (Staged => Staged') /\ (OnceEach => OnceEach')
  BY <1>1 DEF Staged, OnceEach
<1>4. Attached => Attached'
  BY <1>1 DEF Attached
<1>5. ReadyIsLive' /\ CrashOnlyOnLoss' /\ WrittenBeforeOk'
  BY <1>1 DEF ReadyIsLive, CrashOnlyOnLoss, WrittenBeforeOk
<1>6. StageInv => StageInv'
  BY <1>2, <1>3, <1>4, <1>5 DEF StageInv
<1>7. /\ NoEffectBeforeBegin => NoEffectBeforeBegin'
      /\ UndoersKnown => UndoersKnown'
  BY <1>1 DEF NoEffectBeforeBegin, UndoersKnown, Undid
<1>8. TxMirrored => TxMirrored'
  BY <1>1 DEF TxMirrored
<1>9. OkOnConnection => OkOnConnection'
  BY <1>1 DEF OkOnConnection
<1>10. \A k : /\ \A d \in Calls : Undid(d, k)' <=> Undid(d, k)
              /\ UndoneOn(k)' <=> UndoneOn(k)
  BY <1>1 DEF Undid, UndoneOn
<1>11. \A k \in Conns \cup {None} : DeadlockOn(k) => DeadlockOn(k)'
  BY <1>1 DEF DeadlockOn, Struck
<1>12. OkOnConnection /\ SuccessKept => SuccessKept'
  BY <1>1, <1>10, <1>11 DEF OkOnConnection, SuccessKept, CommitComing, DeadlockOn, UndoneOn, Undid
<1>13. DurableInv => DurableInv'
  BY <1>5, <1>6, <1>7, <1>8, <1>9, <1>12 DEF DurableInv
<1>14. /\ PendingOwned => PendingOwned'
       /\ CommitsOwned => CommitsOwned'
  BY <1>1 DEF PendingOwned, CommitsOwned
<1>15. \A c \in Calls, k \in Conns : InTransaction(c, k) => InTransaction(c, k)'
  BY <1>1 DEF InTransaction
<1>16. \A c \in Calls : (Alone(c)' => Alone(c)) /\ (Unhurt(c)' => Unhurt(c))
  BY <1>1, <1>10 DEF Alone, Unhurt
<1>17. AloneInv => AloneInv'
  BY <1>1, <1>15, <1>16 DEF AloneInv
<1> QED
  BY <1>1, <1>5, <1>6, <1>7, <1>13, <1>14, <1>17

\* However an offline program ends its stub and exits: a call has no effect
\* before its START TRANSACTION was answered.
THEOREM OfflineNoEffect == OfflineSpec => []NoEffectBeforeBegin
<1> DEFINE Inv == StageInv /\ NoEffectBeforeBegin
<1>1. OfflineInit => Inv
  BY InitStageInv DEF OfflineInit, Init, NoEffectBeforeBegin, NewSession
<1>2. Inv /\ [OfflineNext]_offlineVars => Inv'
  BY OfflineSteps, ExitKeeps, NextStageInv, NextNoEffect
<1> QED
  BY <1>1, <1>2, PTL DEF OfflineSpec

\* stop(), whatever it interrupts, never makes the process crash: only a lost
\* connection does.
THEOREM OfflineCrashesOnlyOnLoss == OfflineSpec => []CrashOnlyOnLoss
<1> DEFINE Inv == StageInv /\ CrashOnlyOnLoss
<1>1. OfflineInit => Inv
  BY InitStageInv DEF OfflineInit, Init, CrashOnlyOnLoss
<1>2. Inv /\ [OfflineNext]_offlineVars => Inv'
  <2> SUFFICES ASSUME Inv, [OfflineNext]_offlineVars PROVE Inv'
    OBVIOUS
  <2>1. CASE Exit
    BY <2>1, ExitKeeps
  <2>2. ASSUME [Next]_vars PROVE Inv'
    <3>1. CrashOnlyOnLoss'
      BY <2>2, NextCrashOnlyOnLoss
    <3> QED
      BY <2>2, <3>1, NextStageInv
  <2> QED
    BY <2>1, <2>2, OfflineSteps
<1> QED
  BY <1>1, <1>2, PTL DEF OfflineSpec

\* What keeps successes in the stub keeps them in an offline program: after the
\* exit the server still executes what was written to it.
LEMMA OfflineDurableInv ==
  /\ OfflineInit => DurableInv
  /\ DurableInv /\ [OfflineNext]_offlineVars => DurableInv'
<1>1. OfflineInit => DurableInv
  BY InitDurableInv DEF OfflineInit
<1>2. DurableInv /\ [OfflineNext]_offlineVars => DurableInv'
  BY OfflineSteps, ExitKeeps, NextDurableInv
<1> QED
  BY <1>1, <1>2

\* An offline program loses no call that was reported successful, however its
\* stub is used and ended and whenever it exits, except for a lost connection,
\* a deadlock of another call there or, with a pool, another call's failure.
THEOREM OfflineKept == OfflineSpec => []SuccessKept
<1>1. DurableInv => SuccessKept
  BY DEF DurableInv
<1> QED
  BY <1>1, OfflineDurableInv, PTL DEF OfflineSpec

\* Without a pool and without deadlocks, exiting a second after stop(), before
\* or after any answer, loses no call that was reported successful.
THEOREM OfflineSuccess ==
  ASSUME \A o \in Options : ~o.pooled, "deadlock" \notin Faults
  PROVE  OfflineSpec => []DurableSuccess
<1> DEFINE Inv == DurableInv /\ ~opt.pooled
<1>1. OfflineInit => Inv
  BY OfflineDurableInv, UnpooledStays DEF OfflineInit
<1>2. Inv /\ [OfflineNext]_offlineVars => Inv'
  <2>1. ~opt.pooled /\ [OfflineNext]_offlineVars => ~opt'.pooled
    BY OfflineSteps, ExitKeeps, UnpooledStays
  <2> QED
    BY <2>1, OfflineDurableInv
<1>3. Inv => DurableSuccess
  BY KeptIsDurable DEF DurableInv
<1> QED
  BY <1>1, <1>2, <1>3, PTL DEF OfflineSpec

\* Of a call that failed, neither stop() nor the exit ever saves anything: what
\* is saved of it another call on its connection committed, or another call's
\* failure left outside a transaction.  Pools, deadlocks, lost connections and
\* statements that fail half-way included.
THEOREM OfflinePartial == OfflineSpec => []PartialOnlyByAnother
<1> DEFINE Inv == /\ StageInv /\ UndoersKnown /\ NoEffectBeforeBegin
                  /\ PendingOwned /\ CommitsOwned /\ AloneInv
<1>1. OfflineInit => Inv
  <2> SUFFICES ASSUME OfflineInit PROVE Inv
    OBVIOUS
  <2>1. /\ \A k \in Conns : conn[k] = NewEndpoint /\ db[k] = NewSession
        /\ durable = {} /\ \A c \in Calls : pc[c] = "idle"
    BY DEF OfflineInit, Init
  <2>2. StageInv /\ UndoersKnown
    BY <2>1, InitStageInv DEF OfflineInit, UndoersKnown, NewEndpoint, isValid
  <2>3. NoEffectBeforeBegin /\ PendingOwned
    BY <2>1 DEF NoEffectBeforeBegin, PendingOwned, NewSession
  <2>4. DOMAIN <<>> = {}
    OBVIOUS
  <2>5. CommitsOwned
    BY <2>1, <2>4 DEF CommitsOwned, NewEndpoint
  <2>6. AloneInv
    BY <2>1 DEF AloneInv, InTransaction, NewSession
  <2> QED
    BY <2>2, <2>3, <2>5, <2>6
<1>2. Inv /\ [OfflineNext]_offlineVars => Inv'
  <2> SUFFICES ASSUME Inv, [OfflineNext]_offlineVars PROVE Inv'
    OBVIOUS
  <2>1. CASE Exit
    BY <2>1, ExitKeeps
  <2>2. ASSUME [Next]_vars PROVE Inv'
    <3>1. StageInv' /\ NoEffectBeforeBegin'
      BY <2>2, NextStageInv, NextNoEffect
    <3>2. UndoersKnown'
      BY <2>2, NextUndoersKnown
    <3>3. PendingOwned' /\ CommitsOwned' /\ AloneInv'
      BY <2>2, NextPendingOwned, NextCommitsOwned, NextAloneInv
    <3> QED
      BY <3>1, <3>2, <3>3
  <2> QED
    BY <2>1, <2>2, OfflineSteps
<1>3. Inv => PartialOnlyByAnother
  BY DEF AloneInv, Alone, Unhurt, Unsent, PartialOnlyByAnother
<1> QED
  BY <1>1, <1>2, <1>3, PTL DEF OfflineSpec
=============================================================================
