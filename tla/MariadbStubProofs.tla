------------------------- MODULE MariadbStubProofs -------------------------
(***************************************************************************)
(* What MariadbStub guarantees for every number of calls and connections.  *)
(***************************************************************************)
EXTENDS MariadbStub, DriverConnectionProofs

-----------------------------------------------------------------------------
\* Type correctness: the stub, the driver and the server stay within their
\* types whatever the program and the environment do.
LEMMA InitTypeOK == Init => TypeOK
<1> SUFFICES ASSUME Init PROVE TypeOK
  OBVIOUS
<1>1. NewEndpoint \in Endpoint /\ NewSession \in Session
  BY DEF NewEndpoint, NewSession, Endpoint, Session, Status, SessionState
<1> QED
  BY <1>1, EnvironmentAssumption DEF Init, TypeOK

\* Every state of a call is a state the type knows.
LEMMA PcStates ==
  /\ {"idle", "connecting", "checking", "beginning", "begun", "querying", "answered",
      "handling", "erring", "ok", "handled", "swallowed", "rejected", "refused"}
       = {"idle"} \cup InFlight \cup Outcome
  /\ Continuation \subseteq InFlight
BY DEF InFlight, Continuation, Outcome

\* end() of the stub keeps every variable it assigns within its type.
LEMMA EndStubType ==
  ASSUME TypeOK, NEW n \in Endpoint, EndStub(n)
  PROVE  /\ closed' \in BOOLEAN
         /\ stub' \in Conns \cup {None}
         /\ pool' \in {"none", "open", "ending"}
         /\ conn' \in [Conns -> Endpoint]
<1>1. CASE stubValid
  <2>1. end(n) \in Endpoint
    BY ClosingType
  <2> QED
    BY <1>1, <2>1 DEF EndStub, TypeOK
<1>2. CASE ~stubValid
  BY <1>2 DEF EndStub, TypeOK
<1> QED
  BY <1>1, <1>2

\* What end() and the error handler pass on is an endpoint.
LEMMA StubEndpointType ==
  ASSUME TypeOK, NEW c \in Calls
  PROVE  /\ Undo(c) \in Endpoint
         /\ (IF stubValid THEN conn[stub] ELSE NewEndpoint) \in Endpoint
<1>1. NewEndpoint \in Endpoint /\ "ROLLBACK" \in Op
  BY DEF NewEndpoint, Endpoint, Status, Op
<1>2. stubValid => conn[stub] \in Endpoint
  BY DEF stubValid, TypeOK
<1>3. stubValid => changeTransaction(conn[stub], "ROLLBACK", c) \in Endpoint
  BY <1>1, <1>2, ChangeTransactionType
<1> QED
  BY <1>1, <1>2, <1>3 DEF Undo

\* Writing a command, or refusing it, keeps the types.
LEMMA IssueType ==
  ASSUME TypeOK, NEW c \in Calls, NEW op \in Op,
         NEW next \in {"idle"} \cup InFlight \cup Outcome, Issue(c, op, next)
  PROVE  /\ pc' \in [Calls -> {"idle"} \cup InFlight \cup Outcome]
         /\ fault' \in [Calls -> {"none", "fatal", "handler"} \cup Result]
         /\ conn' \in [Conns -> Endpoint]
<1>1. CASE isValid(conn[on[c]])
  <2>1. conn' = [conn EXCEPT ![on[c]] = addCommand(conn[on[c]], op, c)]
    BY <1>1 DEF Issue
  <2>2. on[c] \in Conns => addCommand(conn[on[c]], op, c) \in Endpoint
    BY AddCommandType DEF TypeOK
  <2> QED
    BY <1>1, <2>1, <2>2 DEF Issue, TypeOK
<1>2. CASE ~isValid(conn[on[c]])
  BY <1>2, PcStates DEF Issue, Fails, TypeOK
<1> QED
  BY <1>1, <1>2

\* Every action keeps the types.
LEMMA NextTypeOK == TypeOK /\ [Next]_vars => TypeOK'
<1> SUFFICES ASSUME TypeOK, [Next]_vars PROVE TypeOK'
  OBVIOUS
<1> USE DEF stubVars
<1>1. ASSUME NEW c \in Calls, NEW m \in Modes, Reuse(c, m) PROVE TypeOK'
  <2>1. stub \in Conns /\ m \in Mode
    BY <1>1, EnvironmentAssumption DEF Reuse, stubValid
  <2> QED
    BY <1>1, <2>1, PcStates DEF Reuse, TypeOK
<1>2. ASSUME NEW c \in Calls, NEW m \in Modes, NEW k \in Conns, Connect(c, m, k) PROVE TypeOK'
  <2>1. conn' \in [Conns -> Endpoint]
    <3>1. [conn[k] EXCEPT !.status = "connecting"] \in Endpoint
      BY EndpointFields DEF TypeOK, Status
    <3> QED
      BY <1>2, <3>1 DEF Connect, TypeOK
  <2>2. m \in Mode
    BY EnvironmentAssumption
  <2> QED
    BY <1>2, <2>1, <2>2, PcStates DEF Connect, TypeOK
<1>3. ASSUME NEW c \in Calls, Connected(c) PROVE TypeOK'
  <2>1. conn' \in [Conns -> Endpoint]
    <3>1. on[c] \in Conns => [conn[on[c]] EXCEPT !.status = "up"] \in Endpoint
      BY EndpointFields DEF TypeOK, Status
    <3> QED
      BY <1>3, <3>1 DEF Connected, TypeOK
  <2>2. db' \in [Conns -> Session]
    <3>1. on[c] \in Conns => [db[on[c]] EXCEPT !.state = "open"] \in Session
      BY DEF TypeOK, Session, SessionState
    <3> QED
      BY <1>3, <3>1 DEF Connected, TypeOK
  <2>3. pc' \in [Calls -> {"idle"} \cup InFlight \cup Outcome]
    BY <1>3, PcStates DEF Connected, TypeOK
  <2>4. stub' \in Conns \cup {None}
    BY <1>3 DEF Connected, TypeOK
  <2>5. reading' = None /\ UNCHANGED <<opt, pool, closed, proc, mode, on, fault, durable>>
    BY <1>3 DEF Connected
  <2> QED
    BY <2>1, <2>2, <2>3, <2>4, <2>5 DEF TypeOK
<1>4. ASSUME NEW c \in Calls, ConnectFails(c) PROVE TypeOK'
  <2>1. conn' \in [Conns -> Endpoint]
    <3>1. on[c] \in Conns => [conn[on[c]] EXCEPT !.status = "closed"] \in Endpoint
      BY EndpointFields DEF TypeOK, Status
    <3> QED
      BY <1>4, <3>1 DEF ConnectFails, TypeOK
  <2> QED
    BY <1>4, <2>1, PcStates DEF ConnectFails, TypeOK
<1>5. ASSUME NEW c \in Calls, Check(c) PROVE TypeOK'
  <2>1. CASE mode[c] = "await_run" \/ isValid(conn[on[c]])
    <3>1. Issue(c, "BEGIN", "beginning") /\ UNCHANGED proc
      BY <1>5, <2>1 DEF Check
    <3>2. "BEGIN" \in Op
      BY DEF Op
    <3> QED
      BY <1>5, <3>1, <3>2, IssueType, PcStates DEF Check, TypeOK
  <2>2. CASE ~(mode[c] = "await_run" \/ isValid(conn[on[c]]))
    BY <1>5, <2>2, PcStates DEF Check, TypeOK
  <2> QED
    BY <2>1, <2>2
<1>6. ASSUME NEW c \in Calls, Begun(c) PROVE TypeOK'
  <2>1. "QUERY" \in Op
    BY DEF Op
  <2> QED
    BY <1>6, <2>1, IssueType, PcStates DEF Begun, TypeOK
<1>7. ASSUME NEW c \in Calls, Handled(c) PROVE TypeOK'
  BY <1>7, PcStates DEF Handled, HandlerSettles, Fails, TypeOK
<1>8. ASSUME NEW c \in Calls, Succeeds(c) PROVE TypeOK'
  <2>1. on[c] \in Conns => changeTransaction(conn[on[c]], "COMMIT", c) \in Endpoint
    BY ChangeTransactionType DEF TypeOK, Op
  <2>2. conn' \in [Conns -> Endpoint]
    BY <1>8, <2>1 DEF Succeeds, TypeOK
  <2> QED
    BY <1>8, <2>2, PcStates DEF Succeeds, TypeOK
<1>9. ASSUME NEW c \in Calls, _handleError(c) PROVE TypeOK'
  <2>1. \/ UNCHANGED <<closed, stub, pool, conn>>
        \/ EndStub(Undo(c))
    BY <1>9 DEF _handleError
  <2>2. /\ closed' \in BOOLEAN /\ stub' \in Conns \cup {None}
        /\ pool' \in {"none", "open", "ending"} /\ conn' \in [Conns -> Endpoint]
    BY <2>1, EndStubType, StubEndpointType DEF TypeOK
  <2> QED
    BY <1>9, <2>2, PcStates DEF _handleError, TypeOK
<1>10. ASSUME End PROVE TypeOK'
  <2>1. (IF stubValid THEN conn[stub] ELSE NewEndpoint) \in Endpoint
    BY DEF stubValid, TypeOK, NewEndpoint, Endpoint, Status
  <2>2. /\ closed' \in BOOLEAN /\ stub' \in Conns \cup {None}
        /\ pool' \in {"none", "open", "ending"} /\ conn' \in [Conns -> Endpoint]
    BY <1>10, <2>1, EndStubType DEF End
  <2> QED
    BY <1>10, <2>2 DEF End, TypeOK
<1>11. ASSUME NEW k \in Conns, Deliver(k) PROVE TypeOK'
  <2> DEFINE r == Head(conn[k].replies)
  <2>1. conn[k] \in Endpoint /\ conn[k].replies # <<>>
    BY <1>11 DEF Deliver, TypeOK
  <2>2. r \in Reply /\ receivePacket(conn[k]) \in Endpoint
    BY <2>1, ReceivePacketType
  <2>3. pc' \in [Calls -> {"idle"} \cup InFlight \cup Outcome]
    <3>1. \/ UNCHANGED pc
          \/ \E st \in {"begun", "answered", "erring"} : pc' = [pc EXCEPT ![r.call] = st]
      BY <1>11 DEF Deliver, Fails
    <3> QED
      BY <3>1, PcStates DEF TypeOK
  <2>4. fault' \in [Calls -> {"none", "fatal", "handler"} \cup Result]
    BY <1>11, <2>2 DEF Deliver, Fails, TypeOK, Reply
  <2>5. conn' \in [Conns -> Endpoint]
    BY <1>11, <2>2 DEF Deliver, TypeOK
  <2> QED
    BY <1>11, <2>3, <2>4, <2>5 DEF Deliver, TypeOK
<1>12. ASSUME NEW k \in Conns, SocketError(k) PROVE TypeOK'
  <2>1. conn' \in [Conns -> Endpoint]
    BY <1>12, ClosingType DEF SocketError, TypeOK
  <2> QED
    BY <1>12, <2>1, PcStates DEF SocketError, TypeOK
<1>13. ASSUME NEW k \in Conns, NEW result \in Result, NEW writes \in BOOLEAN,
              Execute(k, result, writes)
       PROVE TypeOK'
  <2> DEFINE s == Executed(db[k], Head(conn[k].wire), result, writes)
  <2>1. conn[k] \in Endpoint /\ conn[k].wire # <<>> /\ db[k] \in Session
    BY <1>13 DEF Execute, TypeOK
  <2>2. s \in Session /\ s.tx \in BOOLEAN
    BY <2>1, ExecuteType DEF Session
  <2>3. Answered(conn[k], result, s.tx) \in Endpoint
    BY <2>1, <2>2, ExecuteType
  <2>4. durable' \subseteq Calls
    BY <1>13, <2>1, ExecuteType DEF Execute, TypeOK
  <2> QED
    BY <1>13, <2>2, <2>3, <2>4 DEF Execute, TypeOK
<1>14. ASSUME NEW k \in Conns, SessionEnds(k) PROVE TypeOK'
  BY <1>14, OverType DEF SessionEnds, TypeOK, SessionState
<1>15. ASSUME NEW k \in Conns, Drop(k) PROVE TypeOK'
  BY <1>15, OverType DEF Drop, TypeOK, SessionState
<1>17. ASSUME NEW c \in Calls, HandledLater(c) PROVE TypeOK'
  BY <1>17, PcStates DEF HandledLater, HandlerSettles, Fails, TypeOK
<1>18. ASSUME PoolEnded PROVE TypeOK'
  BY <1>18 DEF PoolEnded, TypeOK
<1>16. CASE UNCHANGED vars
  BY <1>16 DEF vars, TypeOK
<1> QED
  BY <1>1, <1>2, <1>3, <1>4, <1>5, <1>6, <1>7, <1>8, <1>9, <1>10, <1>11, <1>12,
     <1>13, <1>14, <1>15, <1>16, <1>17, <1>18
  DEF Next, Calling, Continue

\* Every state the program reaches is well typed.
THEOREM TypeCorrect == Spec => []TypeOK
BY InitTypeOK, NextTypeOK, PTL DEF Spec

-----------------------------------------------------------------------------
(* Calls and the commands they have in flight agree.                        *)

\* At the start no call has a command in flight.
LEMMA InitStageInv == Init => StageInv
<1> SUFFICES ASSUME Init PROVE StageInv
  OBVIOUS
<1>1. DOMAIN <<>> = {}
  OBVIOUS
<1>2. \A k \in Conns : conn[k] = NewEndpoint /\ db[k] = NewSession
  BY DEF Init
<1>3. ~Busy(NewEndpoint) /\ Once(NewEndpoint) /\ \A o, d : ~Asks(NewEndpoint, o, d)
  BY <1>1 DEF NewEndpoint, Busy, Once, Asks
<1>4. NewEndpoint.status = "unused"
  BY DEF NewEndpoint
<1>5. \A c \in Calls : pc[c] = "idle"
  BY DEF Init
<1> QED
  BY <1>2, <1>3, <1>4, <1>5, InitTypeOK DEF StageInv, Staged, OnceEach, Attached, ReadyIsLive

\* Ending the stub adds at most a ROLLBACK to its connection, and leaves every
\* connection that is not alive as it is.
LEMMA EndStubQueues ==
  ASSUME StageInv, NEW n, EndStub(n),
         \/ n = (IF stubValid THEN conn[stub] ELSE NewEndpoint)
         \/ \E c \in Calls : n = Undo(c)
  PROVE  \A k \in Conns :
           /\ Once(conn'[k])
           /\ \A o \in StepOp, d \in Calls : Asks(conn'[k], o, d) => Asks(conn[k], o, d)
           /\ \/ conn'[k] = conn[k]
              \/ /\ isValid(conn[k])
                 /\ \/ isValid(conn'[k]) /\ conn'[k].replies = conn[k].replies
                    \/ conn'[k].status = "closed" /\ conn'[k].replies = <<>>
<1> USE DEF StageInv
<1>1. CASE ~stubValid
  BY <1>1 DEF EndStub, OnceEach
<1>2. CASE stubValid
  <2>1. stub \in Conns /\ isValid(conn[stub]) /\ conn[stub] \in Endpoint /\ Once(conn[stub])
    BY <1>2 DEF stubValid, TypeOK, OnceEach
  <2>2. "ROLLBACK" \in Op /\ "ROLLBACK" \notin StepOp
    BY DEF Op, StepOp
  <2>3. /\ n \in Endpoint /\ Once(n) /\ n.status = conn[stub].status
        /\ n.replies = conn[stub].replies
        /\ \A o \in StepOp, d \in Calls : Asks(n, o, d) => Asks(conn[stub], o, d)
    <3>1. CASE n = conn[stub]
      BY <2>1, <3>1
    <3>2. ASSUME NEW c \in Calls, n = changeTransaction(conn[stub], "ROLLBACK", c)
          PROVE  /\ n \in Endpoint /\ Once(n) /\ n.status = conn[stub].status
                 /\ n.replies = conn[stub].replies
                 /\ \A o \in StepOp, d \in Calls : Asks(n, o, d) => Asks(conn[stub], o, d)
      BY <2>1, <2>2, <3>2, ChangeTransactionType, ChangeTransactionAsks, OnceChangeTransaction
    <3> QED
      BY <1>2, <3>1, <3>2 DEF Undo
  <2>4. /\ end(n).status = "closed" /\ end(n).replies = <<>> /\ Once(end(n))
        /\ \A o \in StepOp, d \in Calls : Asks(end(n), o, d) => Asks(conn[stub], o, d)
    BY <2>3, ClosingAsks, OnceClosing
  <2>5. conn' = [conn EXCEPT ![stub] = n] \/ conn' = [conn EXCEPT ![stub] = end(n)]
    BY <1>2 DEF EndStub
  <2> QED
    BY <2>1, <2>3, <2>4, <2>5 DEF TypeOK, OnceEach, isValid
<1> QED
  BY <1>1, <1>2

\* A change of one connection's status disturbs no queue.
LEMMA StatusQueues ==
  ASSUME TypeOK, OnceEach, NEW k \in Conns, NEW st \in Status,
         conn' = [conn EXCEPT ![k] = [conn[k] EXCEPT !.status = st]]
  PROVE  \A j \in Conns :
           /\ conn'[j].status = IF j = k THEN st ELSE conn[j].status
           /\ conn'[j].wire = conn[j].wire /\ conn'[j].replies = conn[j].replies
           /\ Once(conn'[j])
           /\ \A o \in StepOp, d \in Calls : Asks(conn'[j], o, d) <=> Asks(conn[j], o, d)
<1> DEFINE a == [conn[k] EXCEPT !.status = st]
<1>1. conn[k] \in Endpoint /\ Once(conn[k])
  BY DEF TypeOK, OnceEach
<1>2. /\ a.status = st /\ a.wire = conn[k].wire /\ a.replies = conn[k].replies
      /\ Once(a)
      /\ \A o, d : Asks(a, o, d) <=> Asks(conn[k], o, d)
  BY <1>1, StatusAsks
<1>3. \A j \in Conns : conn'[j] = IF j = k THEN a ELSE conn[j]
  BY DEF TypeOK
<1> HIDE DEF a
<1> QED
  BY <1>2, <1>3 DEF OnceEach

\* Sending a call's next command, when none of its commands is in flight.
LEMMA IssueQueues ==
  ASSUME StageInv, NEW c \in Calls, NEW op \in StepOp, NEW next, Issue(c, op, next),
         pc[c] \notin {"beginning", "querying"}
  PROVE  /\ \A k \in Conns : Once(conn'[k]) /\ conn'[k].status = conn[k].status
                             /\ conn'[k].replies = conn[k].replies
         /\ \A k \in Conns, o \in StepOp, d \in Calls :
              Asks(conn'[k], o, d) =>
                \/ d # c /\ Asks(conn[k], o, d)
                \/ d = c /\ k = on[c] /\ o = op /\ pc'[c] = next
         /\ \A k \in Conns : isValid(conn[k]) \/ conn'[k] = conn[k]
         /\ pc'[c] \in {next, "erring"}
         /\ \A d \in Calls : d # c => pc'[d] = pc[d]
<1> USE DEF StageInv
<1>1. \A k \in Conns, o \in StepOp : ~Asks(conn[k], o, c)
  BY DEF Staged, StepOp
<1>2. CASE isValid(conn[on[c]])
  <2>1. /\ conn' = [conn EXCEPT ![on[c]] = addCommand(conn[on[c]], op, c)]
        /\ pc' = [pc EXCEPT ![c] = next]
    BY <1>2 DEF Issue
  <2>2. ASSUME on[c] \in Conns
        PROVE  LET a == addCommand(conn[on[c]], op, c) IN
               /\ Once(a) /\ a.status = conn[on[c]].status /\ a.replies = conn[on[c]].replies
               /\ \A o, d : Asks(a, o, d) <=> Asks(conn[on[c]], o, d) \/ (o = op /\ d = c)
    <3>1. conn[on[c]] \in Endpoint /\ Once(conn[on[c]]) /\ op \in Op
      BY <2>2 DEF TypeOK, OnceEach, Op, StepOp
    <3>2. ~Asks(conn[on[c]], "BEGIN", c) /\ ~Asks(conn[on[c]], "QUERY", c)
      BY <1>1, <2>2 DEF StepOp
    <3>3. Once(addCommand(conn[on[c]], op, c))
      BY <3>1, <3>2, OnceAddCommand
    <3>4. \A n \in Endpoint :
            LET a == addCommand(n, op, c) IN
            /\ a.status = n.status /\ a.replies = n.replies
            /\ \A o, d : Asks(a, o, d) <=> Asks(n, o, d) \/ (o = op /\ d = c)
      BY <3>1, AddCommandAsks
    <3> QED
      BY <3>1, <3>3, <3>4, Zenon
  <2>3. \A k \in Conns : conn'[k] = IF k = on[c] THEN addCommand(conn[on[c]], op, c) ELSE conn[k]
    BY <2>1 DEF TypeOK
  <2> QED
    BY <1>1, <1>2, <2>1, <2>2, <2>3 DEF OnceEach, TypeOK
<1>3. CASE ~isValid(conn[on[c]])
  BY <1>1, <1>3 DEF Issue, Fails, OnceEach, TypeOK
<1> QED
  BY <1>2, <1>3

\* Every action keeps calls and the commands they have in flight in step.
LEMMA NextStageInv == StageInv /\ [Next]_vars => StageInv'
<1> SUFFICES ASSUME StageInv, [Next]_vars PROVE StageInv'
  OBVIOUS
<1> USE DEF StageInv, stubVars
<1>0. TypeOK' /\ "BEGIN" \in StepOp /\ "QUERY" \in StepOp
  BY NextTypeOK DEF StepOp
<1>1. ASSUME NEW c \in Calls, NEW m \in Modes, Reuse(c, m) PROVE StageInv'
  <2>1. /\ pc[c] = "idle" /\ pc' = [pc EXCEPT ![c] = "checking"]
        /\ on' = [on EXCEPT ![c] = stub] /\ UNCHANGED <<proc, conn, db>>
    BY <1>1 DEF Reuse, MayCall
  <2> QED
    BY <1>0, <2>1 DEF TypeOK, Staged, OnceEach, Attached, ReadyIsLive
<1>2. ASSUME NEW c \in Calls, NEW m \in Modes, NEW k \in Conns, Connect(c, m, k) PROVE StageInv'
  <2>1. /\ pc[c] = "idle" /\ pc' = [pc EXCEPT ![c] = "connecting"]
        /\ on' = [on EXCEPT ![c] = k] /\ UNCHANGED <<proc, db>>
        /\ conn[k].status = "unused"
        /\ conn' = [conn EXCEPT ![k] = [conn[k] EXCEPT !.status = "connecting"]]
    BY <1>2 DEF Connect, MayCall
  <2>2. /\ \A j \in Conns : /\ conn'[j].status = IF j = k THEN "connecting" ELSE conn[j].status
                            /\ conn'[j].wire = conn[j].wire /\ conn'[j].replies = conn[j].replies
                            /\ Once(conn'[j])
        /\ \A j \in Conns, o \in StepOp, d \in Calls : Asks(conn'[j], o, d) <=> Asks(conn[j], o, d)
    BY <2>1, StatusQueues DEF Status
  <2>3. Staged' /\ OnceEach'
    <3>1. OnceEach'
      BY <2>2 DEF OnceEach
    <3>2. \A d \in Calls : pc[d] \in {"beginning", "querying"} => pc'[d] = pc[d] /\ on'[d] = on[d]
      BY <2>1 DEF TypeOK
    <3>3. \A j \in Conns, d \in Calls :
            /\ Asks(conn'[j], "BEGIN", d) <=> Asks(conn[j], "BEGIN", d)
            /\ Asks(conn'[j], "QUERY", d) <=> Asks(conn[j], "QUERY", d)
      BY <2>2 DEF StepOp
    <3>4. Staged'
      BY <3>2, <3>3 DEF Staged
    <3> QED
      BY <3>1, <3>4
  <2>4. Attached'
    <3>1. \A j \in Conns :
            /\ conn'[j].status \in {"unused", "connecting"} => ~Busy(conn'[j]) /\ db'[j] = NewSession
            /\ conn'[j].status = "closed" => conn'[j].replies = <<>>
      BY <2>1, <2>2 DEF Attached, Busy
    <3>2. \A d \in Calls : d # c => pc'[d] = pc[d] /\ on'[d] = on[d]
      BY <2>1 DEF TypeOK
    <3>3. on'[c] = k /\ conn'[k].status = "connecting"
      BY <2>1, <2>2 DEF TypeOK
    <3>4. ASSUME proc = "running", NEW d \in Calls, pc'[d] = "connecting", d # c
          PROVE  /\ on'[d] \in Conns \ {k} /\ conn'[on'[d]].status = "connecting"
                 /\ \A e \in Calls : pc'[e] = "connecting" /\ on'[e] = on'[d] => e = d
      <4>1. on[d] \in Conns /\ conn[on[d]].status = "connecting" /\ on[d] # k
        BY <2>1, <3>2, <3>4 DEF Attached
      <4> QED
        BY <2>1, <2>2, <3>2, <3>3, <3>4, <4>1 DEF Attached
    <3> QED
      BY <2>1, <3>1, <3>2, <3>3, <3>4 DEF Attached
  <2>5. ReadyIsLive'
    BY <2>1, <2>2 DEF TypeOK, ReadyIsLive, isValid
  <2> QED
    BY <1>0, <2>3, <2>4, <2>5
<1>3. ASSUME NEW c \in Calls, Connected(c) PROVE StageInv'
  <2>1. /\ pc[c] = "connecting" /\ pc' = [pc EXCEPT ![c] = "checking"]
        /\ UNCHANGED <<on, proc>> /\ proc = "running"
        /\ conn' = [conn EXCEPT ![on[c]] = [conn[on[c]] EXCEPT !.status = "up"]]
        /\ db' = [db EXCEPT ![on[c]].state = "open"]
    BY <1>3 DEF Connected, Quiet, Idle
  <2>2. on[c] \in Conns /\ conn[on[c]].status = "connecting"
    BY <2>1 DEF Attached
  <2>3. /\ \A j \in Conns : /\ conn'[j].status = IF j = on[c] THEN "up" ELSE conn[j].status
                            /\ conn'[j].wire = conn[j].wire /\ conn'[j].replies = conn[j].replies
                            /\ Once(conn'[j])
        /\ \A j \in Conns, o \in StepOp, d \in Calls : Asks(conn'[j], o, d) <=> Asks(conn[j], o, d)
    BY <2>1, <2>2, StatusQueues DEF Status
  <2>4. Staged' /\ OnceEach'
    <3>1. OnceEach'
      BY <2>3 DEF OnceEach
    <3>2. \A d \in Calls : pc[d] \in {"beginning", "querying"} => pc'[d] = pc[d] /\ on'[d] = on[d]
      BY <2>1 DEF TypeOK
    <3>3. \A j \in Conns, d \in Calls :
            /\ Asks(conn'[j], "BEGIN", d) <=> Asks(conn[j], "BEGIN", d)
            /\ Asks(conn'[j], "QUERY", d) <=> Asks(conn[j], "QUERY", d)
      BY <2>3 DEF StepOp
    <3>4. Staged'
      BY <3>2, <3>3 DEF Staged
    <3> QED
      BY <3>1, <3>4
  <2>5. Attached'
    <3>1. \A j \in Conns : j # on[c] => db'[j] = db[j]
      BY <2>1, <2>2 DEF TypeOK
    <3>2. \A j \in Conns :
            /\ conn'[j].status \in {"unused", "connecting"} => ~Busy(conn'[j]) /\ db'[j] = NewSession
            /\ conn'[j].status = "closed" => conn'[j].replies = <<>>
      BY <2>3, <3>1 DEF Attached, Busy
    <3>3. \A d \in Calls : pc'[d] = "connecting" => pc[d] = "connecting" /\ d # c
      BY <2>1 DEF TypeOK
    <3>4. \A d \in Calls : pc'[d] = "connecting" => on[d] \in Conns /\ on[d] # on[c]
      BY <2>1, <3>3 DEF Attached
    <3>5. \A d \in Calls : pc'[d] = "connecting" => conn'[on[d]].status = "connecting"
      BY <2>1, <2>3, <3>3, <3>4 DEF Attached
    <3>6. \A d, e \in Calls :
            pc'[d] = "connecting" /\ pc'[e] = "connecting" /\ on[e] = on[d] => e = d
      BY <2>1, <3>3 DEF Attached
    <3> QED
      BY <2>1, <3>2, <3>4, <3>5, <3>6 DEF Attached
  <2>6. ReadyIsLive'
    BY <2>1, <2>3 DEF TypeOK, ReadyIsLive, isValid
  <2> QED
    BY <1>0, <2>4, <2>5, <2>6
<1>4. ASSUME NEW c \in Calls, ConnectFails(c) PROVE StageInv'
  <2>0. /\ pc[c] = "connecting" /\ UNCHANGED <<on, db>> /\ proc = "running"
        /\ conn' = [conn EXCEPT ![on[c]] = [conn[on[c]] EXCEPT !.status = "closed"]]
        /\ pc' = [pc EXCEPT ![c] = "rejected"] \/ (pc' = pc /\ proc' = "exited")
    <3>1. /\ pc[c] = "connecting" /\ UNCHANGED <<on, db>> /\ Quiet
          /\ conn' = [conn EXCEPT ![on[c]] = [conn[on[c]] EXCEPT !.status = "closed"]]
      BY <1>4 DEF ConnectFails
    <3>2. pc' = [pc EXCEPT ![c] = "rejected"] \/ (pc' = pc /\ proc' = "exited")
      BY <1>4 DEF ConnectFails
    <3> QED
      BY <3>1, <3>2 DEF Quiet, Idle
  <2>1. /\ pc[c] = "connecting" /\ UNCHANGED <<on, db>> /\ proc = "running"
        /\ conn' = [conn EXCEPT ![on[c]] = [conn[on[c]] EXCEPT !.status = "closed"]]
        /\ pc'[c] = "rejected" \/ (pc'[c] = "connecting" /\ proc' = "exited")
        /\ \A d \in Calls : d # c => pc'[d] = pc[d]
    BY <2>0 DEF TypeOK
  <2>2. on[c] \in Conns /\ conn[on[c]].status = "connecting"
    BY <2>1 DEF Attached
  <2>3. /\ \A j \in Conns : /\ conn'[j].status = IF j = on[c] THEN "closed" ELSE conn[j].status
                            /\ conn'[j].wire = conn[j].wire /\ conn'[j].replies = conn[j].replies
                            /\ Once(conn'[j])
        /\ \A j \in Conns, o \in StepOp, d \in Calls : Asks(conn'[j], o, d) <=> Asks(conn[j], o, d)
    BY <2>1, <2>2, StatusQueues DEF Status
  <2>4. Staged' /\ OnceEach'
    BY <1>0, <2>1, <2>3 DEF TypeOK, Staged, OnceEach
  <2>5. Attached'
    BY <2>1, <2>2, <2>3 DEF TypeOK, Attached, Busy
  <2>6. ReadyIsLive'
    BY <2>1, <2>2, <2>3 DEF TypeOK, ReadyIsLive, isValid
  <2> QED
    BY <1>0, <2>4, <2>5, <2>6
<1>5. ASSUME NEW c \in Calls, Check(c) PROVE StageInv'
  <2>1. pc[c] = "checking" /\ UNCHANGED <<on, db>> /\ proc = "running"
    BY <1>5 DEF Check, Resumes
  <2>2. CASE Issue(c, "BEGIN", "beginning") /\ UNCHANGED proc
    <3>1. Staged' /\ OnceEach'
      BY <1>0, <2>1, <2>2, IssueQueues DEF TypeOK, Staged, OnceEach
    <3>2. /\ \A k \in Conns : /\ Once(conn'[k]) /\ conn'[k].status = conn[k].status
                              /\ conn'[k].replies = conn[k].replies
                              /\ isValid(conn[k]) \/ conn'[k] = conn[k]
          /\ pc'[c] \in {"beginning", "erring"} /\ \A d \in Calls : d # c => pc'[d] = pc[d]
      BY <1>0, <2>1, <2>2, IssueQueues
    <3>3. Attached'
      BY <2>1, <2>2, <3>2 DEF Attached, isValid
    <3>4. ReadyIsLive'
      BY <2>1, <2>2, <3>2 DEF ReadyIsLive, isValid
    <3> QED
      BY <1>0, <3>1, <3>3, <3>4
  <2>3. CASE ~(Issue(c, "BEGIN", "beginning") /\ UNCHANGED proc)
    <3>1. /\ UNCHANGED conn
          /\ \/ pc' = [pc EXCEPT ![c] = "refused"] /\ UNCHANGED proc
             \/ UNCHANGED pc /\ proc' = "exited"
      BY <1>5, <2>3 DEF Check
    <3> QED
      BY <1>0, <2>1, <3>1 DEF TypeOK, Staged, OnceEach, Attached, ReadyIsLive
  <2> QED
    BY <2>2, <2>3
<1>6. ASSUME NEW c \in Calls, Begun(c) PROVE StageInv'
  <2>1. pc[c] = "begun" /\ Issue(c, "QUERY", "querying") /\ UNCHANGED <<on, db, proc>>
    BY <1>6 DEF Begun, Resumes
  <2>2. Staged' /\ OnceEach'
    BY <1>0, <2>1, IssueQueues DEF TypeOK, Staged, OnceEach
  <2>3. /\ \A k \in Conns : /\ Once(conn'[k]) /\ conn'[k].status = conn[k].status
                            /\ conn'[k].replies = conn[k].replies
                            /\ isValid(conn[k]) \/ conn'[k] = conn[k]
        /\ pc'[c] \in {"querying", "erring"} /\ \A d \in Calls : d # c => pc'[d] = pc[d]
    BY <1>0, <2>1, IssueQueues
  <2>4. Attached'
    BY <2>1, <2>3 DEF Attached, isValid
  <2>5. ReadyIsLive'
    BY <2>1, <2>3 DEF ReadyIsLive, isValid
  <2> QED
    BY <1>0, <2>2, <2>4, <2>5
<1>7. ASSUME NEW c \in Calls, Handled(c) \/ HandledLater(c) PROVE StageInv'
  <2>1. /\ pc[c] \in {"answered", "handling"} /\ UNCHANGED <<on, db, proc, conn>>
        /\ \E st \in {"handled", "handling", "erring"} : pc' = [pc EXCEPT ![c] = st]
    BY <1>7 DEF Handled, HandledLater, HandlerSettles, Fails, Resumes
  <2> QED
    BY <1>0, <2>1 DEF TypeOK, Staged, OnceEach, Attached, ReadyIsLive
<1>8. ASSUME NEW c \in Calls, Succeeds(c) PROVE StageInv'
  <2>1. /\ pc[c] = "answered" /\ proc = "running" /\ UNCHANGED <<on, db>>
        /\ pc' = [pc EXCEPT ![c] = "ok"]
    BY <1>8 DEF Succeeds, Resumes
  <2>2. on[c] \in Conns /\ isValid(conn[on[c]])
    BY <2>1 DEF ReadyIsLive
  <2>3. conn' = [conn EXCEPT ![on[c]] = changeTransaction(conn[on[c]], "COMMIT", c)] /\ UNCHANGED proc
    BY <1>8, <2>2 DEF Succeeds
  <2>4. LET a == changeTransaction(conn[on[c]], "COMMIT", c) IN
        /\ Once(a) /\ a.status = conn[on[c]].status /\ a.replies = conn[on[c]].replies
        /\ \A o \in StepOp, d \in Calls : Asks(a, o, d) => Asks(conn[on[c]], o, d)
    <3>1. conn[on[c]] \in Endpoint /\ Once(conn[on[c]]) /\ "COMMIT" \in Op
      BY <2>2 DEF TypeOK, OnceEach, Op
    <3> QED
      BY <3>1, ChangeTransactionAsks, OnceChangeTransaction DEF StepOp
  <2>5. \A k \in Conns :
          conn'[k] = IF k = on[c] THEN changeTransaction(conn[on[c]], "COMMIT", c) ELSE conn[k]
    BY <2>3 DEF TypeOK
  <2>6. Staged' /\ OnceEach'
    BY <1>0, <2>1, <2>4, <2>5 DEF TypeOK, Staged, OnceEach
  <2>7. Attached'
    BY <2>1, <2>2, <2>3, <2>4, <2>5 DEF TypeOK, Attached, isValid
  <2>8. ReadyIsLive'
    BY <2>1, <2>3, <2>4, <2>5 DEF TypeOK, ReadyIsLive, isValid
  <2> QED
    BY <1>0, <2>6, <2>7, <2>8
<1>9. ASSUME NEW c \in Calls, _handleError(c) PROVE StageInv'
  <2>1. /\ pc[c] = "erring" /\ UNCHANGED <<on, db, proc>>
        /\ \E st \in {"rejected", "swallowed"} : pc' = [pc EXCEPT ![c] = st]
        /\ proc = "running" => Runnable("begun") = {} /\ Runnable("answered") = {}
    BY <1>9 DEF _handleError, Resumes, EarlierHops
  <2>2. UNCHANGED conn \/ EndStub(Undo(c))
    BY <1>9 DEF _handleError
  <2>3. \A k \in Conns :
           /\ Once(conn'[k])
           /\ \A o \in StepOp, d \in Calls : Asks(conn'[k], o, d) => Asks(conn[k], o, d)
           /\ \/ conn'[k] = conn[k]
              \/ /\ isValid(conn[k])
                 /\ \/ isValid(conn'[k]) /\ conn'[k].replies = conn[k].replies
                    \/ conn'[k].status = "closed" /\ conn'[k].replies = <<>>
    BY <2>2, EndStubQueues DEF OnceEach
  <2>4. Staged' /\ OnceEach'
    BY <1>0, <2>1, <2>3 DEF TypeOK, Staged, OnceEach
  <2>5. Attached'
    BY <2>1, <2>3 DEF TypeOK, Attached, isValid
  <2>6. ReadyIsLive'
    BY <2>1 DEF TypeOK, ReadyIsLive, Runnable
  <2> QED
    BY <1>0, <2>4, <2>5, <2>6
<1>10. ASSUME End PROVE StageInv'
  <2>1. /\ UNCHANGED <<on, db, proc, pc>>
        /\ \A c \in Calls : pc[c] \notin Continuation
        /\ EndStub(IF stubValid THEN conn[stub] ELSE NewEndpoint)
    BY <1>10 DEF End, Idle
  <2>2. \A k \in Conns :
           /\ Once(conn'[k])
           /\ \A o \in StepOp, d \in Calls : Asks(conn'[k], o, d) => Asks(conn[k], o, d)
           /\ \/ conn'[k] = conn[k]
              \/ /\ isValid(conn[k])
                 /\ \/ isValid(conn'[k]) /\ conn'[k].replies = conn[k].replies
                    \/ conn'[k].status = "closed" /\ conn'[k].replies = <<>>
    BY <2>1, EndStubQueues
  <2>3. Staged' /\ OnceEach'
    BY <1>0, <2>1, <2>2 DEF TypeOK, Staged, OnceEach
  <2>4. Attached'
    BY <2>1, <2>2 DEF TypeOK, Attached, isValid
  <2>5. ReadyIsLive'
    BY <2>1 DEF ReadyIsLive, Continuation
  <2> QED
    BY <1>0, <2>3, <2>4, <2>5
<1>11. ASSUME NEW k \in Conns, Deliver(k) PROVE StageInv'
  <2> DEFINE r == Head(conn[k].replies)
             a == receivePacket(conn[k])
  <2>1. /\ isValid(conn[k]) /\ conn[k].replies # <<>> /\ conn[k] \in Endpoint /\ Once(conn[k])
        /\ UNCHANGED <<on, db, proc>>
        /\ conn' = [conn EXCEPT ![k] = a]
    BY <1>11 DEF Deliver, TypeOK, OnceEach
  <2>2. r \in Reply /\ Asks(conn[k], r.op, r.call)
    BY <2>1, ReceivePacketType, ReceivePacketAsks
  <2>3. /\ Once(a) /\ a.status = conn[k].status
        /\ \A o, d : Asks(a, o, d) => Asks(conn[k], o, d)
        /\ r.op \in StepOp => ~Asks(a, "BEGIN", r.call) /\ ~Asks(a, "QUERY", r.call)
    BY <2>1, ReceivePacketAsks, OnceReceivePacket
  <2>4. \A j \in Conns : conn'[j] = IF j = k THEN a ELSE conn[j]
    BY <2>1 DEF TypeOK
  <2> HIDE DEF a, r
  <2>5. r.call \in Calls /\ (r.op \in StepOp => on[r.call] = k
                                               /\ pc[r.call] \in {"beginning", "querying"})
    BY <2>2 DEF Reply, Staged, StepOp
  <2>6. \A d \in Calls : pc'[d] # pc[d] =>
          d = r.call /\ r.op \in StepOp /\ pc'[d] \in {"begun", "answered", "erring"}
    <3>1. \/ UNCHANGED pc
          \/ /\ r.op \in {"BEGIN", "QUERY"}
             /\ \E st \in {"begun", "answered", "erring"} : pc' = [pc EXCEPT ![r.call] = st]
      BY <1>11 DEF Deliver, Fails, r
    <3> QED
      BY <3>1 DEF TypeOK, StepOp
  <2>7. OnceEach'
    BY <2>3, <2>4 DEF OnceEach
  <2>8. Staged'
    <3> SUFFICES ASSUME NEW j \in Conns, NEW d \in Calls, NEW o \in StepOp,
                        Asks(conn'[j], o, d)
                 PROVE  on'[d] = j /\ pc'[d] = IF o = "BEGIN" THEN "beginning" ELSE "querying"
      BY DEF Staged, StepOp
    <3>1. Asks(conn[j], o, d)
      BY <2>3, <2>4
    <3>2. on[d] = j /\ pc[d] = IF o = "BEGIN" THEN "beginning" ELSE "querying"
      BY <3>1 DEF Staged, StepOp
    <3>3. pc'[d] = pc[d]
      BY <2>3, <2>4, <2>5, <2>6, <3>2 DEF StepOp
    <3> QED
      BY <2>1, <3>2, <3>3
  <2>9. Attached'
    <3>1. \A d \in Calls : pc'[d] = "connecting" => pc[d] = "connecting"
      BY <2>6
    <3> QED
      BY <2>1, <2>3, <2>4, <3>1 DEF Attached, isValid
  <2>10. ReadyIsLive'
    BY <2>1, <2>3, <2>4, <2>5, <2>6 DEF ReadyIsLive, isValid
  <2> QED
    BY <1>0, <2>7, <2>8, <2>9, <2>10
<1>12. ASSUME NEW k \in Conns, SocketError(k) PROVE StageInv'
  <2> DEFINE a == fatalError(conn[k])
  <2>1. /\ isValid(conn[k]) /\ conn[k] \in Endpoint /\ Once(conn[k])
        /\ UNCHANGED <<on, db>> /\ proc = "running" /\ \A c \in Calls : pc[c] \notin Continuation
        /\ conn' = [conn EXCEPT ![k] = a]
    BY <1>12 DEF SocketError, TypeOK, OnceEach, Quiet, Idle
  <2>2. /\ Once(a) /\ a.status = "closed" /\ a.replies = <<>> /\ \A o, d : ~Asks(a, o, d)
    BY <2>1, ClosingAsks, OnceClosing
  <2>3. \A j \in Conns : conn'[j] = IF j = k THEN a ELSE conn[j]
    BY <2>1 DEF TypeOK
  <2> HIDE DEF a
  <2>4. \A d \in Calls : pc'[d] = pc[d] \/ (on[d] = k /\ pc[d] \in {"beginning", "querying"}
                                                      /\ pc'[d] = "erring")
    BY <1>12 DEF SocketError, Waiting, TypeOK
  <2>5. OnceEach'
    BY <2>2, <2>3 DEF OnceEach
  <2>6. Staged'
    BY <2>1, <2>2, <2>3, <2>4 DEF Staged
  <2>7. Attached'
    <3>1. proc' = "running" => proc = "running"
      BY <2>1
    <3> QED
      BY <2>1, <2>2, <2>3, <2>4, <3>1 DEF Attached, isValid
  <2>8. ReadyIsLive'
    BY <2>1, <2>4 DEF ReadyIsLive, Continuation
  <2> QED
    BY <1>0, <2>5, <2>6, <2>7, <2>8
<1>13. ASSUME NEW k \in Conns, NEW result \in Result, NEW writes \in BOOLEAN,
              Execute(k, result, writes)
       PROVE StageInv'
  <2> DEFINE s == Executed(db[k], Head(conn[k].wire), result, writes)
             a == Answered(conn[k], result, s.tx)
  <2>1. /\ conn[k] \in Endpoint /\ Once(conn[k]) /\ conn[k].wire # <<>> /\ db[k] \in Session
        /\ UNCHANGED <<on, pc, proc>> /\ db[k].state = "open"
        /\ conn' = [conn EXCEPT ![k] = a] /\ db' = [db EXCEPT ![k] = s]
    BY <1>13 DEF Execute, TypeOK, OnceEach
  <2>2. s.tx \in BOOLEAN
    BY <2>1, ExecuteType DEF Session
  <2>3. /\ Once(a) /\ a.status = conn[k].status
        /\ \A o, d : Asks(a, o, d) => Asks(conn[k], o, d)
        /\ ~isValid(conn[k]) => a.replies = conn[k].replies
    BY <2>1, <2>2, AnsweredAsks, OnceAnswered
  <2>4. \A j \in Conns : /\ conn'[j] = IF j = k THEN a ELSE conn[j]
                         /\ j # k => db'[j] = db[j]
    BY <2>1 DEF TypeOK
  <2>5. conn[k].status \notin {"unused", "connecting"}
    BY <2>1 DEF Attached, Busy
  <2> HIDE DEF a, s
  <2>6. OnceEach' /\ Staged'
    BY <2>1, <2>3, <2>4 DEF OnceEach, Staged
  <2>7. Attached'
    BY <2>1, <2>3, <2>4, <2>5 DEF Attached, isValid
  <2>8. ReadyIsLive'
    BY <2>1, <2>3, <2>4 DEF ReadyIsLive, isValid
  <2> QED
    BY <1>0, <2>6, <2>7, <2>8
<1>14. ASSUME NEW k \in Conns, SessionEnds(k) \/ Drop(k) PROVE StageInv'
  <2>1. /\ UNCHANGED <<on, pc, proc, conn>> /\ db[k].state = "open"
        /\ \A j \in Conns : j # k => db'[j] = db[j]
    BY <1>14 DEF SessionEnds, Drop, TypeOK
  <2>2. conn[k].status \notin {"unused", "connecting"}
    BY <2>1 DEF Attached, NewSession
  <2> QED
    BY <1>0, <2>1, <2>2 DEF Staged, OnceEach, Attached, ReadyIsLive
<1>15. ASSUME PoolEnded PROVE StageInv'
  BY <1>0, <1>15 DEF PoolEnded, Staged, OnceEach, Attached, ReadyIsLive
<1>16. CASE UNCHANGED vars
  BY <1>0, <1>16 DEF vars, Staged, OnceEach, Attached, ReadyIsLive
<1> QED
  BY <1>1, <1>2, <1>3, <1>4, <1>5, <1>6, <1>7, <1>8, <1>9, <1>10, <1>11, <1>12,
     <1>13, <1>14, <1>15, <1>16
  DEF Next, Calling, Continue

\* Calls and the commands they have in flight agree in every reachable state.
THEOREM StageCorrect == Spec => []StageInv
BY InitStageInv, NextStageInv, PTL DEF Spec

-----------------------------------------------------------------------------
(* Effects.                                                                 *)

Early == {"idle", "connecting", "checking", "beginning", "begun", "refused"}

\* No step takes a call back to before its statement was issued.
LEMMA EarlyNeverAgain ==
  ASSUME StageInv, [Next]_vars, NEW c \in Calls, pc'[c] \in Early
  PROVE  pc[c] \in Early
<1> USE DEF StageInv, Early, stubVars
<1>1. ASSUME NEW d \in Calls, NEW m \in Modes, NEW k \in Conns, Reuse(d, m) \/ Connect(d, m, k)
      PROVE  pc[c] \in Early
  BY <1>1 DEF Reuse, Connect, MayCall, TypeOK
<1>2. ASSUME NEW d \in Calls, NEW m \in Modes, Reuse(d, m) PROVE pc[c] \in Early
  BY <1>2 DEF Reuse, MayCall, TypeOK
<1>3. ASSUME NEW d \in Calls, Connected(d) \/ ConnectFails(d) PROVE pc[c] \in Early
  <2>1. pc[d] = "connecting" /\ \/ pc' = [pc EXCEPT ![d] = "checking"]
                                \/ pc' = [pc EXCEPT ![d] = "rejected"]
                                \/ pc' = pc
    BY <1>3 DEF Connected, ConnectFails
  <2> QED
    BY <2>1 DEF TypeOK
<1>4. ASSUME NEW d \in Calls, Check(d) \/ Begun(d) PROVE pc[c] \in Early
  BY <1>4 DEF Check, Begun, Resumes, Issue, Fails, TypeOK
<1>5. ASSUME NEW d \in Calls, Handled(d) \/ HandledLater(d) \/ Succeeds(d) \/ _handleError(d)
      PROVE  pc[c] \in Early
  <2>1. \E st \in {"handled", "handling", "erring", "ok", "rejected", "swallowed"} :
          pc' = [pc EXCEPT ![d] = st]
    BY <1>5 DEF Handled, HandledLater, HandlerSettles, Fails, Succeeds, _handleError
  <2> QED
    BY <2>1 DEF TypeOK
<1>6. ASSUME NEW k \in Conns, Deliver(k) PROVE pc[c] \in Early
  <2> DEFINE r == Head(conn[k].replies)
  <2>1. \/ UNCHANGED pc
        \/ r.op = "BEGIN" /\ pc' = [pc EXCEPT ![r.call] = "begun"]
        \/ \E st \in {"answered", "erring"} : pc' = [pc EXCEPT ![r.call] = st]
    BY <1>6 DEF Deliver, Fails
  <2>2. r \in Reply /\ Asks(conn[k], r.op, r.call)
    BY <1>6, ReceivePacketType, ReceivePacketAsks DEF Deliver, TypeOK
  <2>3. r.op = "BEGIN" => pc[r.call] = "beginning"
    BY <2>2 DEF Staged, Reply
  <2> HIDE DEF r
  <2> QED
    BY <2>1, <2>3 DEF TypeOK
<1>7. ASSUME NEW k \in Conns, SocketError(k) PROVE pc[c] \in Early
  BY <1>7 DEF SocketError, Waiting, TypeOK
<1>8. ASSUME UNCHANGED pc PROVE pc[c] \in Early
  BY <1>8
<1> QED
  BY <1>1, <1>2, <1>3, <1>4, <1>5, <1>6, <1>7, <1>8
  DEF Next, Calling, Continue, End, PoolEnded, Execute, SessionEnds, Drop, vars

\* Only the server's executing a command adds to what is written.
LEMMA OnlyExecuteWrites ==
  ASSUME TypeOK, [Next]_vars, NEW c \in Calls
  PROVE  \/ \E result \in Result, writes \in BOOLEAN, j \in Conns : Execute(j, result, writes)
         \/ durable' = durable /\ \A k \in Conns : c \in db'[k].pending => c \in db[k].pending
<1> USE DEF stubVars
<1>1. ASSUME NEW d \in Calls, Connected(d)
      PROVE  durable' = durable /\ \A k \in Conns : c \in db'[k].pending => c \in db[k].pending
  <2>1. durable' = durable /\ db' = [db EXCEPT ![on[d]] = [db[on[d]] EXCEPT !.state = "open"]]
    BY <1>1 DEF Connected
  <2>2. \A k \in Conns : db[k] \in Session
    BY DEF TypeOK
  <2>3. \A k \in Conns : db'[k] = db[k] \/ db'[k] = [db[k] EXCEPT !.state = "open"]
    BY <2>1 DEF TypeOK
  <2> QED
    BY <2>1, <2>2, <2>3 DEF Session
<1>2. ASSUME NEW j \in Conns, SessionEnds(j) \/ Drop(j)
      PROVE  durable' = durable /\ \A k \in Conns : c \in db'[k].pending => c \in db[k].pending
  <2>1. durable' = durable /\ \E state \in SessionState : db' = [db EXCEPT ![j] = Over(db[j], state)]
    BY <1>2 DEF SessionEnds, Drop, SessionState
  <2>2. \A s \in Session, state \in SessionState : Over(s, state).pending = {}
    BY DEF Over, Session
  <2> QED
    BY <2>1, <2>2 DEF TypeOK
<1>3. ASSUME UNCHANGED <<db, durable>>
      PROVE  durable' = durable /\ \A k \in Conns : c \in db'[k].pending => c \in db[k].pending
  BY <1>3
<1> QED
  BY <1>1, <1>2, <1>3
  DEF Next, Calling, Continue, Reuse, Connect, ConnectFails, Check, Begun, Handled, HandledLater,
      Succeeds, _handleError, End, PoolEnded, Deliver, SocketError, vars

\* What executing a command adds: nothing but what was pending and the call of
\* the statement at the head of the wire.
LEMMA ExecuteWrites ==
  ASSUME TypeOK, NEW j \in Conns, NEW result \in Result, NEW writes \in BOOLEAN,
         Execute(j, result, writes)
  PROVE  LET h == Head(conn[j].wire) IN
         /\ h \in Command /\ Asks(conn[j], h.op, h.call)
         /\ \A c \in durable' : \/ c \in durable
                                \/ c \in db[j].pending
                                \/ h.op = "QUERY" /\ h.call = c
         /\ \A k \in Conns : \A c \in db'[k].pending :
              \/ c \in db[k].pending
              \/ k = j /\ h.op = "QUERY" /\ h.call = c
<1> DEFINE h == Head(conn[j].wire)
<1>1. /\ conn[j] \in Endpoint /\ conn[j].wire # <<>> /\ db[j] \in Session
      /\ durable' = durable \cup Persisted(db[j], h, writes)
      /\ db' = [db EXCEPT ![j] = Executed(db[j], h, result, writes)]
  BY DEF Execute, TypeOK
<1>2. h \in Command /\ Asks(conn[j], h.op, h.call)
  BY <1>1, ExecuteType, AnsweredAsks
<1> HIDE DEF h
<1>3. \A c \in Persisted(db[j], h, writes) : c \in db[j].pending \/ (h.op = "QUERY" /\ h.call = c)
  BY DEF Persisted
<1>4. \A c \in Executed(db[j], h, result, writes).pending :
        c \in db[j].pending \/ (h.op = "QUERY" /\ h.call = c)
  BY <1>1 DEF Executed, Session
<1> QED
  BY <1>1, <1>2, <1>3, <1>4 DEF TypeOK, h

\* No step gives an effect to a call whose statement was never issued.
LEMMA NextNoEffect ==
  StageInv /\ NoEffectBeforeBegin /\ [Next]_vars => NoEffectBeforeBegin'
<1> SUFFICES ASSUME StageInv, NoEffectBeforeBegin, [Next]_vars,
                    NEW c \in Calls, pc'[c] \in Early
             PROVE  c \notin durable' /\ \A k \in Conns : c \notin db'[k].pending
  BY DEF NoEffectBeforeBegin, Early
<1>1. c \notin durable /\ \A j \in Conns : c \notin db[j].pending
  BY EarlyNeverAgain DEF NoEffectBeforeBegin, Early
<1>2. ASSUME NEW result \in Result, NEW writes \in BOOLEAN, NEW j \in Conns,
             Execute(j, result, writes)
      PROVE  c \notin durable' /\ \A k \in Conns : c \notin db'[k].pending
  <2> DEFINE h == Head(conn[j].wire)
  <2>1. TypeOK
    BY DEF StageInv
  <2>2. h \in Command /\ Asks(conn[j], h.op, h.call)
    BY <1>2, <2>1, ExecuteWrites
  <2>3. h.op = "QUERY" => pc[h.call] = "querying"
    BY <2>2 DEF StageInv, Staged, Command
  <2>4. pc[c] # "querying"
    BY EarlyNeverAgain DEF Early
  <2> QED
    BY <1>1, <1>2, <2>1, <2>3, <2>4, ExecuteWrites
<1> QED
  BY <1>1, <1>2, OnlyExecuteWrites DEF StageInv

\* A call that was refused with CONNECTION_ALREADY_CLOSED, or that has not got
\* past START TRANSACTION, has no effect in the database and leaves none, for
\* any number of calls and connections, with or without a pool, whatever fails.
THEOREM RefusedCallsHaveNoEffect == Spec => []NoEffectBeforeBegin
<1>1. Init => NoEffectBeforeBegin
  BY DEF Init, NoEffectBeforeBegin, NewSession
<1> QED
  BY <1>1, InitStageInv, NextStageInv, NextNoEffect, PTL DEF Spec

-----------------------------------------------------------------------------
(* Crashes.                                                                 *)

\* A lost session stays lost.
LEMMA LostStaysLost ==
  ASSUME StageInv, [Next]_vars, NEW k \in Conns, db[k].state = "dropped"
  PROVE  db'[k].state = "dropped"
<1> USE DEF StageInv, stubVars
<1>1. ASSUME NEW c \in Calls, Connected(c) PROVE db'[k].state = "dropped"
  <2>1. proc = "running" /\ pc[c] = "connecting"
    BY <1>1 DEF Connected, Quiet, Idle
  <2>2. on[c] \in Conns /\ conn[on[c]].status = "connecting"
    BY <2>1 DEF Attached
  <2>3. db[on[c]] = NewSession
    BY <2>2 DEF Attached
  <2>4. k # on[c]
    BY <2>3 DEF NewSession
  <2> QED
    BY <1>1, <2>4 DEF Connected, TypeOK
<1>2. ASSUME NEW j \in Conns,
             \/ SessionEnds(j) \/ Drop(j)
             \/ \E result \in Result, writes \in BOOLEAN : Execute(j, result, writes)
      PROVE  db'[k].state = "dropped"
  <2>1. j # k /\ \E s : db' = [db EXCEPT ![j] = s]
    BY <1>2 DEF SessionEnds, Drop, Execute
  <2> QED
    BY <2>1 DEF TypeOK
<1>3. ASSUME UNCHANGED db PROVE db'[k].state = "dropped"
  BY <1>3
<1>4. ASSUME NEW c \in Calls, NEW m \in Modes, Reuse(c, m) \/ \E j \in Conns : Connect(c, m, j)
      PROVE  db'[k].state = "dropped"
  BY <1>3, <1>4 DEF Reuse, Connect
<1>5. ASSUME NEW c \in Calls, ConnectFails(c) \/ Check(c) \/ Begun(c) \/ Succeeds(c)
      PROVE  db'[k].state = "dropped"
  BY <1>3, <1>5 DEF ConnectFails, Check, Begun, Succeeds
<1>6. ASSUME NEW c \in Calls, Handled(c) \/ HandledLater(c) \/ _handleError(c)
      PROVE  db'[k].state = "dropped"
  BY <1>3, <1>6 DEF Handled, HandledLater, _handleError
<1>7. ASSUME NEW j \in Conns, Deliver(j) \/ SocketError(j) PROVE db'[k].state = "dropped"
  BY <1>3, <1>7 DEF Deliver, SocketError
<1>8. ASSUME End \/ PoolEnded \/ UNCHANGED vars PROVE db'[k].state = "dropped"
  BY <1>3, <1>8 DEF End, PoolEnded, vars
<1> QED
  BY <1>1, <1>2, <1>4, <1>5, <1>6, <1>7, <1>8 DEF Next, Calling, Continue

\* A step that crashes the process is the report of a lost connection: the
\* COMMIT that nobody awaits (line 270) always finds its connection open.
LEMMA CrashingStep ==
  ASSUME StageInv, [Next]_vars, proc' = "crashed"
  PROVE  proc = "crashed" \/ \E k \in Conns : db[k].state = "dropped"
<1>1. ASSUME NEW c \in Calls, Succeeds(c) PROVE proc' = proc
  <2>1. proc = "running" /\ pc[c] = "answered"
    BY <1>1 DEF Succeeds, Resumes
  <2>2. isValid(conn[on[c]])
    BY <2>1 DEF StageInv, ReadyIsLive
  <2> QED
    BY <1>1, <2>2 DEF Succeeds
<1>2. ASSUME NEW k \in Conns, SocketError(k) PROVE db[k].state = "dropped"
  BY <1>2 DEF SocketError
<1> DEFINE Alive == proc' = proc \/ proc' = "exited"
<1>3. ASSUME NEW c \in Calls, NEW m \in Modes, Reuse(c, m) \/ \E j \in Conns : Connect(c, m, j)
      PROVE  Alive
  BY <1>3 DEF Reuse, Connect
<1>4. ASSUME NEW c \in Calls, Connected(c) \/ ConnectFails(c) \/ Check(c) \/ Begun(c)
      PROVE  Alive
  BY <1>4 DEF Connected, ConnectFails, Check, Begun
<1>5. ASSUME NEW c \in Calls, Handled(c) \/ HandledLater(c) \/ _handleError(c)
      PROVE  Alive
  BY <1>5 DEF Handled, HandledLater, _handleError
<1>6. ASSUME End \/ PoolEnded \/ UNCHANGED vars PROVE Alive
  BY <1>6 DEF End, PoolEnded, vars
<1>7. ASSUME NEW k \in Conns,
             \/ Deliver(k) \/ SessionEnds(k) \/ Drop(k)
             \/ \E result \in Result, writes \in BOOLEAN : Execute(k, result, writes)
      PROVE  Alive
  BY <1>7 DEF Deliver, SessionEnds, Drop, Execute
<1>8. Alive \/ \E k \in Conns : SocketError(k)
  BY <1>1, <1>3, <1>4, <1>5, <1>6, <1>7 DEF Next, Calling, Continue
<1> QED
  BY <1>2, <1>8

\* After a connection was lost there is one that was lost.
LEMMA NextCrashOnlyOnLoss ==
  ASSUME StageInv, CrashOnlyOnLoss, [Next]_vars
  PROVE  CrashOnlyOnLoss'
<1> SUFFICES ASSUME proc' = "crashed" PROVE \E k \in Conns : db'[k].state = "dropped"
  BY DEF CrashOnlyOnLoss
<1>1. PICK k \in Conns : db[k].state = "dropped"
  BY CrashingStep DEF CrashOnlyOnLoss
<1> QED
  BY <1>1, LostStaysLost

\* However calls, errors and end() interleave, and whether or not there is a
\* pool, the process dies of an uncaught error only if a connection was lost.
THEOREM CrashesOnlyOnLoss == Spec => []CrashOnlyOnLoss
<1>1. Init => CrashOnlyOnLoss
  BY DEF Init, CrashOnlyOnLoss
<1>2. StageInv /\ CrashOnlyOnLoss /\ [Next]_vars => CrashOnlyOnLoss'
  BY NextCrashOnlyOnLoss
<1> QED
  BY <1>1, <1>2, InitStageInv, NextStageInv, PTL DEF Spec

-----------------------------------------------------------------------------
(* Connections of a program that awaits each call.                          *)

\* The inductive invariant behind ConnectionOwned: one call is in flight, and
\* while it makes a connection there is no other.
OwnedInv ==
  /\ StageInv
  /\ ~opt.pooled /\ pool = "none"
  /\ \A c, d \in Calls : pc[c] \in InFlight /\ pc[d] \in InFlight => c = d
  /\ \A k \in Conns : isValid(conn[k]) => k = stub
  /\ \A c \in Calls : pc[c] = "connecting" => \A k \in Conns : ~isValid(conn[k])

\* Without a pool, what the end of the stub does to its connections: it
\* forgets the one it held only with closing it.
LEMMA EndStubForgets ==
  ASSUME TypeOK, ~opt.pooled, NEW n \in Endpoint, EndStub(n)
  PROVE  /\ pool' = pool
         /\ \A k \in Conns : isValid(conn'[k]) => isValid(conn[k])
         /\ \A k \in Conns : isValid(conn'[k]) /\ k = stub => k = stub'
<1>1. CASE ~stubValid
  BY <1>1 DEF EndStub
<1>2. CASE stubValid
  <2>1. /\ pool' = pool /\ stub \in Conns /\ isValid(conn[stub])
        /\ conn' = [conn EXCEPT ![stub] = end(n)]
    BY <1>2 DEF EndStub, stubValid
  <2>2. conn'[stub] = end(n) /\ \A k \in Conns : k # stub => conn'[k] = conn[k]
    BY <2>1 DEF TypeOK
  <2>3. ~isValid(conn'[stub])
    BY <2>2, ClosingAsks DEF isValid
  <2> QED
    BY <2>1, <2>2, <2>3
<1> QED
  BY <1>1, <1>2

\* The steps of a call that write a command leave every status as it is.
LEMMA IssueKeepsStatus ==
  ASSUME TypeOK, NEW c \in Calls, NEW op \in {"BEGIN", "QUERY"}, NEW next, Issue(c, op, next)
  PROVE  \A k \in Conns : isValid(conn'[k]) => isValid(conn[k])
<1>1. CASE ~isValid(conn[on[c]])
  BY <1>1 DEF Issue
<1>2. CASE isValid(conn[on[c]])
  <2>1. conn' = [conn EXCEPT ![on[c]] = addCommand(conn[on[c]], op, c)]
    BY <1>2 DEF Issue
  <2>2. op \in Op /\ \A k \in Conns : conn[k] \in Endpoint
    BY DEF Op, TypeOK
  <2>3. \A k \in Conns : addCommand(conn[k], op, c).status = conn[k].status
    BY <2>2, AddCommandAsks
  <2> QED
    BY <2>1, <2>3 DEF TypeOK, isValid
<1> QED
  BY <1>1, <1>2

\* Without a pool, only Connected makes a connection valid or lets the stub
\* hold another, and only the end of the stub makes it forget one.
LEMMA OwnedSteps ==
  ASSUME StageInv, ~opt.pooled, pool = "none", [Next]_vars,
         \A c \in Calls : ~Connected(c)
  PROVE  /\ opt' = opt /\ pool' = pool
         /\ \A k \in Conns : isValid(conn'[k]) => isValid(conn[k])
         /\ \A k \in Conns : isValid(conn'[k]) /\ k = stub => k = stub'
<1> USE DEF StageInv, stubVars
<1> DEFINE Kept == /\ opt' = opt /\ pool' = pool
                   /\ \A k \in Conns : isValid(conn'[k]) => isValid(conn[k])
                   /\ \A k \in Conns : isValid(conn'[k]) /\ k = stub => k = stub'
<1>0. \A k \in Conns : conn[k] \in Endpoint
  BY DEF TypeOK
<1>1. ASSUME NEW c \in Calls, NEW m \in Modes, Reuse(c, m) PROVE Kept
  BY <1>1 DEF Reuse
<1>2. ASSUME NEW c \in Calls, NEW m \in Modes, NEW k \in Conns, Connect(c, m, k) PROVE Kept
  BY <1>2 DEF Connect, TypeOK, isValid
<1>3. ASSUME NEW c \in Calls, ConnectFails(c) PROVE Kept
  BY <1>3 DEF ConnectFails, TypeOK, isValid
<1>4. ASSUME NEW c \in Calls, Check(c) PROVE Kept
  BY <1>4, IssueKeepsStatus DEF Check
<1>5. ASSUME NEW c \in Calls, Begun(c) PROVE Kept
  BY <1>5, IssueKeepsStatus DEF Begun
<1>6. ASSUME NEW c \in Calls, Handled(c) \/ HandledLater(c) PROVE Kept
  BY <1>6 DEF Handled, HandledLater
<1>7. ASSUME NEW c \in Calls, Succeeds(c) PROVE Kept
  <2>1. \/ conn' = conn
        \/ conn' = [conn EXCEPT ![on[c]] = changeTransaction(conn[on[c]], "COMMIT", c)]
    BY <1>7 DEF Succeeds
  <2>2. \A k \in Conns : changeTransaction(conn[k], "COMMIT", c).status = conn[k].status
    BY <1>0, ChangeTransactionAsks DEF Op
  <2>3. \A k \in Conns : isValid(conn'[k]) => isValid(conn[k])
    BY <2>1, <2>2 DEF isValid, TypeOK
  <2> QED
    BY <1>7, <2>3 DEF Succeeds
<1>8. ASSUME NEW c \in Calls, _handleError(c) PROVE Kept
  <2>1. \/ UNCHANGED <<stub, pool, conn>>
        \/ EndStub(Undo(c))
    BY <1>8 DEF _handleError
  <2>2. opt' = opt
    BY <1>8 DEF _handleError
  <2> QED
    BY <2>1, <2>2, StubEndpointType, EndStubForgets
<1>9. ASSUME End PROVE Kept
  <2>1. /\ opt' = opt
        /\ EndStub(IF stubValid THEN conn[stub] ELSE NewEndpoint)
    BY <1>9 DEF End
  <2>2. (IF stubValid THEN conn[stub] ELSE NewEndpoint) \in Endpoint
    BY <1>0 DEF stubValid, NewEndpoint, Endpoint, Status
  <2> QED
    BY <2>1, <2>2, EndStubForgets
<1>10. ASSUME PoolEnded PROVE Kept
  BY <1>10 DEF PoolEnded
<1>11. ASSUME NEW j \in Conns, Deliver(j) PROVE Kept
  <2>1. conn' = [conn EXCEPT ![j] = receivePacket(conn[j])] /\ conn[j].replies # <<>>
    BY <1>11 DEF Deliver
  <2>2. receivePacket(conn[j]).status = conn[j].status
    BY <1>0, <2>1, ReceivePacketAsks
  <2> QED
    BY <1>11, <2>1, <2>2 DEF Deliver, isValid, TypeOK
<1>12. ASSUME NEW j \in Conns, SocketError(j) PROVE Kept
  <2>1. conn' = [conn EXCEPT ![j] = fatalError(conn[j])]
    BY <1>12 DEF SocketError
  <2>2. fatalError(conn[j]).status = "closed"
    BY <1>0, ClosingAsks
  <2> QED
    BY <1>12, <2>1, <2>2 DEF SocketError, isValid, TypeOK
<1>13. ASSUME NEW j \in Conns, NEW result \in Result, NEW writes \in BOOLEAN,
              Execute(j, result, writes)
       PROVE Kept
  <2>1. PICK tx : conn' = [conn EXCEPT ![j] = Answered(conn[j], result, tx)]
    BY <1>13 DEF Execute
  <2>2. Answered(conn[j], result, tx).status = conn[j].status
    BY <1>0 DEF Answered, Endpoint
  <2> QED
    BY <1>13, <2>1, <2>2 DEF Execute, isValid, TypeOK
<1>14. ASSUME NEW j \in Conns, SessionEnds(j) \/ Drop(j) PROVE Kept
  BY <1>14 DEF SessionEnds, Drop
<1>15. ASSUME UNCHANGED vars PROVE Kept
  BY <1>15 DEF vars
<1> QED
  BY <1>1, <1>2, <1>3, <1>4, <1>5, <1>6, <1>7, <1>8, <1>9, <1>10, <1>11, <1>12, <1>13,
     <1>14, <1>15 DEF Next, Calling, Continue

\* A call begins only by being made, and a connection is made only for it.
LEMMA InFlightSteps ==
  ASSUME StageInv, [Next]_vars, NEW c \in Calls, pc'[c] \in InFlight, pc[c] \notin InFlight
  PROVE  \/ \E m \in Modes : Reuse(c, m)
         \/ \E m \in Modes, k \in Conns : Connect(c, m, k)
<1> USE DEF StageInv, stubVars
<1> DEFINE Made == \/ \E m \in Modes : Reuse(c, m)
                   \/ \E m \in Modes, k \in Conns : Connect(c, m, k)
<1>1. ASSUME NEW d \in Calls, NEW m \in Modes, Reuse(d, m) \/ \E k \in Conns : Connect(d, m, k)
      PROVE Made
  BY <1>1 DEF Reuse, Connect, TypeOK
<1>2. ASSUME NEW d \in Calls, Connected(d) \/ ConnectFails(d) PROVE FALSE
  BY <1>2 DEF Connected, ConnectFails, TypeOK, InFlight
<1>3. ASSUME NEW d \in Calls, Check(d) \/ Begun(d) PROVE FALSE
  BY <1>3 DEF Check, Begun, Resumes, Issue, Fails, TypeOK, InFlight, Continuation
<1>4. ASSUME NEW d \in Calls, Handled(d) \/ HandledLater(d) \/ Succeeds(d) PROVE FALSE
  BY <1>4 DEF Handled, HandledLater, Succeeds, HandlerSettles, Resumes, Fails, TypeOK, InFlight,
              Continuation
<1>5. ASSUME NEW d \in Calls, _handleError(d) PROVE FALSE
  BY <1>5 DEF _handleError, Resumes, TypeOK, InFlight, Continuation
<1>6. ASSUME NEW k \in Conns, Deliver(k) PROVE FALSE
  <2>1. conn[k] \in Endpoint /\ conn[k].replies # <<>>
    BY <1>6 DEF Deliver, TypeOK
  <2> DEFINE r == Head(conn[k].replies)
  <2>2. r \in Reply /\ Asks(conn[k], r.op, r.call)
    BY <2>1, ReceivePacketType, ReceivePacketAsks
  <2>3. r.op \in {"BEGIN", "QUERY"} => pc[r.call] \in InFlight
    BY <2>2 DEF Staged, InFlight, Reply
  <2> QED
    BY <1>6, <2>2, <2>3 DEF Deliver, Fails, TypeOK
<1>7. ASSUME NEW k \in Conns, SocketError(k) PROVE FALSE
  BY <1>7 DEF SocketError, Waiting, InFlight, TypeOK
<1>8. ASSUME NEW k \in Conns,
             \/ SessionEnds(k) \/ Drop(k)
             \/ \E result \in Result, writes \in BOOLEAN : Execute(k, result, writes)
      PROVE FALSE
  BY <1>8 DEF Execute, SessionEnds, Drop
<1>9. ASSUME End \/ PoolEnded \/ UNCHANGED vars PROVE FALSE
  BY <1>9 DEF End, PoolEnded, vars
<1>10. Made
  <2> HIDE DEF Made
  <2> QED
    BY <1>1, <1>2, <1>3, <1>4, <1>5, <1>6, <1>7, <1>8, <1>9 DEF Next, Calling, Continue
<1> QED
  BY <1>10

\* A call begins to connect only when the stub holds no valid connection.
LEMMA ConnectingSteps ==
  ASSUME StageInv, [Next]_vars, NEW c \in Calls, pc'[c] = "connecting", pc[c] # "connecting"
  PROVE  ~stubValid
<1> USE DEF StageInv, stubVars
<1>1. ASSUME NEW d \in Calls, NEW m \in Modes, Reuse(d, m) PROVE FALSE
  BY <1>1 DEF Reuse, TypeOK
<1>2. ASSUME NEW d \in Calls, NEW m \in Modes, NEW k \in Conns, Connect(d, m, k) PROVE ~stubValid
  BY <1>2 DEF Connect
<1>3. ASSUME NEW d \in Calls, Connected(d) \/ ConnectFails(d) PROVE FALSE
  BY <1>3 DEF Connected, ConnectFails, TypeOK
<1>4. ASSUME NEW d \in Calls, Check(d) \/ Begun(d) PROVE FALSE
  BY <1>4 DEF Check, Begun, Resumes, Issue, Fails, TypeOK
<1>5. ASSUME NEW d \in Calls, Handled(d) \/ HandledLater(d) \/ Succeeds(d) PROVE FALSE
  BY <1>5 DEF Handled, HandledLater, Succeeds, HandlerSettles, Resumes, Fails, TypeOK
<1>6. ASSUME NEW d \in Calls, _handleError(d) PROVE FALSE
  BY <1>6 DEF _handleError, Resumes, TypeOK
<1>7. ASSUME NEW k \in Conns, Deliver(k) \/ SocketError(k) PROVE FALSE
  BY <1>7 DEF Deliver, SocketError, Fails, TypeOK
<1>8. ASSUME NEW k \in Conns,
             \/ SessionEnds(k) \/ Drop(k)
             \/ \E result \in Result, writes \in BOOLEAN : Execute(k, result, writes)
      PROVE FALSE
  BY <1>8 DEF Execute, SessionEnds, Drop
<1>9. ASSUME End \/ PoolEnded \/ UNCHANGED vars PROVE FALSE
  BY <1>9 DEF End, PoolEnded, vars
<1> QED
  BY <1>1, <1>2, <1>3, <1>4, <1>5, <1>6, <1>7, <1>8, <1>9 DEF Next, Calling, Continue

\* While one call is in flight, a second one may only be made by a program that
\* is not sequential.
LEMMA MadeAlone ==
  ASSUME Sequential, NEW c \in Calls,
         \/ \E m \in Modes : Reuse(c, m)
         \/ \E m \in Modes, k \in Conns : Connect(c, m, k)
  PROVE  \A d \in Calls : pc[d] \notin InFlight
  BY DEF Reuse, Connect, MayCall

\* OwnedInv is inductive.
LEMMA NextOwnedInv ==
  ASSUME Sequential, OwnedInv, [Next]_vars
  PROVE  OwnedInv'
<1> DEFINE Alone   == \A c, d \in Calls : pc[c] \in InFlight /\ pc[d] \in InFlight => c = d
           Owned   == \A k \in Conns : isValid(conn[k]) => k = stub
           Nothing == \A c \in Calls : pc[c] = "connecting" => \A k \in Conns : ~isValid(conn[k])
<1>1. StageInv' /\ StageInv
  BY NextStageInv DEF OwnedInv
<1>2. Alone'
  <2> SUFFICES ASSUME NEW c \in Calls, NEW d \in Calls, pc'[c] \in InFlight, pc'[d] \in InFlight
               PROVE  c = d
    BY DEF InFlight
  <2>1. CASE pc[c] \in InFlight /\ pc[d] \in InFlight
    BY <2>1 DEF OwnedInv
  <2>2. ASSUME NEW e \in Calls, pc'[e] \in InFlight, pc[e] \notin InFlight
        PROVE  /\ \A f \in Calls : pc[f] \notin InFlight
               /\ \A f \in Calls : f # e => pc'[f] = pc[f]
    <3>1. \/ \E m \in Modes : Reuse(e, m)
          \/ \E m \in Modes, k \in Conns : Connect(e, m, k)
      BY <1>1, <2>2, InFlightSteps
    <3>2. \A f \in Calls : f # e => pc'[f] = pc[f]
      BY <1>1, <3>1 DEF Reuse, Connect, StageInv, TypeOK
    <3> QED
      BY <3>1, <3>2, MadeAlone
  <2> QED
    BY <2>1, <2>2
<1>3. ASSUME NEW c \in Calls, Connected(c)
      PROVE  (~opt.pooled /\ pool = "none")' /\ Owned' /\ Nothing'
  <2>1. /\ opt' = opt /\ pool' = pool /\ pc[c] = "connecting"
        /\ on[c] \in Conns /\ stub' = on[c]
        /\ \A k \in Conns : k # on[c] => conn'[k] = conn[k]
        /\ pc'[c] # "connecting"
        /\ \A d \in Calls : d # c => pc'[d] = pc[d]
    BY <1>1, <1>3 DEF Connected, StageInv, TypeOK, Attached
  <2>2. \A k \in Conns : ~isValid(conn[k])
    BY <2>1 DEF OwnedInv
  <2>3. \A d \in Calls : d # c => pc[d] # "connecting"
    BY <2>1 DEF OwnedInv, InFlight
  <2> QED
    BY <2>1, <2>2, <2>3 DEF OwnedInv, isValid
<1>4. ASSUME \A c \in Calls : ~Connected(c)
      PROVE  (~opt.pooled /\ pool = "none")' /\ Owned' /\ Nothing'
  <2>1. /\ opt' = opt /\ pool' = pool
        /\ \A k \in Conns : isValid(conn'[k]) => isValid(conn[k])
        /\ \A k \in Conns : isValid(conn'[k]) /\ k = stub => k = stub'
    BY <1>1, <1>4, OwnedSteps DEF OwnedInv
  <2>2. Owned'
    BY <2>1 DEF OwnedInv, isValid
  <2>3. ASSUME NEW c \in Calls, pc'[c] = "connecting", NEW k \in Conns, isValid(conn[k])
        PROVE  FALSE
    <3>1. pc[c] # "connecting"
      BY <2>3 DEF OwnedInv
    <3>2. k = stub /\ stubValid
      BY <2>3 DEF OwnedInv, stubValid
    <3> QED
      BY <1>1, <2>3, <3>1, <3>2, ConnectingSteps
  <2>4. Nothing'
    BY <2>1, <2>3 DEF isValid
  <2> QED
    BY <2>1, <2>2, <2>4 DEF OwnedInv
<1>5. (~opt.pooled /\ pool = "none")' /\ Owned' /\ Nothing'
  BY <1>3, <1>4
<1> QED
  BY <1>1, <1>2, <1>5 DEF OwnedInv, InFlight

\* A program that awaits each call and uses no pool has one live connection at
\* most, and it is the one that end() will close: none is left open behind it.
THEOREM SequentialConnectionOwned ==
  ASSUME Sequential, \A o \in Options : ~o.pooled
  PROVE  Spec => []ConnectionOwned
<1>1. Init => OwnedInv
  BY InitStageInv DEF Init, OwnedInv, InFlight, Continuation, isValid, NewEndpoint
<1>2. OwnedInv /\ [Next]_vars => OwnedInv'
  BY NextOwnedInv
<1>3. OwnedInv => ConnectionOwned
  BY DEF OwnedInv, ConnectionOwned
<1> QED
  BY <1>1, <1>2, <1>3, PTL DEF Spec

=============================================================================
