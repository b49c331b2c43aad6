---------------------------- MODULE DeliveryProofs ----------------------------
(***************************************************************************)
(* Proofs about the ways out of the process: the SMS failover for any      *)
(* number of messages and every environment, the request of network.js for *)
(* any number of requests and chunks, and the mailer for any number of     *)
(* messengers, calls, recipients and users; first each by itself, then     *)
(* composed.                                                               *)
(***************************************************************************)
EXTENDS Services, FiniteSetTheorems, TLAPS

-----------------------------------------------------------------------------
(* The SMS failover.                                                        *)

\* One call of smsFailover moves to another state.
LEMMA AttemptMoves ==
  ASSUME NEW f \in [Messages -> [Attempt -> AttemptState]],
         NEW m \in Messages, NEW a \in Attempt, NEW s \in AttemptState
  PROVE  [f EXCEPT ![m][a] = s] \in [Messages -> [Attempt -> AttemptState]]
  OBVIOUS

\* The states in which smsFailover, the list request and the post leave a call.
LEMMA AttemptStates ==
  /\ {"noprovider", "thrown", "listing"} \subseteq AttemptState
  /\ {"posting", "sent", "gaveup"} \subseteq AttemptState
  BY DEF AttemptState

\* smsFailover assigns `attempt` and `caller` values of their types.
LEMMA FailoverTypes ==
  ASSUME TypeOK, NEW m \in Messages, NEW a \in Attempt, smsFailover(m, a)
  PROVE  /\ caller' \in [Messages -> {"idle", "waiting", "sent", "failed"}]
         /\ attempt' \in [Messages -> [Attempt -> AttemptState]]
<1>1. caller' \in [Messages -> {"idle", "waiting", "sent", "failed"}]
  BY DEF TypeOK, smsFailover, Settle
<1>2. attempt' \in [Messages -> [Attempt -> AttemptState]]
  <2>1. PICK s \in AttemptState : attempt' = [attempt EXCEPT ![m][a] = s]
    BY AttemptStates DEF smsFailover
  <2>2. attempt \in [Messages -> [Attempt -> AttemptState]]
    BY DEF TypeOK
  <2> QED
    BY <2>1, <2>2, AttemptMoves
<1> QED
  BY <1>1, <1>2

\* Each action keeps the types of what it assigns.
LEMMA TypeStep == TypeOK /\ [Next]_vars => TypeOK'
<1> SUFFICES ASSUME TypeOK, [Next]_vars PROVE TypeOK'
  OBVIOUS
<1>1. CASE UNCHANGED vars
  BY <1>1 DEF vars, TypeOK
<1>2. CASE Next
  <2> PICK m \in Messages :
        \/ SendDirect(m) \/ SendPrimary(m) \/ SendThrows(m) \/ TimerFires(m)
        \/ GatewayTakes(m) \/ StatusNot200(m) \/ Status200(m) \/ Data(m)
        \/ End(m) \/ RequestError(m) \/ CutShort(m)
        \/ \E a \in Attempt : OvhListed(m, a) \/ OvhTakes(m, a) \/ OvhAnswers(m, a)
    BY <1>2 DEF Next
  <2>0. ASSUME NEW a \in Attempt, smsFailover(m, a), UNCHANGED <<env, accepted>>,
               proc' \in {"running", "crashed"},
               timer' \in [Messages -> {"unset", "armed", "fired", "cleared"}],
               request' \in [Messages -> {"none", "open", "unread", "closed"} \cup Body]
        PROVE  TypeOK'
    BY <2>0, FailoverTypes DEF TypeOK
  <2>1. CASE SendDirect(m)
    BY <2>0, <2>1 DEF SendDirect, Running, TypeOK, Attempt
  <2>2. CASE SendPrimary(m) \/ SendThrows(m)
    BY <2>2 DEF SendPrimary, SendThrows, Running, TypeOK
  <2>3. CASE TimerFires(m)
    BY <2>0, <2>3 DEF TimerFires, Running, TypeOK, Attempt
  <2>4. CASE GatewayTakes(m)
    BY <2>4 DEF GatewayTakes, TypeOK, Copy
  <2>5. CASE StatusNot200(m)
    BY <2>0, <2>5 DEF StatusNot200, PrimaryRejects, Running, TypeOK, Attempt
  <2>6. CASE Status200(m) \/ Data(m) \/ CutShort(m)
    BY <2>6 DEF Status200, Data, CutShort, Running, TypeOK, Body
  <2>7. CASE End(m)
    <3>1. CASE PrimaryRejects(m)
      BY <2>0, <2>7, <3>1 DEF End, PrimaryRejects, Running, TypeOK, Attempt
    <3>2. CASE Crash
      BY <2>7, <3>2 DEF End, Crash, Running, TypeOK
    <3>3. CASE PrimaryResolves(m)
      BY <2>7, <3>3 DEF End, PrimaryResolves, Settle, Running, TypeOK
    <3> QED
      BY <2>7, <3>1, <3>2, <3>3 DEF End, EndParsed, EndUnparsed
  <2>8. CASE RequestError(m)
    <3>1. CASE PrimaryRejects(m)
      BY <2>0, <2>8, <3>1 DEF RequestError, PrimaryRejects, Running, TypeOK, Attempt
    <3>2. CASE Crash
      BY <2>8, <3>2 DEF RequestError, Crash, Running, TypeOK
    <3> QED
      BY <2>8, <3>1, <3>2 DEF RequestError
  <2>9. ASSUME NEW a \in Attempt, OvhListed(m, a) \/ OvhTakes(m, a) \/ OvhAnswers(m, a)
        PROVE  TypeOK'
    <3>1. CASE OvhListed(m, a) \/ OvhAnswers(m, a)
      <4>1. caller' \in [Messages -> {"idle", "waiting", "sent", "failed"}]
        BY <3>1 DEF OvhListed, OvhAnswers, Settle, TypeOK
      <4>2. attempt' \in [Messages -> [Attempt -> AttemptState]]
        <5>1. PICK s \in AttemptState : attempt' = [attempt EXCEPT ![m][a] = s]
          BY <3>1, AttemptStates DEF OvhListed, OvhAnswers
        <5>2. attempt \in [Messages -> [Attempt -> AttemptState]]
          BY DEF TypeOK
        <5> QED
          BY <5>1, <5>2, AttemptMoves
      <4> QED
        BY <3>1, <4>1, <4>2 DEF OvhListed, OvhAnswers, Running, TypeOK
    <3>2. CASE OvhTakes(m, a)
      BY <3>2 DEF OvhTakes, TypeOK, Copy
    <3> QED
      BY <2>9, <3>1, <3>2
  <2> QED
    BY <2>1, <2>2, <2>3, <2>4, <2>5, <2>6, <2>7, <2>8, <2>9
<1> QED
  BY <1>1, <1>2

\* For any number of messages, hosts and orders of answers, every variable stays
\* within its type: no call of sendSms throws past its promise.
THEOREM MessageTypes == Spec => []TypeOK
<1>1. Init => TypeOK
  BY EnvironmentsAssumption DEF Init, TypeOK, Body, AttemptState
<1> QED
  BY <1>1, TypeStep, PTL DEF Spec

SafetyInv == SentIsAccepted /\ InTimeInv

\* A failover leaves its trace in `attempt`, and reports failure only.
LEMMA FailoverStep ==
  ASSUME TypeOK, NEW m \in Messages, NEW a \in Attempt, smsFailover(m, a)
  PROVE  /\ \A n \in Messages \ {m} : caller'[n] = caller[n] /\ attempt'[n] = attempt[n]
         /\ caller'[m] = "sent" => caller[m] = "sent"
         /\ attempt'[m][a] # "none"
  BY DEF smsFailover, Settle, TypeOK

\* The invariant behind SentIsAccepted and InTimeIsFinal is inductive.
LEMMA SafetyStep == TypeOK /\ SafetyInv /\ [Next]_vars => SafetyInv'
<1> SUFFICES ASSUME TypeOK, SafetyInv, [Next]_vars PROVE SafetyInv'
  OBVIOUS
<1> USE DEF SafetyInv, SentIsAccepted, InTimeInv, NoFailover
<1>1. CASE UNCHANGED vars
  BY <1>1 DEF vars
<1>2. CASE Next
  <2> PICK m \in Messages :
        \/ SendDirect(m) \/ SendPrimary(m) \/ SendThrows(m) \/ TimerFires(m)
        \/ GatewayTakes(m) \/ StatusNot200(m) \/ Status200(m) \/ Data(m)
        \/ End(m) \/ RequestError(m) \/ CutShort(m)
        \/ \E a \in Attempt : OvhListed(m, a) \/ OvhTakes(m, a) \/ OvhAnswers(m, a)
    BY <1>2 DEF Next
  <2> DEFINE FailsOver == \E a \in Attempt : smsFailover(m, a)
  <2>0. ASSUME FailsOver, UNCHANGED accepted,
               \A n \in Messages \ {m} : timer'[n] = timer[n] /\ request'[n] = request[n]
        PROVE  SafetyInv'
    <3> PICK a \in Attempt : smsFailover(m, a)
      BY <2>0
    <3>1. \A n \in Messages \ {m} : caller'[n] = caller[n] /\ attempt'[n] = attempt[n]
      BY FailoverStep
    <3>2. (caller'[m] = "sent" => caller[m] = "sent") /\ attempt'[m][a] # "none"
      BY FailoverStep
    <3> QED
      BY <2>0, <3>1, <3>2
  <2>1. CASE SendDirect(m)
    BY <2>0, <2>1 DEF SendDirect, Running, Attempt
  <2>2. CASE SendPrimary(m) \/ SendThrows(m)
    <3>1. caller'[m] # "sent" /\ attempt' = attempt /\ accepted' = accepted
      BY <2>2 DEF SendPrimary, SendThrows, TypeOK
    <3>2. \A n \in Messages \ {m} :
            caller'[n] = caller[n] /\ timer'[n] = timer[n] /\ request'[n] = request[n]
      BY <2>2 DEF SendPrimary, SendThrows, TypeOK
    <3> QED
      BY <3>1, <3>2
  <2>3. CASE TimerFires(m)
    BY <2>0, <2>3 DEF TimerFires, Running, Attempt, TypeOK
  <2>4. CASE GatewayTakes(m)
    BY <2>4 DEF GatewayTakes, TypeOK
  <2>5. CASE StatusNot200(m)
    BY <2>0, <2>5 DEF StatusNot200, PrimaryRejects, Running, Attempt, TypeOK
  <2>6. CASE Status200(m) \/ Data(m) \/ CutShort(m)
    BY <2>6 DEF Status200, Data, CutShort, Running, TypeOK, Body
  <2>7. CASE End(m)
    <3>1. CASE PrimaryRejects(m)
      BY <2>0, <2>7, <3>1 DEF End, PrimaryRejects, Running, Attempt, TypeOK
    <3>2. CASE Crash
      BY <2>7, <3>2 DEF End, Crash, Running, TypeOK, Body
    <3>3. CASE PrimaryResolves(m) /\ "smsfactor" \in accepted[m]
      BY <2>7, <3>3 DEF End, PrimaryResolves, Settle, Running, TypeOK
    <3> QED
      BY <2>7, <3>1, <3>2, <3>3 DEF End, EndParsed, EndUnparsed
  <2>8. CASE RequestError(m)
    <3>1. CASE PrimaryRejects(m)
      BY <2>0, <2>8, <3>1 DEF RequestError, PrimaryRejects, Running, Attempt, TypeOK
    <3>2. CASE Crash
      BY <2>8, <3>2 DEF RequestError, Crash, Running, TypeOK
    <3> QED
      BY <2>8, <3>1, <3>2 DEF RequestError
  <2>9. ASSUME NEW a \in Attempt, OvhListed(m, a) \/ OvhTakes(m, a) \/ OvhAnswers(m, a)
        PROVE  SafetyInv'
    <3>1. \A n \in Messages \ {m} : /\ caller'[n] = caller[n]
                                    /\ attempt'[n] = attempt[n]
                                    /\ accepted'[n] = accepted[n]
      BY <2>9 DEF OvhListed, OvhTakes, OvhAnswers, Settle, TypeOK
    <3>2. UNCHANGED <<timer, request>> /\ ~NoFailover(m)' /\ accepted[m] \subseteq accepted'[m]
      BY <2>9 DEF OvhListed, OvhTakes, OvhAnswers, TypeOK
    <3>3. caller'[m] = "sent" => caller[m] = "sent" \/ accepted'[m] # {}
      BY <2>9 DEF OvhListed, OvhTakes, OvhAnswers, Settle, TypeOK
    <3> QED
      BY <3>1, <3>2, <3>3
  <2> QED
    BY <2>1, <2>2, <2>3, <2>4, <2>5, <2>6, <2>7, <2>8, <2>9
<1> QED
  BY <1>1, <1>2

\* At first no caller has been told anything.
LEMMA SafetyInit == Init => SafetyInv
  BY DEF Init, SafetyInv, SentIsAccepted, InTimeInv

\* Whoever the promise of sendSms tells "sent" has a message that a gateway has
\* taken, whichever answer came first (mfa.js:55-77).
THEOREM SentMessagesAreAccepted == Spec => []SentIsAccepted
<1>1. SafetyInv => SentIsAccepted
  BY DEF SafetyInv
<1> QED
  BY <1>1, SafetyInit, SafetyStep, MessageTypes, PTL DEF Spec

\* From the invariant: no action that starts a failover is enabled.
LEMMA NoLateFailover ==
  ASSUME TypeOK, InTimeInv, [Next]_vars, NEW m \in Messages,
         caller[m] = "sent", NoFailover(m)
  PROVE  NoFailover(m)'
<1> USE DEF NoFailover
<1>1. timer[m] # "armed" /\ request[m] = "closed"
  BY DEF InTimeInv
<1>2. CASE UNCHANGED vars
  BY <1>2 DEF vars
<1>3. CASE Next
  <2> PICK n \in Messages :
        \/ SendDirect(n) \/ SendPrimary(n) \/ SendThrows(n) \/ TimerFires(n)
        \/ GatewayTakes(n) \/ StatusNot200(n) \/ Status200(n) \/ Data(n)
        \/ End(n) \/ RequestError(n) \/ CutShort(n)
        \/ \E a \in Attempt : OvhListed(n, a) \/ OvhTakes(n, a) \/ OvhAnswers(n, a)
    BY <1>3 DEF Next
  <2>1. ASSUME NEW a \in Attempt, smsFailover(n, a), n # m
        PROVE  NoFailover(m)'
    BY <2>1, FailoverStep
  <2>2. CASE n # m
    <3>1. CASE SendDirect(n) \/ TimerFires(n) \/ StatusNot200(n)
      BY <2>1, <2>2, <3>1 DEF SendDirect, TimerFires, StatusNot200, PrimaryRejects, Attempt
    <3>2. CASE End(n) \/ RequestError(n)
      BY <2>1, <2>2, <3>2 DEF End, EndParsed, EndUnparsed, RequestError,
           PrimaryResolves, PrimaryRejects, Crash, Attempt
    <3>3. CASE \/ SendPrimary(n) \/ SendThrows(n) \/ GatewayTakes(n)
               \/ Status200(n) \/ Data(n) \/ CutShort(n)
      BY <3>3 DEF SendPrimary, SendThrows, GatewayTakes, Status200, Data, CutShort
    <3>4. ASSUME NEW a \in Attempt, OvhListed(n, a) \/ OvhTakes(n, a) \/ OvhAnswers(n, a)
          PROVE  NoFailover(m)'
      BY <2>2, <3>4 DEF OvhListed, OvhTakes, OvhAnswers, TypeOK
    <3> QED
      BY <3>1, <3>2, <3>3, <3>4
  <2>3. CASE n = m
    BY <1>1, <2>3 DEF SendDirect, SendPrimary, SendThrows, TimerFires, GatewayTakes,
         StatusNot200, Status200, Data, End, RequestError, CutShort, Body,
         OvhListed, OvhTakes, OvhAnswers
  <2> QED
    BY <2>2, <2>3
<1> QED
  BY <1>2, <1>3

\* After a success of smsfactor before any failover has begun, neither the timer
\* nor a later event of the request starts one.
THEOREM SuccessInTimeIsFinal == Spec => InTimeIsFinal
<1>1. TypeOK /\ SafetyInv /\ [Next]_vars =>
        [\A m \in Messages : caller[m] = "sent" /\ NoFailover(m) => NoFailover(m)']_vars
  BY NoLateFailover DEF SafetyInv
<1> QED
  BY <1>1, SafetyInit, SafetyStep, MessageTypes, PTL DEF Spec, InTimeIsFinal

-----------------------------------------------------------------------------
(* The request.                                                             *)

Files == [exists : BOOLEAN, data : [1..MaxChunks -> Requests \cup {Nobody}]]

\* A file is no longer than its last place.
LEMMA SizeBound == ASSUME NEW f PROVE Size(f) \in 0..MaxChunks
<1> DEFINE held == {n \in 1..MaxChunks : \E last \in n..MaxChunks : f.data[last] # Nobody}
<1>1. MaxChunks \in Nat /\ held \subseteq 1..MaxChunks
  BY NetworkAssumption
<1>2. IsFiniteSet(1..MaxChunks) /\ Cardinality(1..MaxChunks) = MaxChunks
  BY <1>1, FS_Interval
<1>3. IsFiniteSet(held) /\ Cardinality(held) <= MaxChunks
  <2> HIDE DEF held
  <2> QED
    BY <1>1, <1>2, FS_Subset
<1>4. Cardinality(held) \in Nat
  BY <1>3, FS_CardinalityType
<1> QED
  BY <1>1, <1>3, <1>4 DEF Size

Streams == [state : {"none", "opening", "open", "closed"}, ended : BOOLEAN,
            chunks : Nat, written : Nat]

RequestTypes ==
  /\ req \in [Requests -> [pc : {"idle", "waiting", "reading", "broken", "later"} \cup Settled,
                           body : Nat, read : Nat, md5Hash : Nat,
                           result : [size : 0..MaxChunks, md5Hash : Nat]]]
  /\ stream \in [Requests -> Streams]
  /\ file \in Files
  /\ process \in {"running", "crashed"}

\* One request and its stream: what is hashed is what was read, and so is what
\* was handed to the stream, which writes no more; whoever is past the end has
\* read the whole body.
Accounted(r) ==
  /\ req[r].md5Hash = req[r].read
  /\ stream[r].state # "none" => stream[r].chunks = req[r].read
  /\ req[r].pc \in {"idle", "waiting"} => req[r].read = 0
  /\ req[r].pc = "idle" => stream[r].chunks = 0
  /\ req[r].pc = "later" => req[r].read = req[r].body
  /\ req[r].pc = "resolved" => req[r].result.md5Hash = req[r].body
  /\ req[r].read <= req[r].body /\ req[r].body <= MaxChunks
  /\ req[r].result.md5Hash <= MaxChunks
  /\ stream[r].state = "none" => stream[r].chunks = 0
  /\ stream[r].written <= stream[r].chunks

RequestInv ==
  /\ RequestTypes
  /\ \A r \in Requests : Accounted(r)
  /\ CrashesAreLocal

\* A step that leaves the process running, and everything but one request and
\* its stream, keeps the invariant if it does so for that request.
LEMMA OneRequest ==
  ASSUME RequestInv, RequestTypes', NEW r \in Requests, Accounted(r)', process' = "running",
         \A o \in Requests \ {r} : req'[o] = req[o] /\ stream'[o] = stream[o]
  PROVE  RequestInv'
<1>1. \A o \in Requests : Accounted(o)'
  BY DEF RequestInv, Accounted
<1>2. CrashesAreLocal'
  BY DEF CrashesAreLocal
<1> QED
  BY <1>1, <1>2 DEF RequestInv

\* The step of an error nobody listens to.
LEMMA DiesInv ==
  ASSUME RequestInv, Dies,
         \E r \in Requests :
           \/ stream[r].state = "opening"
           \/ stream[r].state = "open" /\ (stream[r].written < stream[r].chunks \/ stream[r].ended)
           \/ stream[r].state = "none" /\ req[r].pc = "reading" /\ req[r].read = req[r].body
  PROVE  RequestInv'
  BY DEF RequestInv, RequestTypes, Dies, Accounted, CrashesAreLocal

\* The steps of the write stream.
LEMMA StreamInv ==
  ASSUME RequestInv, NEW r \in Requests, StreamStep(r)
  PROVE  RequestInv'
<1>1. CASE StreamOpens(r) /\ Dies
  BY <1>1, DiesInv DEF StreamOpens
<1>2. CASE StreamOpens(r) /\ ~Dies
  <2>1. /\ stream' = [stream EXCEPT ![r].state = "open"] /\ stream[r].state = "opening"
        /\ file' = [exists |-> TRUE, data |-> [n \in 1..MaxChunks |-> Nobody]]
        /\ req' = req /\ process' = process /\ process = "running"
    BY <1>2 DEF StreamOpens
  <2>2. file' \in Files
    BY <2>1 DEF Files
  <2>3. /\ stream' \in [Requests -> Streams]
        /\ stream'[r].chunks = stream[r].chunks /\ stream'[r].state = "open"
        /\ \A o \in Requests \ {r} : stream'[o] = stream[o]
    BY <2>1 DEF RequestInv, RequestTypes, Streams
  <2>4. RequestTypes'
    BY <2>1, <2>2, <2>3 DEF RequestInv, RequestTypes
  <2>5. Accounted(r)'
    BY <2>1, <2>3 DEF RequestInv, Accounted
  <2> QED
    BY <2>1, <2>3, <2>4, <2>5, OneRequest
<1>4. CASE (StreamWrites(r) \/ StreamCloses(r)) /\ Dies
  BY <1>4, DiesInv DEF StreamWrites, StreamCloses
<1>5. CASE StreamCloses(r) /\ ~Dies
  <2>1. /\ stream' = [stream EXCEPT ![r].state = "closed"] /\ stream[r].state = "open"
        /\ UNCHANGED <<req, file, process>> /\ process = "running"
    BY <1>5 DEF StreamCloses
  <2>2. /\ stream' \in [Requests -> Streams]
        /\ stream'[r].chunks = stream[r].chunks /\ stream'[r].state = "closed"
        /\ stream'[r].written = stream[r].written
        /\ \A o \in Requests \ {r} : stream'[o] = stream[o]
    BY <2>1 DEF RequestInv, RequestTypes, Streams
  <2>3. RequestTypes'
    BY <2>1, <2>2 DEF RequestInv, RequestTypes
  <2>4. Accounted(r)'
    BY <2>1, <2>2 DEF RequestInv, Accounted
  <2> QED
    BY <2>1, <2>2, <2>3, <2>4, OneRequest
<1>3. CASE StreamWrites(r) /\ ~Dies
  <2>1. /\ stream' = [stream EXCEPT ![r].written = @ + 1] /\ stream[r].state = "open"
        /\ file' = [file EXCEPT !.data[stream[r].written + 1] = r]
        /\ req' = req /\ process' = process /\ process = "running"
    BY <1>3 DEF StreamWrites
  <2>2. file' \in Files
    BY <2>1 DEF Files, RequestInv, RequestTypes
  <2>3. /\ stream' \in [Requests -> Streams]
        /\ stream'[r].chunks = stream[r].chunks /\ stream'[r].state = stream[r].state
        /\ stream'[r].written = stream[r].written + 1
        /\ stream[r].written + 1 <= stream[r].chunks
        /\ \A o \in Requests \ {r} : stream'[o] = stream[o]
    BY <1>3, <2>1 DEF RequestInv, RequestTypes, Streams, StreamWrites
  <2>4. RequestTypes'
    BY <2>1, <2>2, <2>3 DEF RequestInv, RequestTypes
  <2>5. Accounted(r)'
    BY <2>1, <2>3 DEF RequestInv, Accounted
  <2> QED
    BY <2>1, <2>3, <2>4, <2>5, OneRequest
<1> QED
  BY <1>1, <1>2, <1>3, <1>4, <1>5 DEF StreamStep

\* localStream.end() leaves to the stream what it has to write.
LEMMA EndedStream ==
  ASSUME RequestInv, NEW r \in Requests,
         UNCHANGED stream \/ stream' = [stream EXCEPT ![r].ended = TRUE]
  PROVE  /\ stream' \in [Requests -> Streams]
         /\ stream'[r].chunks = stream[r].chunks /\ stream'[r].state = stream[r].state
         /\ stream'[r].written = stream[r].written
         /\ \A o \in Requests \ {r} : stream'[o] = stream[o]
<1>1. stream \in [Requests -> Streams]
  BY DEF RequestInv, RequestTypes
<1>2. CASE stream' = [stream EXCEPT ![r].ended = TRUE]
  BY <1>1, <1>2 DEF Streams
<1>3. CASE UNCHANGED stream
  BY <1>1, <1>3
<1> QED
  BY <1>2, <1>3

\* The promise is resolved by whoever has read the whole body.
LEMMA ResolveInv ==
  ASSUME RequestInv, NEW r \in Requests, Resolve(r), req[r].read = req[r].body,
         UNCHANGED <<file, process>>, process = "running",
         UNCHANGED stream \/ stream' = [stream EXCEPT ![r].ended = TRUE]
  PROVE  RequestInv'
<1>s. /\ stream' \in [Requests -> Streams]
      /\ stream'[r].chunks = stream[r].chunks /\ stream'[r].state = stream[r].state
      /\ stream'[r].written = stream[r].written
      /\ \A o \in Requests \ {r} : stream'[o] = stream[o]
  BY EndedStream
<1>1. Size(file) \in 0..MaxChunks
  BY SizeBound
<1>2. req' = [req EXCEPT ![r].pc = "resolved",
                         ![r].result = [size |-> Size(file), md5Hash |-> req[r].md5Hash]]
  BY DEF Resolve
<1> DEFINE size == Size(file)
<1>3. /\ size \in 0..MaxChunks
      /\ req' = [req EXCEPT ![r].pc = "resolved",
                            ![r].result = [size |-> size, md5Hash |-> req[r].md5Hash]]
  BY <1>1, <1>2
<1> HIDE DEF size
<1>4. /\ req'[r].pc = "resolved" /\ req'[r].read = req[r].read /\ req'[r].body = req[r].body
      /\ req'[r].md5Hash = req[r].md5Hash /\ req'[r].result.md5Hash = req[r].md5Hash
      /\ \A o \in Requests \ {r} : req'[o] = req[o]
  BY <1>3 DEF RequestInv, RequestTypes
<1>5. RequestTypes'
  <2> DEFINE result == [size |-> size, md5Hash |-> req[r].md5Hash]
             typed == [pc : {"idle", "waiting", "reading", "broken", "later"} \cup Settled,
                       body : Nat, read : Nat, md5Hash : Nat,
                       result : [size : 0..MaxChunks, md5Hash : Nat]]
  <2>1. result \in [size : 0..MaxChunks, md5Hash : Nat] /\ req \in [Requests -> typed]
    BY <1>3 DEF RequestInv, RequestTypes
  <2>2. "resolved" \in Settled
    BY DEF Settled
  <2>3. req' = [req EXCEPT ![r].pc = "resolved", ![r].result = result]
    BY <1>3
  <2> HIDE DEF result
  <2>4. req' \in [Requests -> typed]
    BY <2>1, <2>2, <2>3
  <2> QED
    BY <1>s, <2>4 DEF RequestInv, RequestTypes
<1>6. Accounted(r)'
  BY <1>s, <1>4 DEF RequestInv, Accounted
<1> QED
  BY <1>s, <1>4, <1>5, <1>6, OneRequest

\* The steps of the request and the response.
LEMMA ResponseInv ==
  ASSUME RequestInv, NEW r \in Requests, ResponseStep(r)
  PROVE  RequestInv'
<1>0. /\ process = "running" /\ UNCHANGED <<file>>
      /\ req \in [Requests -> [pc : {"idle", "waiting", "reading", "broken", "later"} \cup Settled,
                               body : Nat, read : Nat, md5Hash : Nat,
                               result : [size : 0..MaxChunks, md5Hash : Nat]]]
      /\ Accounted(r)
  BY DEF ResponseStep, Response, Unreachable, Readable, Broken, ResponseEnds, Later, Reading, Take,
         Dies, Resolve, Retry, RequestInv, RequestTypes
<1>1. ASSUME NEW pc \in {"rejected", "broken", "later"},
             pc = "later" => req[r].read = req[r].body,
             req' = [req EXCEPT ![r].pc = pc], UNCHANGED <<file, process>>,
             UNCHANGED stream \/ stream' = [stream EXCEPT ![r].ended = TRUE]
      PROVE  RequestInv'
  <2>s. /\ stream' \in [Requests -> Streams]
        /\ stream'[r].chunks = stream[r].chunks /\ stream'[r].state = stream[r].state
        /\ stream'[r].written = stream[r].written
        /\ \A o \in Requests \ {r} : stream'[o] = stream[o]
    BY <1>1, EndedStream
  <2>1. /\ req'[r].pc = pc /\ req'[r].read = req[r].read /\ req'[r].body = req[r].body
        /\ req'[r].md5Hash = req[r].md5Hash
        /\ \A o \in Requests \ {r} : req'[o] = req[o]
    BY <1>0, <1>1
  <2>2. RequestTypes'
    <3>1. pc \in {"idle", "waiting", "reading", "broken", "later"} \cup Settled
      BY DEF Settled
    <3>2. req' \in [Requests -> [pc : {"idle", "waiting", "reading", "broken", "later"} \cup Settled,
                                body : Nat, read : Nat, md5Hash : Nat,
                                result : [size : 0..MaxChunks, md5Hash : Nat]]]
      BY <1>0, <1>1, <3>1
    <3> QED
      BY <1>1, <2>s, <3>2 DEF RequestInv, RequestTypes
  <2>3. Accounted(r)'
    BY <1>0, <1>1, <2>s, <2>1 DEF Accounted
  <2> QED
    BY <1>0, <1>1, <2>s, <2>1, <2>2, <2>3, OneRequest
<1>2. CASE Response(r)
  <2>1. CASE req' = [req EXCEPT ![r].pc = "rejected"]
    BY <1>1, <1>2, <2>1 DEF Response
  <2>2. ASSUME NEW n \in 0..MaxChunks, req' = [req EXCEPT ![r].pc = "reading", ![r].body = n]
        PROVE  RequestInv'
    <3>1. /\ req'[r].pc = "reading" /\ req'[r].read = req[r].read
          /\ req'[r].md5Hash = req[r].md5Hash
          /\ \A o \in Requests \ {r} : req'[o] = req[o]
      BY <1>0, <2>2
    <3>2. RequestTypes'
      <4>1. n \in Nat
        BY <2>2, NetworkAssumption
      <4>2. req' \in [Requests -> [pc : {"idle", "waiting", "reading", "broken", "later"} \cup Settled,
                                  body : Nat, read : Nat, md5Hash : Nat,
                                  result : [size : 0..MaxChunks, md5Hash : Nat]]]
        BY <1>0, <2>2, <4>1
      <4> QED
        BY <1>2, <4>2 DEF RequestInv, RequestTypes, Response
    <3>3. Accounted(r)'
      BY <1>0, <1>2, <3>1 DEF Accounted, Response
    <3> QED
      BY <1>0, <1>2, <3>1, <3>2, <3>3, OneRequest DEF Response
  <2> QED
    BY <1>2, <2>1, <2>2 DEF Response
<1>3. CASE Unreachable(r)
  BY <1>1, <1>3 DEF Unreachable
<1>4. CASE Broken(r)
  BY <1>1, <1>4 DEF Broken
<1>5. CASE Readable(r)
  <2>1. PICK n \in 1..(req[r].body - req[r].read) : Take(r, n, n, n)
    BY <1>5 DEF Readable
  <2>2. n \in Nat /\ req[r].pc = "reading"
    BY <1>0, <1>5, <2>1 DEF Readable, Reading
  <2>3. /\ req' = [req EXCEPT ![r].read = @ + n, ![r].md5Hash = @ + n]
        /\ stream' = [stream EXCEPT ![r].chunks = IF stream[r].state = "none" THEN 0 ELSE @ + n]
        /\ UNCHANGED <<file, process>>
    BY <2>1 DEF Take
  <2>4. /\ req'[r].pc = "reading" /\ req'[r].read = req[r].read + n
        /\ req'[r].md5Hash = req[r].md5Hash + n
        /\ req'[r].body = req[r].body /\ req'[r].result = req[r].result
        /\ req[r].read + n <= req[r].body
        /\ \A o \in Requests \ {r} : req'[o] = req[o]
    BY <1>0, <2>2, <2>3
  <2>5. /\ stream'[r].state = stream[r].state
        /\ stream[r].state # "none" => stream'[r].chunks = stream[r].chunks + n
        /\ stream[r].state = "none" => stream'[r].chunks = 0
        /\ stream'[r].written = stream[r].written
        /\ stream[r].written \in Nat /\ stream[r].chunks \in Nat
        /\ stream' \in [Requests -> Streams]
        /\ \A o \in Requests \ {r} : stream'[o] = stream[o]
    BY <2>2, <2>3 DEF RequestInv, RequestTypes, Streams
  <2>6. RequestTypes'
    BY <1>0, <2>2, <2>3, <2>5 DEF RequestInv, RequestTypes
  <2>7. Accounted(r)'
    BY <1>0, <2>4, <2>5 DEF Accounted
  <2> QED
    BY <1>0, <2>3, <2>4, <2>5, <2>6, <2>7, OneRequest
<1>6. CASE ResponseEnds(r)
  <2>1. CASE stream[r].state = "none"
    BY <1>6, <2>1, DiesInv DEF ResponseEnds, Reading
  <2>2. CASE stream[r].state # "none" /\ file.exists
    BY <1>0, <1>6, <2>2, ResolveInv DEF ResponseEnds
  <2>3. CASE stream[r].state # "none" /\ ~file.exists
    BY <1>1, <1>6, <2>3 DEF ResponseEnds, Retry
  <2> QED
    BY <2>1, <2>2, <2>3
<1>7. CASE Later(r)
  <2>1. CASE file.exists
    BY <1>0, <1>7, <2>1, ResolveInv DEF Later, Accounted
  <2>2. CASE ~file.exists
    BY <1>1, <1>7, <2>2 DEF Later
  <2> QED
    BY <2>1, <2>2
<1> QED
  BY <1>2, <1>3, <1>4, <1>5, <1>6, <1>7 DEF ResponseStep

\* The inductive invariant of the request.
LEMMA RequestsAccounted == NetworkSpec => []RequestInv
<1>1. NetworkInit => RequestInv
  <2> SUFFICES ASSUME NetworkInit PROVE RequestInv
    OBVIOUS
  <2>1. req \in [Requests -> [pc : {"idle"}, body : {0}, read : {0}, md5Hash : {0},
                              result : [size : {0}, md5Hash : {0}]]]
    BY DEF NetworkInit, NoResult
  <2>2. stream \in [Requests -> [state : {"none"}, chunks : {0}, written : {0}, ended : {FALSE}]]
    BY DEF NetworkInit
  <2>3. file \in Files /\ process = "running"
    BY DEF NetworkInit, Files
  <2>4. RequestTypes
    <3>1. stream \in [Requests -> Streams]
      <4>1. {FALSE} \subseteq BOOLEAN
        OBVIOUS
      <4>2. \A r \in Requests : stream[r] = [state |-> "none", chunks |-> 0, written |-> 0, ended |-> FALSE]
        BY DEF NetworkInit
      <4>3. [state |-> "none", chunks |-> 0, written |-> 0, ended |-> FALSE] \in Streams
        BY DEF Streams
      <4> QED
        BY <4>2, <4>3 DEF NetworkInit
    <3>2. req \in [Requests -> [pc : {"idle", "waiting", "reading", "broken", "later"} \cup Settled,
                               body : Nat, read : Nat, md5Hash : Nat,
                               result : [size : 0..MaxChunks, md5Hash : Nat]]]
      BY <2>1, NetworkAssumption
    <3> QED
      BY <2>3, <3>1, <3>2 DEF RequestTypes
  <2>5. \A r \in Requests : Accounted(r)
    <3>1. \A r \in Requests : stream[r].state = "none" /\ stream[r].chunks = 0 /\ stream[r].written = 0
      BY DEF NetworkInit
    <3> QED
      BY <2>1, <3>1, NetworkAssumption DEF Accounted
  <2> QED
    BY <2>3, <2>4, <2>5 DEF RequestInv, CrashesAreLocal
<1>2. RequestInv /\ [NetworkNext]_networkVars => RequestInv'
  <2> SUFFICES ASSUME RequestInv, [NetworkNext]_networkVars PROVE RequestInv'
    OBVIOUS
  <2>1. CASE UNCHANGED networkVars
    BY <2>1 DEF RequestInv, RequestTypes, Accounted, CrashesAreLocal, networkVars
  <2>2. ASSUME NEW r \in Requests, Request(r) PROVE RequestInv'
    <3>1. \/ \E outfile \in BOOLEAN :
               stream' = [stream EXCEPT ![r].state = IF outfile THEN "opening" ELSE "none"]
          \/ UNCHANGED stream
      BY <2>2 DEF Request
    <3>2. /\ stream'[r].chunks = stream[r].chunks
          /\ stream'[r].written = stream[r].written
          /\ stream' \in [Requests -> Streams]
          /\ \A o \in Requests \ {r} : stream'[o] = stream[o]
      <4>1. stream \in [Requests -> Streams]
        BY DEF RequestInv, RequestTypes
      <4>2. CASE UNCHANGED stream
        BY <4>1, <4>2
      <4>3. ASSUME NEW outfile \in BOOLEAN,
                   stream' = [stream EXCEPT ![r].state = IF outfile THEN "opening" ELSE "none"]
            PROVE  /\ stream'[r].chunks = stream[r].chunks
                   /\ stream'[r].written = stream[r].written
                   /\ stream' \in [Requests -> Streams]
                   /\ \A o \in Requests \ {r} : stream'[o] = stream[o]
        <5> DEFINE state == IF outfile THEN "opening" ELSE "none"
        <5>1. state \in {"none", "opening", "open", "closed"}
          OBVIOUS
        <5>2. stream' = [stream EXCEPT ![r].state = state]
          BY <4>3
        <5> HIDE DEF state
        <5> DEFINE new == [stream[r] EXCEPT !.state = state]
        <5>3. stream[r] \in Streams
          BY <4>1
        <5>4. new \in Streams /\ new.chunks = stream[r].chunks /\ new.written = stream[r].written
          BY <5>1, <5>3 DEF Streams
        <5>5. stream' = [stream EXCEPT ![r] = new]
          BY <5>2
        <5> HIDE DEF new
        <5> QED
          BY <4>1, <5>4, <5>5
      <4> QED
        BY <3>1, <4>2, <4>3
    <3>3. /\ req'[r].pc \in {"waiting", "rejected"} /\ req'[r].read = req[r].read
          /\ req'[r].md5Hash = req[r].md5Hash /\ req'[r].body = req[r].body
          /\ req'[r].result = req[r].result /\ req[r].pc = "idle"
          /\ \A o \in Requests \ {r} : req'[o] = req[o]
      BY <2>2 DEF Request, RequestInv, RequestTypes
    <3>4. RequestTypes'
      <4>1. PICK pc \in {"waiting", "rejected"} : req' = [req EXCEPT ![r].pc = pc]
        BY <2>2 DEF Request
      <4>2. pc \in {"idle", "waiting", "reading", "broken", "later"} \cup Settled
        BY DEF Settled
      <4>3. req' \in [Requests -> [pc : {"idle", "waiting", "reading", "broken", "later"} \cup Settled,
                                  body : Nat, read : Nat, md5Hash : Nat,
                                  result : [size : 0..MaxChunks, md5Hash : Nat]]]
        BY <4>1, <4>2 DEF RequestInv, RequestTypes
      <4> QED
        BY <2>2, <3>2, <4>3 DEF Request, RequestInv, RequestTypes
    <3>5. Accounted(r)'
      BY <2>2, <3>2, <3>3 DEF Request, RequestInv, Accounted
    <3> QED
      BY <2>2, <3>2, <3>3, <3>4, <3>5, OneRequest DEF Request
  <2> QED
    BY <2>1, <2>2, StreamInv, ResponseInv DEF NetworkNext
<1> QED
  BY <1>1, <1>2, PTL DEF NetworkSpec

\* The hash in a result is that of the whole body, whoever else writes to the
\* same file meanwhile (network.js lines 57-107).
THEOREM HashOfWholeBody == NetworkSpec => []HashIsOfBody
<1>1. RequestInv => HashIsOfBody
  BY DEF RequestInv, Accounted, HashIsOfBody
<1> QED
  BY <1>1, RequestsAccounted, PTL

\* The process ends by an error of a file's write stream or at the end of a
\* response without a file, and by no failure of the peer (network.js 57, 115).
THEOREM CrashesStayLocal == NetworkSpec => []CrashesAreLocal
<1>1. RequestInv => CrashesAreLocal
  BY DEF RequestInv
<1> QED
  BY <1>1, RequestsAccounted, PTL

-----------------------------------------------------------------------------
(* The mailer.                                                              *)

\* One call: nobody has answered before the mails left; afterwards those who
\* have not answered are pending, and what is returned names those who refused.
Told(s) ==
  /\ mailing[s].pc \in {"idle", "token"} => mailing[s].answers = {}
  /\ mailing[s].pc \in {"mailing", "done"} =>
       \A r \in Recipients :
         r \in mailing[s].pending \/ \E ok \in BOOLEAN : [to |-> r, ok |-> ok] \in mailing[s].answers
  /\ mailing[s].pc = "done" =>
       /\ mailing[s].pending = {}
       /\ \A r \in Recipients :
            r \in mailing[s].error <=> [to |-> r, ok |-> FALSE] \in mailing[s].answers
  /\ mailing[s].pc \in {"token", "mailing"} => messenger[mailing[s].by].life \in {"ready", "gone"}

\* A mail leaves in the name its call was given, which stays on record.
Mailed(x) ==
  /\ mailing[x.of].pc \in {"mailing", "done"}
  /\ mailing[x.of].args.from \in {"none", x.from}

\* A messenger that can send has a content, and the mails that name a user
\* name the one who was read first.
MailerInv ==
  /\ MessengerTypeOK
  /\ \A m \in Messengers : messenger[m].life = "ready" => messenger[m].content \in {"text", "html"}
  /\ \A s \in Mailings : Told(s)
  /\ NoEmptyMail
  /\ \A x \in outbox : Mailed(x) /\ (x.from \in Users => x.from = _butlerSender)

\* A step of one call that changes no messenger but for asking it to stop,
\* sends nothing and leaves the sender.
LEMMA OneMailing ==
  ASSUME MailerInv, NEW s \in Mailings, Told(s)', mailing'[s] \in MailingRecord,
         mailing' = [mailing EXCEPT ![s] = mailing'[s]],
         mailing[s].pc \in {"mailing", "done"} =>
           mailing'[s].pc \in {"mailing", "done"} /\ mailing'[s].args = mailing[s].args,
         messenger' \in [Messengers -> MessengerRecord],
         \A m \in Messengers : /\ messenger'[m].life = messenger[m].life
                              /\ messenger'[m].content = messenger[m].content,
         UNCHANGED <<_butlerSender, credential, outbox>>
  PROVE  MailerInv'
<1>1. MessengerTypeOK'
  BY DEF MailerInv, MessengerTypeOK, MailingRecord
<1>2. \A o \in Mailings : Told(o)'
  <2> SUFFICES ASSUME NEW o \in Mailings \ {s} PROVE Told(o)'
    OBVIOUS
  <2>1. Told(o) /\ mailing'[o] = mailing[o] /\ mailing[o].by \in Messengers
    BY DEF MailerInv, MessengerTypeOK, MailingRecord
  <2>2. messenger'[mailing[o].by].life = messenger[mailing[o].by].life
    BY <2>1
  <2> QED
    BY <2>1, <2>2 DEF Told
<1>3. ASSUME NEW x \in outbox PROVE Mailed(x)'
  <2>1. Mailed(x) /\ x.of \in Mailings /\ mailing \in [Mailings -> MailingRecord]
    BY DEF MailerInv, MessengerTypeOK, MailRecord
  <2>2. CASE x.of = s
    BY <2>1, <2>2 DEF Mailed
  <2>3. CASE x.of # s
    BY <2>1, <2>3 DEF Mailed
  <2> QED
    BY <2>2, <2>3
<1> QED
  BY <1>1, <1>2, <1>3 DEF MailerInv, NoEmptyMail

\* Who refused.
LEMMA Refused ==
  ASSUME MailerInv, NEW s \in Mailings
  PROVE  /\ RefusedBy(s) \subseteq Recipients
         /\ \A r \in Recipients : r \in RefusedBy(s) <=> [to |-> r, ok |-> FALSE] \in mailing[s].answers
<1>1. mailing[s].answers \subseteq [to : Recipients, ok : BOOLEAN]
  BY DEF MailerInv, MessengerTypeOK, MailingRecord
<1>2. \A a \in mailing[s].answers : ~a.ok => a = [to |-> a.to, ok |-> FALSE]
  BY <1>1
<1> QED
  BY <1>1, <1>2 DEF RefusedBy

\* The mails leave: a messenger that can send gives them a content, and the
\* sender is read if no send has read it before.
LEMMA MailInv ==
  ASSUME MailerInv, NEW s \in Mailings, NEW m \in Messengers, NEW args \in CallArguments,
         mailing[s].pc \in {"idle", "token"}, messenger[m].life \in {"ready", "gone"},
         Mail(s, m, args), UNCHANGED <<messenger, credential>>
  PROVE  MailerInv'
<1>0. /\ mailing \in [Mailings -> MailingRecord] /\ mailing[s] \in MailingRecord
      /\ mailing[s].answers = {} /\ Told(s)
  BY DEF MailerInv, MessengerTypeOK, MailingRecord, Told
<1>1. CASE messenger[m].life = "gone"
  <2>1. /\ mailing' = [mailing EXCEPT ![s].pc = "rejected", ![s].by = m]
        /\ UNCHANGED <<_butlerSender, outbox>>
    BY <1>1 DEF Mail
  <2>2. mailing'[s] \in MailingRecord /\ mailing'[s].pc = "rejected"
    BY <1>0, <2>1 DEF MailingRecord
  <2>3. mailing' = [mailing EXCEPT ![s] = mailing'[s]]
    BY <1>0, <2>1
  <2>4. Told(s)'
    BY <2>2 DEF Told
  <2>5. messenger' \in [Messengers -> MessengerRecord]
    BY DEF MailerInv, MessengerTypeOK
  <2> QED
    BY <2>1, <2>2, <2>3, <2>4, <2>5, OneMailing
<1>2. CASE messenger[m].life = "ready"
  <2>1. /\ outbox' = outbox \cup {[of |-> s, to |-> r, from |-> Sender(m, args),
                                   body |-> MailBody(m, args)] : r \in Recipients}
        /\ _butlerSender' = IF args.from = "none" THEN butlerSender ELSE _butlerSender
        /\ mailing' = [mailing EXCEPT ![s].pc = "mailing", ![s].by = m, ![s].args = args,
                                      ![s].pending = Recipients]
    BY <1>2 DEF Mail, Mail_Unattributed
  <2>2. messenger[m].content \in {"text", "html"} /\ messenger[m].from \in {"none"} \cup Senders
    BY <1>2 DEF MailerInv, MessengerTypeOK, MessengerRecord
  <2>3. MailBody(m, args) \in {"text", "html"}
    BY <2>2 DEF MailBody, CallArguments, Content
  <2>4. /\ butlerSender \in {"undefined", "null"} \cup Users
        /\ _butlerSender # "undefined" => butlerSender = _butlerSender
    <3>1. credential \in {"missing", "nouser"} \cup Users
          /\ _butlerSender \in {"undefined", "null"} \cup Users
      BY DEF MailerInv, MessengerTypeOK
    <3>2. CASE credential = "missing"
      BY <3>1, <3>2 DEF butlerSender
    <3>3. CASE credential = "nouser"
      BY <3>1, <3>3 DEF butlerSender
    <3>4. CASE credential \in Users
      <4>1. credential # "missing" /\ credential # "nouser"
        BY <3>4, MessengerAssumption
      <4> QED
        BY <3>1, <3>4, <4>1 DEF butlerSender
    <3> QED
      BY <3>1, <3>2, <3>3, <3>4
  <2> DEFINE from == Sender(m, args)
             body == MailBody(m, args)
  <2>5. /\ from \in {"default"} \cup Users \cup Senders
        /\ from \in Users => from = _butlerSender'
        /\ args.from \in {"none", from}
    <3>1. args.from \in {"none"} \cup Senders
      BY DEF CallArguments
    <3>2. CASE args.from # "none"
      <4>1. from = args.from /\ args.from \in Senders
        BY <3>1, <3>2 DEF Sender
      <4> QED
        BY <4>1, MessengerAssumption
    <3>3. CASE args.from = "none" /\ butlerSender \in Users
      BY <2>1, <3>3 DEF Sender
    <3>4. CASE args.from = "none" /\ butlerSender \notin Users
      <4>1. from = IF messenger[m].from # "none" THEN messenger[m].from ELSE "default"
        BY <3>4 DEF Sender
      <4> QED
        BY <2>2, <3>4, <4>1, MessengerAssumption
    <3> QED
      BY <3>2, <3>3, <3>4
  <2>6. \A x \in outbox' \ outbox : x \in MailRecord /\ x.of = s /\ x.body \in {"text", "html"} /\ x.from = from
    <3>1. /\ outbox' = outbox \cup {[of |-> s, to |-> r, from |-> from, body |-> body] : r \in Recipients}
          /\ body \in {"text", "html"}
      BY <2>1, <2>3
    <3> HIDE DEF from, body
    <3> QED
      BY <2>5, <3>1 DEF Content, MailRecord
  <2> HIDE DEF from, body
  <2>7. \A x \in outbox : x.from \in Users => x.from = _butlerSender'
    BY <2>1, <2>4, MessengerAssumption DEF MailerInv
  <2>8. /\ mailing'[s] \in MailingRecord /\ mailing'[s].pc = "mailing"
        /\ mailing'[s].pending = Recipients /\ mailing'[s].by = m
        /\ mailing'[s].args = args
    BY <1>0, <2>1 DEF MailingRecord
  <2>9. mailing' \in [Mailings -> MailingRecord]
    BY <1>0, <2>1, <2>8
  <2>10. MessengerTypeOK'
    <3>1. outbox' \subseteq MailRecord
      BY <2>6 DEF MailerInv, MessengerTypeOK
    <3>2. _butlerSender' \in {"undefined", "null"} \cup Users
      BY <2>1, <2>4 DEF MailerInv, MessengerTypeOK
    <3> QED
      BY <2>9, <3>1, <3>2 DEF MailerInv, MessengerTypeOK
  <2>11. \A o \in Mailings : Told(o)'
    <3>1. Told(s)'
      BY <1>2, <2>8 DEF Told
    <3>2. \A o \in Mailings \ {s} : mailing'[o] = mailing[o]
      BY <1>0, <2>1
    <3>3. ASSUME NEW o \in Mailings \ {s} PROVE Told(o)'
      BY <3>2 DEF MailerInv, Told
    <3> QED
      BY <3>1, <3>3
  <2>12. NoEmptyMail' /\ \A x \in outbox' : x.from \in Users => x.from = _butlerSender'
    BY <2>5, <2>6, <2>7 DEF MailerInv, NoEmptyMail
  <2>13. ASSUME NEW x \in outbox' PROVE Mailed(x)'
    <3>1. CASE x \in outbox
      <4>1. Mailed(x) /\ x.of \in Mailings
        BY <3>1 DEF MailerInv, MessengerTypeOK, MailRecord
      <4>2. x.of # s
        BY <4>1 DEF Mailed
      <4>3. mailing'[x.of] = mailing[x.of]
        BY <1>0, <2>1, <4>1, <4>2
      <4> QED
        BY <4>1, <4>3 DEF Mailed
    <3>2. CASE x \notin outbox
      BY <2>5, <2>6, <2>8, <3>2 DEF Mailed
    <3> QED
      BY <3>1, <3>2
  <2> QED
    BY <2>10, <2>11, <2>12, <2>13 DEF MailerInv
<1> QED
  BY <1>1, <1>2

\* The steps of a call.
LEMMA MailingInv ==
  ASSUME MailerInv, NEW s \in Mailings, MailingStep(s)
  PROVE  MailerInv'
<1>0. /\ mailing \in [Mailings -> MailingRecord] /\ mailing[s] \in MailingRecord /\ Told(s)
      /\ messenger \in [Messengers -> MessengerRecord]
  BY DEF MailerInv, MessengerTypeOK, MailingRecord
<1>1. CASE TokenAnswered(s) /\ Mail(s, mailing[s].by, mailing[s].args)
  <2>1. /\ mailing[s].by \in Messengers /\ mailing[s].args \in CallArguments
        /\ mailing[s].pc = "token" /\ messenger[mailing[s].by].life \in {"ready", "gone"}
        /\ UNCHANGED <<messenger, credential>>
    BY <1>0, <1>1 DEF TokenAnswered, Told, MailingRecord
  <2> QED
    BY <1>1, <2>1, MailInv
<1>2. CASE TokenAnswered(s) /\ ~Mail(s, mailing[s].by, mailing[s].args)
  <2>1. /\ mailing' = [mailing EXCEPT ![s].pc = "rejected"]
        /\ UNCHANGED <<messenger, _butlerSender, credential, outbox>>
    BY <1>2 DEF TokenAnswered
  <2>2. /\ mailing'[s] \in MailingRecord /\ mailing'[s].pc = "rejected"
        /\ mailing' = [mailing EXCEPT ![s] = mailing'[s]]
    BY <1>0, <2>1 DEF MailingRecord
  <2>3. Told(s)' /\ mailing[s].pc = "token"
    BY <1>2, <2>2 DEF Told, TokenAnswered
  <2> QED
    BY <1>0, <2>1, <2>2, <2>3, OneMailing
<1>3. ASSUME NEW r \in Recipients, NEW ok \in BOOLEAN, MailAnswered(s, r, ok)
      PROVE  MailerInv'
  <2> DEFINE answer == [to |-> r, ok |-> ok]
  <2>1. /\ mailing' = [mailing EXCEPT ![s].pending = @ \ {r}, ![s].answers = @ \cup {answer}]
        /\ mailing[s].pc = "mailing"
        /\ UNCHANGED <<messenger, _butlerSender, credential, outbox>>
    BY <1>3 DEF MailAnswered
  <2>2. answer \in [to : Recipients, ok : BOOLEAN]
    OBVIOUS
  <2>3. /\ mailing'[s].pending = mailing[s].pending \ {r}
        /\ mailing'[s].answers = mailing[s].answers \cup {answer}
        /\ mailing'[s].pc = "mailing" /\ mailing'[s].by = mailing[s].by
        /\ mailing'[s].args = mailing[s].args
        /\ mailing' = [mailing EXCEPT ![s] = mailing'[s]]
    <3> HIDE DEF answer
    <3> QED
      BY <1>0, <2>1 DEF MailingRecord
  <2>4. mailing'[s] \in MailingRecord
    <3> HIDE DEF answer
    <3> QED
      BY <1>0, <2>1, <2>2 DEF MailingRecord
  <2>5. ASSUME NEW q \in Recipients
        PROVE  q \in mailing'[s].pending \/ \E yes \in BOOLEAN : [to |-> q, ok |-> yes] \in mailing'[s].answers
    <3>1. CASE q = r
      BY <2>3, <3>1
    <3>2. CASE q # r
      BY <1>0, <2>1, <2>3, <3>2 DEF Told
    <3> QED
      BY <3>1, <3>2
  <2>6. Told(s)'
    BY <1>0, <2>1, <2>3, <2>5 DEF Told
  <2> QED
    BY <1>0, <2>1, <2>3, <2>4, <2>6, OneMailing
<1>4. CASE MailingReturns(s)
  <2>1. /\ mailing' = [mailing EXCEPT ![s].pc = "done", ![s].error = RefusedBy(s)]
        /\ messenger' = [messenger EXCEPT ![mailing[s].by].stopping = TRUE]
        /\ mailing[s].pc = "mailing" /\ mailing[s].pending = {}
        /\ UNCHANGED <<_butlerSender, credential, outbox>>
    BY <1>4 DEF MailingReturns
  <2> DEFINE refused == RefusedBy(s)
  <2>2. /\ refused \subseteq Recipients
        /\ \A r \in Recipients : r \in refused <=> [to |-> r, ok |-> FALSE] \in mailing[s].answers
        /\ mailing' = [mailing EXCEPT ![s].pc = "done", ![s].error = refused]
    BY <2>1, Refused
  <2> HIDE DEF refused
  <2>3. /\ mailing'[s] \in MailingRecord
        /\ mailing'[s].pc = "done" /\ mailing'[s].error = refused /\ mailing'[s].pending = {}
        /\ mailing'[s].answers = mailing[s].answers /\ mailing'[s].args = mailing[s].args
        /\ mailing' = [mailing EXCEPT ![s] = mailing'[s]]
    <3>1. /\ mailing'[s] = [mailing[s] EXCEPT !.pc = "done", !.error = refused]
          /\ mailing' = [mailing EXCEPT ![s] = mailing'[s]]
      BY <1>0, <2>2
    <3>2. refused \in SUBSET Recipients
      BY <2>2
    <3>3. mailing'[s] \in MailingRecord
      BY <1>0, <3>1, <3>2 DEF MailingRecord
    <3>4. /\ mailing'[s].pc = "done" /\ mailing'[s].error = refused
          /\ mailing'[s].pending = mailing[s].pending
          /\ mailing'[s].answers = mailing[s].answers /\ mailing'[s].args = mailing[s].args
      BY <1>0, <3>1 DEF MailingRecord
    <3> QED
      BY <2>1, <3>1, <3>3, <3>4
  <2>4. Told(s)'
    BY <1>0, <2>1, <2>2, <2>3 DEF Told
  <2>5. /\ messenger' \in [Messengers -> MessengerRecord]
        /\ \A m \in Messengers : /\ messenger'[m].life = messenger[m].life
                                 /\ messenger'[m].content = messenger[m].content
    <3> DEFINE by == mailing[s].by
    <3>1. by \in Messengers /\ messenger' = [messenger EXCEPT ![by].stopping = TRUE]
      BY <1>0, <2>1 DEF MailingRecord
    <3> HIDE DEF by
    <3> QED
      BY <1>0, <3>1 DEF MessengerRecord
  <2> QED
    BY <2>1, <2>3, <2>4, <2>5, OneMailing
<1> QED
  BY <1>1, <1>2, <1>3, <1>4 DEF MailingStep

\* A call of send() or dispatch().
LEMMA SendInv ==
  ASSUME MailerInv, NEW s \in Mailings, NEW m \in Messengers, NEW args \in Arguments, send(s, m, args)
  PROVE  MailerInv'
<1>0. /\ mailing \in [Mailings -> MailingRecord] /\ mailing[s] \in MailingRecord /\ Told(s)
      /\ messenger \in [Messengers -> MessengerRecord]
      /\ args \in CallArguments
  BY MessengerAssumption DEF MailerInv, MessengerTypeOK, CallArguments, Content
<1>1. mailing[s].pc = "idle" /\ UNCHANGED <<messenger, credential>>
  BY DEF send
<1>2. CASE messenger[m].life = "ready" /\ Mail(s, m, args)
  BY <1>0, <1>1, <1>2, MailInv
<1>3. ASSUME NEW pc \in {"unsent", "token", "rejected"}, NEW given \in CallArguments,
             messenger[m].life = "ready",
             mailing' = [mailing EXCEPT ![s].pc = pc, ![s].by = m, ![s].args = given],
             UNCHANGED <<_butlerSender, outbox>>
      PROVE  MailerInv'
  <2>1. /\ mailing'[s] \in MailingRecord /\ mailing'[s].pc = pc /\ mailing'[s].by = m
        /\ mailing'[s].answers = mailing[s].answers
        /\ mailing' = [mailing EXCEPT ![s] = mailing'[s]]
    BY <1>0, <1>3 DEF MailingRecord
  <2>2. Told(s)'
    BY <1>0, <1>1, <1>3, <2>1 DEF Told
  <2> QED
    BY <1>0, <1>1, <1>3, <2>1, <2>2, OneMailing
<1>4. CASE /\ mailing' = [mailing EXCEPT ![s].pc = "thrown", ![s].by = m]
           /\ UNCHANGED <<_butlerSender, outbox>>
  <2>1. /\ mailing'[s] \in MailingRecord /\ mailing'[s].pc = "thrown"
        /\ mailing' = [mailing EXCEPT ![s] = mailing'[s]]
    BY <1>0, <1>4 DEF MailingRecord
  <2>2. Told(s)'
    BY <2>1 DEF Told
  <2> QED
    BY <1>0, <1>1, <1>4, <2>1, <2>2, OneMailing
<1>5. ASSUME NEW pc \in {"unsent", "rejected"}, messenger[m].life = "ready",
             mailing' = [mailing EXCEPT ![s].pc = pc, ![s].by = m],
             UNCHANGED <<_butlerSender, outbox>>
      PROVE  MailerInv'
  <2> DEFINE given == mailing[s].args
  <2>1. /\ given \in CallArguments
        /\ mailing' = [mailing EXCEPT ![s].pc = pc, ![s].by = m, ![s].args = given]
    BY <1>0, <1>5 DEF MailingRecord
  <2> HIDE DEF given
  <2> QED
    BY <1>3, <1>5, <2>1
<1>6. \/ messenger[m].life = "ready" /\ Mail(s, m, args)
      \/ /\ messenger[m].life = "ready" /\ UNCHANGED <<_butlerSender, outbox>>
         /\ mailing' = [mailing EXCEPT ![s].pc = "token", ![s].by = m, ![s].args = args]
      \/ /\ messenger[m].life = "ready" /\ UNCHANGED <<_butlerSender, outbox>>
         /\ \E pc \in {"unsent", "rejected"} : mailing' = [mailing EXCEPT ![s].pc = pc, ![s].by = m]
      \/ /\ mailing' = [mailing EXCEPT ![s].pc = "thrown", ![s].by = m]
         /\ UNCHANGED <<_butlerSender, outbox>>
  BY DEF send
<1> QED
  BY <1>0, <1>2, <1>3, <1>4, <1>5, <1>6

\* The steps of the messengers and of those who edit the credentials.
LEMMA MessengerInv ==
  ASSUME MailerInv,
         \/ \E m \in Messengers : initialize(m) \/ Released(m)
         \/ \E c \in {"missing", "nouser"} \cup Users : Configure(c)
  PROVE  MailerInv'
<1>0. messenger \in [Messengers -> MessengerRecord]
  BY DEF MailerInv, MessengerTypeOK
<1>1. ASSUME NEW m \in Messengers, initialize(m) \/ Released(m) PROVE MailerInv'
  <2>1. UNCHANGED <<mailing, _butlerSender, credential, outbox>>
    BY <1>1 DEF initialize, Released
  <2>2. /\ messenger' \in [Messengers -> MessengerRecord]
        /\ \A o \in Messengers \ {m} : messenger'[o] = messenger[o]
        /\ messenger'[m].life = "ready" => messenger'[m].content \in {"text", "html"}
        /\ messenger[m].life \in {"ready", "gone"} => messenger'[m].life \in {"ready", "gone"}
    <3>1. CASE Released(m)
      <4>1. messenger' = [messenger EXCEPT ![m] = [Unmade EXCEPT !.life = "gone"]]
        BY <3>1 DEF Released
      <4> QED
        BY <1>0, <4>1 DEF Content, MessengerRecord, Unmade
    <3>2. ASSUME NEW c \in {"text", "html"}, NEW from \in Attributes, messenger[m].life = "none",
                 messenger' = [messenger EXCEPT ![m].life = "ready", ![m].content = c, ![m].from = from]
          PROVE  /\ messenger' \in [Messengers -> MessengerRecord]
                 /\ \A o \in Messengers \ {m} : messenger'[o] = messenger[o]
                 /\ messenger'[m].life = "ready" => messenger'[m].content \in {"text", "html"}
                 /\ messenger'[m].life \in {"ready", "gone"}
      <4>1. from \in {"none"} \cup Senders /\ c \in Content
        BY MessengerAssumption DEF Content
      <4>2. messenger' \in [Messengers -> MessengerRecord]
        BY <1>0, <3>2, <4>1 DEF MessengerRecord
      <4> QED
        BY <1>0, <3>2, <4>2 DEF MessengerRecord
    <3>3. CASE messenger[m].life = "none" /\ messenger' = [messenger EXCEPT ![m].life = "failed"]
      BY <1>0, <3>3 DEF MessengerRecord
    <3> QED
      BY <1>1, <3>1, <3>2, <3>3 DEF initialize
  <2>3. \A s \in Mailings : Told(s)'
    <3> SUFFICES ASSUME NEW s \in Mailings PROVE Told(s)'
      OBVIOUS
    <3>1. Told(s) /\ mailing'[s] = mailing[s] /\ mailing[s].by \in Messengers
      BY <2>1 DEF MailerInv, MessengerTypeOK, MailingRecord
    <3>2. messenger[mailing[s].by].life \in {"ready", "gone"} =>
            messenger'[mailing[s].by].life \in {"ready", "gone"}
      BY <2>2, <3>1
    <3> QED
      BY <3>1, <3>2 DEF Told
  <2> QED
    BY <2>1, <2>2, <2>3 DEF MailerInv, MessengerTypeOK, NoEmptyMail, Mailed
<1>2. ASSUME NEW c \in {"missing", "nouser"} \cup Users, Configure(c) PROVE MailerInv'
  BY <1>2 DEF MailerInv, MessengerTypeOK, NoEmptyMail, Mailed, Told, Configure
<1> QED
  BY <1>1, <1>2

\* The inductive invariant of the mailer.
LEMMA MailerCorrect == MessengerSpec => []MailerInv
<1>1. MessengerInit => MailerInv
  <2> SUFFICES ASSUME MessengerInit PROVE MailerInv
    OBVIOUS
  <2>1. (CHOOSE m \in Messengers : TRUE) \in Messengers
    BY MessengerAssumption
  <2>2. /\ \A s \in Mailings : mailing[s] \in MailingRecord
        /\ \A s \in Mailings : mailing[s].pc = "idle" /\ mailing[s].answers = {}
    BY <2>1 DEF MessengerInit, MailingRecord, CallArguments, NoArguments, Content
  <2>3. /\ \A m \in Messengers : messenger[m] \in MessengerRecord
        /\ \A m \in Messengers : messenger[m].life = "none"
    BY DEF MessengerInit, MessengerRecord, Unmade, Content
  <2>4. outbox = {} /\ _butlerSender = "undefined" /\ credential = "missing"
    BY DEF MessengerInit
  <2>5. messenger \in [Messengers -> MessengerRecord] /\ mailing \in [Mailings -> MailingRecord]
    BY <2>2, <2>3 DEF MessengerInit
  <2>6. \A s \in Mailings : Told(s)
    BY <2>2 DEF Told
  <2> QED
    BY <2>3, <2>4, <2>5, <2>6 DEF MailerInv, MessengerTypeOK, NoEmptyMail
<1>2. MailerInv /\ [MessengerNext]_messengerVars => MailerInv'
  <2> SUFFICES ASSUME MailerInv, [MessengerNext]_messengerVars PROVE MailerInv'
    OBVIOUS
  <2>1. CASE UNCHANGED messengerVars
    BY <2>1 DEF MailerInv, MessengerTypeOK, NoEmptyMail, Mailed, Told, messengerVars
  <2> QED
    BY <2>1, MailingInv, SendInv, MessengerInv DEF MessengerNext
<1> QED
  BY <1>1, <1>2, PTL DEF MessengerSpec

\* Whatever sends overlap and whenever the messenger cleans up, a mail that
\* leaves has its content, and the sender its call was given or else no second
\* user of email.json, and what the caller is told of each recipient is true
\* (messenger.js lines 30-39, 207-236).
THEOREM MailsStayTrue == MessengerSpec => []MailsAreTrue
<1>1. MailerInv => MailsAreTrue
  <2> SUFFICES ASSUME MailerInv PROVE MailsAreTrue
    OBVIOUS
  <2>1. ASSUME NEW s \in Mailings, mailing[s].pc = "done"
        PROVE  /\ {a.to : a \in mailing[s].answers} = Recipients
               /\ \A r \in Recipients : r \in mailing[s].error <=> [to |-> r, ok |-> FALSE] \in mailing[s].answers
    <3>1. mailing[s].answers \subseteq [to : Recipients, ok : BOOLEAN] /\ Told(s)
      BY DEF MailerInv, MessengerTypeOK, MailingRecord
    <3>2. \A r \in Recipients : \E ok \in BOOLEAN : [to |-> r, ok |-> ok] \in mailing[s].answers
      BY <2>1, <3>1 DEF Told
    <3>3. \A r \in Recipients : \E a \in mailing[s].answers : a.to = r
      BY <3>2
    <3>4. \A a \in mailing[s].answers : a.to \in Recipients
      BY <3>1
    <3> QED
      BY <2>1, <3>1, <3>3, <3>4 DEF Told
  <2>2. ResultIsComplete
    BY <2>1 DEF ResultIsComplete
  <2>3. OneButler
    BY DEF MailerInv, OneButler, Mailed
  <2> QED
    BY <2>2, <2>3 DEF MailsAreTrue, MailerInv
<1> QED
  BY <1>1, MailerCorrect, PTL

-----------------------------------------------------------------------------
(* The three together.                                                      *)

\* A step of the composition is a step of one service and leaves the others.
LEMMA EachService ==
  ServicesSpec => Spec /\ NetworkSpec /\ MessengerSpec
<1>1. ServicesInit => Init /\ NetworkInit /\ MessengerInit
  BY DEF ServicesInit
<1>2. [ServicesNext]_servicesVars => [Next]_vars /\ [NetworkNext]_networkVars /\ [MessengerNext]_messengerVars
  BY DEF ServicesNext, servicesVars
<1> QED
  BY <1>1, <1>2, PTL DEF ServicesSpec, Spec, NetworkSpec, MessengerSpec

\* Every variable of the ways out keeps its type, whatever the peers, the disk
\* and the timers do: a result never claims more than was asked for, and no
\* mail goes to anybody but a recipient.
THEOREM ServicesTypes == ServicesSpec => []ServicesTypeOK
<1>1. RequestInv => NetworkTypeOK
  <2> SUFFICES ASSUME RequestInv PROVE NetworkTypeOK
    OBVIOUS
  <2>1. ASSUME NEW r \in Requests
        PROVE  /\ req[r] \in [pc : {"idle", "waiting", "reading", "broken", "later"} \cup Settled,
                              body : 0..MaxChunks, read : 0..MaxChunks, md5Hash : 0..MaxChunks,
                              result : [size : 0..MaxChunks, md5Hash : 0..MaxChunks]]
               /\ stream[r] \in [state : {"none", "opening", "open", "closed"}, ended : BOOLEAN,
                                 chunks : 0..MaxChunks, written : 0..MaxChunks]
    <3>1. /\ req[r] \in [pc : {"idle", "waiting", "reading", "broken", "later"} \cup Settled,
                         body : Nat, read : Nat, md5Hash : Nat,
                         result : [size : 0..MaxChunks, md5Hash : Nat]]
          /\ stream[r] \in Streams
          /\ MaxChunks \in Nat
      BY NetworkAssumption DEF RequestInv, RequestTypes
    <3>2. /\ req[r].body <= MaxChunks /\ req[r].read <= req[r].body
          /\ req[r].md5Hash = req[r].read /\ req[r].result.md5Hash <= MaxChunks
          /\ stream[r].state # "none" => stream[r].chunks = req[r].read
          /\ stream[r].state = "none" => stream[r].chunks = 0
          /\ stream[r].written <= stream[r].chunks
      BY DEF RequestInv, Accounted
    <3>3. stream[r].chunks <= MaxChunks
      BY <3>1, <3>2
    <3>4. req[r].result \in [size : 0..MaxChunks, md5Hash : 0..MaxChunks]
      BY <3>1, <3>2
    <3>5. stream[r] \in [state : {"none", "opening", "open", "closed"}, ended : BOOLEAN,
                         chunks : 0..MaxChunks, written : 0..MaxChunks]
      BY <3>1, <3>2, <3>3 DEF Streams
    <3> QED
      BY <3>1, <3>2, <3>4, <3>5
  <2>2. /\ req = [r \in Requests |-> req[r]] /\ stream = [r \in Requests |-> stream[r]]
    BY DEF RequestInv, RequestTypes
  <2> QED
    BY <2>1, <2>2 DEF RequestInv, RequestTypes, Files, NetworkTypeOK
<1>2. MailerInv => MessengerTypeOK
  BY DEF MailerInv
<1> QED
  BY <1>1, <1>2, EachService, MessageTypes, RequestsAccounted, MailerCorrect, PTL DEF ServicesTypeOK

\* The composition keeps what each service promises: no caller is told "sent"
\* of a message no gateway took, no hash is of anything but the whole body, no
\* mail leaves without content, or in another name than its call gave or, where it
\* gave none, in that of a second account.
THEOREM ServicesKeepPromises ==
  ServicesSpec =>
    /\ []SentIsAccepted /\ InTimeIsFinal
    /\ []HashIsOfBody /\ []CrashesAreLocal
    /\ []MailsAreTrue
BY EachService, SentMessagesAreAccepted, SuccessInTimeIsFinal, HashOfWholeBody, CrashesStayLocal,
   MailsStayTrue, PTL
=============================================================================
