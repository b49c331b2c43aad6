---------------------------- MODULE MariadbStub ----------------------------
(***************************************************************************)
(* src/lib/mariadb.js: a stub shares one lazily created connection between *)
(* all of its callers and wraps every statement in a transaction:          *)
(*                                                                         *)
(*   getConnection -> isValid -> START TRANSACTION -> statement -> COMMIT   *)
(*                                                                         *)
(* A call is one invocation of _run (or await_run); call_proc, call_func,  *)
(* query and the await_* forms only choose the statement's text.           *)
(*                                                                         *)
(* The JavaScript thread runs promise continuations to exhaustion before   *)
(* it looks at a socket again.  A chunk read from one socket may carry     *)
(* several replies; their continuations then run in the order of their     *)
(* distance from the resolved promise: first the `.then` after             *)
(* beginTransaction, next the `.then` after query, last the `.catch`.      *)
(* Continuations at one distance are taken in any order here, a superset   *)
(* of the program's.                                                       *)
(*                                                                         *)
(* An operator named X_Y is X with a fault: the properties are tested by   *)
(* putting it in X's place (PROJECT.json, "mutants").                      *)
(***************************************************************************)
EXTENDS Naturals, DriverConnection

CONSTANTS Conns,        \* the connections the run may open
          None,         \* JavaScript's null / undefined
          Sequential,   \* the program awaits each call before its next step
          Faults,       \* what may go wrong around the program
          Modes,        \* the forms of call the program uses
          Options       \* the constructor options it may pass

FaultKind == {"statement", "deadlock", "handler", "drop", "connect"}
Mode == {"run", "handler", "await_run"}
Option == [pooled : BOOLEAN, throwOnError : BOOLEAN]

ASSUME CallsAssumption == Calls \subseteq Nat
ASSUME ConnsAssumption == None \notin Conns
ASSUME EnvironmentAssumption ==
  /\ Sequential \in BOOLEAN
  /\ Faults \subseteq FaultKind
  /\ Modes \subseteq Mode
  /\ Options \subseteq Option

VARIABLES
  opt,        \* the options of this stub: limit > 1, throwOnError
  proc,       \* "running", "exited" by process.exit, "crashed" by an uncaught error
  pc,         \* where each call stands in _run
  mode,       \* which form each call was made in
  on,         \* `c` of _run: the connection each call uses
  fault,      \* what each call's .catch was given
  stub,       \* this._connection
  pool,       \* this._pool: "none", "open", or "ending" until its end() resolves
  closed,     \* this._closed
  reading,    \* the connection whose chunk is being parsed
  conn,       \* the driver's end of every connection
  db,         \* the server's end of every connection
  durable     \* the calls with writes the database has committed

vars == <<opt, proc, pc, mode, on, fault, stub, pool, closed, reading, conn, db, durable>>
stubVars == <<opt, stub, pool, closed>>

Outcome == {"ok", "handled", "swallowed", "rejected", "refused"}
Continuation == {"begun", "answered", "erring"}
InFlight == {"connecting", "checking", "beginning", "querying", "handling"} \cup Continuation

Runnable(s) == {c \in Calls : pc[c] = s}

\* The continuations of one chunk that run before those of state s.
EarlierHops_Unordered(s) == {}
EarlierHops(s) == CASE s = "answered" -> {"begun"}
                    [] s = "erring" -> {"begun", "answered"}
                    [] OTHER -> {}

Resumes(c, s) ==
  /\ proc = "running"
  /\ pc[c] = s
  /\ \A earlier \in EarlierHops(s) : Runnable(earlier) = {}

\* No continuation of a reply is left to run: the program's code may.
Idle == proc = "running" /\ \A c \in Calls : pc[c] \notin Continuation

\* Nothing at all is left to run: the thread looks at its sockets.
Quiet == Idle /\ Runnable("checking") = {} /\ pool # "ending"

stubValid_UnlessClosed == stub \in Conns /\ isValid(conn[stub]) /\ ~closed
stubValid == stub \in Conns /\ isValid(conn[stub])

Init ==
  /\ opt \in Options
  /\ proc = "running"
  /\ pc = [c \in Calls |-> "idle"]
  /\ mode = [c \in Calls |-> None]
  /\ on = [c \in Calls |-> None]
  /\ fault = [c \in Calls |-> "none"]
  /\ stub = None
  /\ pool = "none"
  /\ closed = FALSE
  /\ reading = None
  /\ conn = [k \in Conns |-> NewEndpoint]
  /\ db = [k \in Conns |-> NewSession]
  /\ durable = {}

-----------------------------------------------------------------------------
(* The program calls the stub.                                              *)

\* The calls are numbered in the order in which the program makes them.
MayCall(c) ==
  /\ Idle
  /\ pc[c] = "idle"
  /\ \A d \in Calls : d < c => pc[d] # "idle"
  /\ Sequential => \A d \in Calls : pc[d] \notin InFlight

\* getConnection resolves with the connection the stub holds.
Reuse(c, m) ==
  /\ MayCall(c)
  /\ stubValid
  /\ pc' = [pc EXCEPT ![c] = "checking"]
  /\ mode' = [mode EXCEPT ![c] = m]
  /\ on' = [on EXCEPT ![c] = stub]
  /\ reading' = None
  /\ UNCHANGED <<stubVars, proc, fault, conn, db, durable>>

\* getConnection finds none and creates one; with limit > 1 it also creates
\* a pool that no statement ever borrows from.
Connect(c, m, k) ==
  /\ MayCall(c)
  /\ ~stubValid
  /\ conn[k].status = "unused"
  /\ pc' = [pc EXCEPT ![c] = "connecting"]
  /\ mode' = [mode EXCEPT ![c] = m]
  /\ on' = [on EXCEPT ![c] = k]
  /\ conn' = [conn EXCEPT ![k].status = "connecting"]
  /\ pool' = IF opt.pooled THEN "open" ELSE pool
  /\ reading' = None
  /\ UNCHANGED <<opt, stub, closed, proc, fault, db, durable>>

Connected(c) ==
  /\ Quiet
  /\ pc[c] = "connecting"
  /\ pc' = [pc EXCEPT ![c] = "checking"]
  /\ conn' = [conn EXCEPT ![on[c]].status = "up"]
  /\ db' = [db EXCEPT ![on[c]].state = "open"]
  /\ stub' = on[c]
  /\ reading' = None
  /\ UNCHANGED <<opt, pool, closed, proc, mode, on, fault, durable>>

\* createConnection rejects: _run exits the process, await_run's caller gets
\* the error.
ConnectFails(c) ==
  /\ Quiet
  /\ "connect" \in Faults
  /\ pc[c] = "connecting"
  /\ conn' = [conn EXCEPT ![on[c]].status = "closed"]
  /\ IF mode[c] = "await_run"
     THEN pc' = [pc EXCEPT ![c] = "rejected"] /\ UNCHANGED proc
     ELSE proc' = "exited" /\ UNCHANGED pc
  /\ reading' = None
  /\ UNCHANGED <<stubVars, mode, on, fault, db, durable>>

-----------------------------------------------------------------------------
(* The continuations of _run and await_run.                                 *)

Fails(c, f) ==
  /\ pc' = [pc EXCEPT ![c] = "erring"]
  /\ fault' = [fault EXCEPT ![c] = f]

\* The call's next command is written, or refused by addCommandDisabled.
Issue_Unawaited(c, op, next) ==
  /\ conn' = [conn EXCEPT ![on[c]] = addCommand(addCommand(@, op, c), "QUERY", c)]
  /\ pc' = [pc EXCEPT ![c] = next]
  /\ UNCHANGED fault
Issue(c, op, next) ==
  IF isValid(conn[on[c]])
  THEN /\ conn' = [conn EXCEPT ![on[c]] = addCommand(@, op, c)]
       /\ pc' = [pc EXCEPT ![c] = next]
       /\ UNCHANGED fault
  ELSE Fails(c, "fatal") /\ UNCHANGED conn

Check(c) ==
  /\ Resumes(c, "checking")
  /\ IF mode[c] = "await_run" \/ isValid(conn[on[c]])
     THEN Issue(c, "BEGIN", "beginning") /\ UNCHANGED proc
     ELSE /\ IF closed
             THEN pc' = [pc EXCEPT ![c] = "refused"] /\ UNCHANGED proc
             ELSE proc' = "exited" /\ UNCHANGED pc
          /\ UNCHANGED <<conn, fault>>
  /\ reading' = None
  /\ UNCHANGED <<stubVars, mode, on, db, durable>>

\* .then(() => c.query(sql, args))
Begun(c) ==
  /\ Resumes(c, "begun")
  /\ Issue(c, "QUERY", "querying")
  /\ reading' = None
  /\ UNCHANGED <<stubVars, proc, mode, on, db, durable>>

HandlerSettles(c) ==
  \/ pc' = [pc EXCEPT ![c] = "handled"] /\ UNCHANGED fault
  \/ "handler" \in Faults /\ Fails(c, "handler")

\* .then((rows) => ...) with a handler: its result settles the call, later if
\* it is a promise, and no COMMIT is issued.
Handled_RolledBack(c) ==
  /\ Resumes(c, "answered")
  /\ mode[c] = "handler"
  /\ HandlerSettles(c)
  /\ conn' = [conn EXCEPT ![on[c]] = changeTransaction(@, "ROLLBACK", c)]
  /\ reading' = None
  /\ UNCHANGED <<stubVars, proc, mode, on, db, durable>>
Handled(c) ==
  /\ Resumes(c, "answered")
  /\ mode[c] = "handler"
  /\ HandlerSettles(c) \/ (pc' = [pc EXCEPT ![c] = "handling"] /\ UNCHANGED fault)
  /\ reading' = None
  /\ UNCHANGED <<stubVars, proc, mode, on, conn, db, durable>>

HandledLater(c) ==
  /\ Quiet
  /\ pc[c] = "handling"
  /\ HandlerSettles(c)
  /\ reading' = None
  /\ UNCHANGED <<stubVars, proc, mode, on, conn, db, durable>>

\* .then((rows) => ...) without one: COMMIT is not awaited, so on a closed
\* connection its rejection has no handler and ends the process.
Succeeds(c) ==
  /\ Resumes(c, "answered")
  /\ mode[c] # "handler"
  /\ pc' = [pc EXCEPT ![c] = "ok"]
  /\ IF isValid(conn[on[c]])
     THEN conn' = [conn EXCEPT ![on[c]] = changeTransaction(@, "COMMIT", c)] /\ UNCHANGED proc
     ELSE proc' = "crashed" /\ UNCHANGED conn
  /\ reading' = None
  /\ UNCHANGED <<stubVars, mode, on, fault, db, durable>>

\* end() on the stub: the connection it holds is ended, unless a pool was
\* created: then the pool is, and the connection is only forgotten once that
\* has resolved.  `n` is what the caller made of the connection before.
EndStub(n) ==
  /\ closed' = TRUE
  /\ IF ~stubValid
     THEN UNCHANGED <<stub, pool, conn>>
     ELSE IF opt.pooled /\ pool # "none"
     THEN /\ pool' = "ending"
          /\ conn' = [conn EXCEPT ![stub] = n]
          /\ UNCHANGED stub
     ELSE /\ stub' = None
          /\ conn' = [conn EXCEPT ![stub] = end(n)]
          /\ UNCHANGED pool

PoolEnded ==
  /\ Idle
  /\ pool = "ending"
  /\ pool' = "none"
  /\ stub' = None
  /\ reading' = None
  /\ UNCHANGED <<opt, closed, proc, pc, mode, on, fault, conn, db, durable>>

\* A failed call rolls back whatever connection the stub now holds.
Undo_Forgotten(c) == IF stubValid THEN conn[stub] ELSE NewEndpoint
Undo_Committed(c) == IF stubValid THEN changeTransaction(conn[stub], "COMMIT", c) ELSE NewEndpoint
Undo(c) == IF stubValid THEN changeTransaction(conn[stub], "ROLLBACK", c) ELSE NewEndpoint

\* .catch(this._handleError)
_handleError(c) ==
  /\ Resumes(c, "erring")
  /\ IF opt.throwOnError \/ fault[c] = "fatal"
     THEN pc' = [pc EXCEPT ![c] = "rejected"] /\ UNCHANGED <<closed, stub, pool, conn>>
     ELSE /\ pc' = [pc EXCEPT ![c] = "swallowed"]
          /\ IF fault[c] = "deadlock"
             THEN UNCHANGED <<closed, stub, pool, conn>>
             ELSE EndStub(Undo(c))
  /\ reading' = None
  /\ UNCHANGED <<opt, proc, mode, on, fault, db, durable>>

-----------------------------------------------------------------------------
\* The program ends the stub.
End ==
  /\ Idle
  /\ Sequential => \A c \in Calls : pc[c] \notin InFlight
  /\ EndStub(IF stubValid THEN conn[stub] ELSE NewEndpoint)
  /\ reading' = None
  /\ UNCHANGED <<opt, proc, pc, mode, on, fault, db, durable>>

-----------------------------------------------------------------------------
(* The socket.                                                              *)

\* The next reply of a chunk is parsed; the continuations of a chunk start
\* when all of it has been.
Deliver(k) ==
  /\ proc = "running"
  /\ isValid(conn[k])
  /\ conn[k].replies # <<>>
  /\ Quiet \/ reading = k
  /\ LET r == Head(conn[k].replies) IN
       \/ r.op = "BEGIN" /\ pc' = [pc EXCEPT ![r.call] = "begun"] /\ UNCHANGED fault
       \/ /\ r.op = "QUERY" /\ r.result = "ok"
          /\ pc' = [pc EXCEPT ![r.call] = "answered"] /\ UNCHANGED fault
       \/ r.op = "QUERY" /\ r.result # "ok" /\ Fails(r.call, r.result)
       \/ r.op \in {"COMMIT", "ROLLBACK"} /\ UNCHANGED <<pc, fault>>
  /\ conn' = [conn EXCEPT ![k] = receivePacket(@)]
  /\ reading' = k
  /\ UNCHANGED <<stubVars, proc, mode, on, db, durable>>

Waiting_Forgotten(k) == {}
Waiting(k) == {c \in Calls : on[c] = k /\ pc[c] \in {"beginning", "querying"}}

Uncaught(n) ==
  \/ ~Busy(n)
  \/ \E i \in DOMAIN n.wire : n.wire[i].op \in {"COMMIT", "ROLLBACK"}
  \/ \E i \in DOMAIN n.replies : n.replies[i].op \in {"COMMIT", "ROLLBACK"}

\* The driver learns that the server is gone: waiting calls are rejected; with
\* none, or with a COMMIT nobody awaits, the error ends the process.
SocketError(k) ==
  /\ Quiet
  /\ isValid(conn[k])
  /\ db[k].state = "dropped"
  /\ IF Uncaught(conn[k])
     THEN proc' = "crashed" /\ UNCHANGED <<pc, fault>>
     ELSE /\ pc' = [c \in Calls |-> IF c \in Waiting(k) THEN "erring" ELSE pc[c]]
          /\ fault' = [c \in Calls |-> IF c \in Waiting(k) THEN "fatal" ELSE fault[c]]
          /\ UNCHANGED proc
  /\ conn' = [conn EXCEPT ![k] = fatalError(@)]
  /\ reading' = None
  /\ UNCHANGED <<stubVars, mode, on, db, durable>>

-----------------------------------------------------------------------------
(* The server.                                                              *)

\* A command is executed; a COMMIT or ROLLBACK that has reached a server with
\* the session open is never refused (README, section 5).
Execute(k, result, writes) ==
  /\ db[k].state = "open"
  /\ conn[k].wire # <<>>
  /\ LET cmd == Head(conn[k].wire)
         s == Executed(db[k], cmd, result, writes) IN
       /\ cmd.op # "QUERY" => result = "ok" /\ ~writes
       /\ cmd.op = "QUERY" /\ result = "ok" => writes
       /\ result # "ok" => result \in Faults
       /\ durable' = durable \cup Persisted(db[k], cmd, writes)
       /\ db' = [db EXCEPT ![k] = s]
       /\ conn' = [conn EXCEPT ![k] = Answered(@, result, s.tx)]
  /\ UNCHANGED <<stubVars, proc, pc, mode, on, fault, reading>>

\* The server has executed all that was written and reads QUIT, or the end
\* of the stream of a process that is gone.
SessionEnds(k) ==
  /\ db[k].state = "open"
  /\ conn[k].wire = <<>>
  /\ conn[k].status = "closed" \/ proc # "running"
  /\ db' = [db EXCEPT ![k] = Over(@, "ended")]
  /\ UNCHANGED <<stubVars, proc, pc, mode, on, fault, reading, conn, durable>>

\* The server, or the network to it, goes away.
Drop(k) ==
  /\ "drop" \in Faults
  /\ db[k].state = "open"
  /\ db' = [db EXCEPT ![k] = Over(@, "dropped")]
  /\ UNCHANGED <<stubVars, proc, pc, mode, on, fault, reading, conn, durable>>

-----------------------------------------------------------------------------
Calling == \E c \in Calls, m \in Modes : Reuse(c, m) \/ \E k \in Conns : Connect(c, m, k)

Continue(c) == Check(c) \/ Begun(c) \/ Handled(c) \/ Succeeds(c) \/ _handleError(c)

Next ==
  \/ Calling
  \/ \E c \in Calls : Connected(c) \/ ConnectFails(c) \/ Continue(c) \/ HandledLater(c)
  \/ End
  \/ PoolEnded
  \/ \E k \in Conns :
       \/ Deliver(k)
       \/ SocketError(k)
       \/ \E result \in Result, writes \in BOOLEAN : Execute(k, result, writes)
       \/ SessionEnds(k)
       \/ Drop(k)

Spec == Init /\ [][Next]_vars

\* The event loop runs what is runnable and reads what has arrived; the
\* server executes what it is sent; a broken socket is reported; a handler's
\* promise settles.  Nothing makes the program call or end the stub.
Fairness ==
  /\ \A c \in Calls :
       /\ WF_vars(Continue(c))
       /\ WF_vars(Connected(c) \/ ConnectFails(c))
       /\ WF_vars(HandledLater(c))
  /\ WF_vars(PoolEnded)
  /\ \A k \in Conns :
       /\ WF_vars(Deliver(k))
       /\ WF_vars(SocketError(k))
       /\ WF_vars(\E result \in Result, writes \in BOOLEAN : Execute(k, result, writes))

FairSpec == Spec /\ Fairness

-----------------------------------------------------------------------------
TypeOK ==
  /\ opt \in Option
  /\ proc \in {"running", "exited", "crashed"}
  /\ pc \in [Calls -> {"idle"} \cup InFlight \cup Outcome]
  /\ mode \in [Calls -> Mode \cup {None}]
  /\ on \in [Calls -> Conns \cup {None}]
  /\ fault \in [Calls -> {"none", "fatal", "handler"} \cup Result]
  /\ stub \in Conns \cup {None}
  /\ pool \in {"none", "open", "ending"}
  /\ closed \in BOOLEAN
  /\ reading \in Conns \cup {None}
  /\ conn \in [Conns -> Endpoint]
  /\ db \in [Conns -> Session]
  /\ durable \subseteq Calls

\* The server still has to execute something that commits c, and no ROLLBACK
\* before it.
CommitComing(c) ==
  LET w == conn[on[c]].wire IN
    /\ db[on[c]].state = "open"
    /\ c \in db[on[c]].pending
    /\ \E i \in DOMAIN w :
         /\ w[i].op \in {"BEGIN", "COMMIT"}
         /\ \A j \in DOMAIN w : j < i => w[j].op # "ROLLBACK"

\* mariadb.js reports success without waiting for its COMMIT (line 270).  All
\* the same a call reported successful is durable, or its COMMIT is under
\* way with no ROLLBACK ahead of it, whatever the stub, the other callers,
\* end() or process.exit did since; only a lost connection can undo it.
DurableSuccess ==
  \A c \in Calls :
    pc[c] = "ok" => \/ c \in durable
                    \/ CommitComing(c)
                    \/ db[on[c]].state = "dropped"

\* A deadlock took the transaction of call d: it was told, or its answer is on
\* the way, or end() forgot the answer.
Struck(d) ==
  \/ pc[d] \in {"erring", "swallowed", "rejected"} /\ fault[d] = "deadlock"
  \/ /\ pc[d] = "querying"
     /\ LET w == conn[on[d]].wire IN
          \A i \in DOMAIN w : ~(w[i].op = "QUERY" /\ w[i].call = d)
     /\ LET r == conn[on[d]].replies IN
          \A i \in DOMAIN r : r[i].op = "QUERY" /\ r[i].call = d => r[i].result = "deadlock"

DeadlockOn(k) == "deadlock" \in Faults /\ \E d \in Calls : on[d] = k /\ Struck(d)

\* Call d failed and rolled back k, which with a pool it left open to others.
Undid(d, k) == opt.pooled /\ pc[d] = "swallowed" /\ d \in conn[k].undoers
UndoneOn(k) == \E d \in Calls : Undid(d, k)

\* Calls in flight together share one transaction.  A success is all the same
\* only lost with its connection, or to another call on it that the server
\* chose as a deadlock victim (line 123), or, with a pool, to another call
\* whose failure rolled back a connection it did not close (lines 127, 387).
SuccessKept ==
  \A c \in Calls :
    pc[c] = "ok" => \/ c \in durable
                    \/ CommitComing(c)
                    \/ db[on[c]].state = "dropped"
                    \/ DeadlockOn(on[c])
                    \/ UndoneOn(on[c])

\* Nothing of a call that failed is ever committed: neither what its
\* statement had written before the error nor by a later call's START
\* TRANSACTION (lines 96-132 with 255).
AtomicFailure ==
  \A c \in Calls : pc[c] \in {"swallowed", "rejected", "refused"} => c \notin durable

\* A handler's call gets no COMMIT of its own (lines 267-269): the START
\* TRANSACTION of the next call on its connection commits it.
HandledSavedByNext ==
  \A c, d \in Calls :
    /\ pc[c] = "handled" /\ c < d
    /\ on[c] = on[d] /\ pc[d] \in {"ok", "handled"}
    => c \in durable \/ db[on[c]].state = "dropped"

\* Without a pool, the only live connection is the one that end() will close
\* (lines 58-88, 399).
ConnectionOwned ==
  ~opt.pooled => \A k \in Conns : isValid(conn[k]) => k = stub

\* A call has no effect before its START TRANSACTION was answered, and one
\* that was told CONNECTION_ALREADY_CLOSED (lines 242-246) has none at all:
\* the caller may make it again.
NoEffectBeforeBegin ==
  \A c \in Calls :
    pc[c] \in {"idle", "connecting", "checking", "beginning", "begun", "refused"}
    => c \notin durable /\ \A k \in Conns : c \notin db[k].pending

\* However calls, errors and end() interleave, no COMMIT is attempted on a
\* connection that was ended (its rejection would end the process, line 270):
\* only a lost connection crashes it.
CrashOnlyOnLoss ==
  proc = "crashed" => \E k \in Conns : db[k].state = "dropped"

\* Every call made one at a time is eventually answered, or the process ends.
EveryCallSettles ==
  \A c \in Calls : pc[c] \in InFlight ~> (pc[c] \in Outcome \/ proc # "running")

\* What the program sees of the stub and the database.
report ==
  [c \in Calls |-> CASE pc[c] = "idle" -> "none"
                     [] pc[c] \in InFlight -> "open"
                     [] pc[c] \in {"ok", "handled"} -> "done"
                     [] OTHER -> "failed"]

Ledger == INSTANCE CallLedger WITH saved <- durable

\* Used one call at a time and with its default options, the stub implements
\* the ledger: what a caller is told and what the database keeps never
\* contradict each other.
ImplementsLedger == Ledger!Spec

\* What the warning at line 115 says of a fatal error, "FATAL ERROR RAISED --
\* EXITING": with the default options the process does not outlive it.
FatalErrorExits ==
  \A c \in Calls :
    pc[c] = "rejected" /\ fault[c] = "fatal" /\ ~opt.throwOnError => proc # "running"

\* What the driver says of end(), "Terminate connection gracefully."
\* (connection.js line 393): a statement in flight still gets its answer.
GracefulEnd ==
  \A c \in Calls :
    pc[c] \in {"beginning", "querying"} ~> pc[c] \notin {"beginning", "querying"}

-----------------------------------------------------------------------------
(* The inductive invariants behind NoEffectBeforeBegin, CrashOnlyOnLoss and  *)
(* SuccessKept (MariadbStubProofs, MariadbDurabilityProofs).                 *)

\* A call waits for exactly the command it has in flight.
Staged ==
  \A k \in Conns, c \in Calls :
    /\ Asks(conn[k], "BEGIN", c) => on[c] = k /\ pc[c] = "beginning"
    /\ Asks(conn[k], "QUERY", c) => on[c] = k /\ pc[c] = "querying"

OnceEach == \A k \in Conns : Once(conn[k])

\* Every connection being made belongs to one call and is untouched.
Attached ==
  /\ \A c \in Calls :
       proc = "running" /\ pc[c] = "connecting" =>
         /\ on[c] \in Conns /\ conn[on[c]].status = "connecting"
         /\ \A d \in Calls : pc[d] = "connecting" /\ on[d] = on[c] => d = c
  /\ \A k \in Conns :
       /\ conn[k].status \in {"unused", "connecting"} => ~Busy(conn[k]) /\ db[k] = NewSession
       /\ conn[k].status = "closed" => conn[k].replies = <<>>

\* A continuation that will use its connection finds it alive.
ReadyIsLive ==
  proc = "running" =>
    \A c \in Calls : pc[c] \in {"begun", "answered"} => on[c] \in Conns /\ isValid(conn[on[c]])

StageInv == TypeOK /\ Staged /\ OnceEach /\ Attached /\ ReadyIsLive

\* The ROLLBACKs of an open connection are those that, with a pool, a failed
\* call left behind.
UndoersKnown ==
  \A k \in Conns, c \in Calls : isValid(conn[k]) /\ Asks(conn[k], "ROLLBACK", c) => Undid(c, k)

\* The driver never takes an open transaction for a closed one.
TxMirrored ==
  \A k \in Conns :
    /\ ~db[k].tx => db[k].pending = {}
    /\ isValid(conn[k]) /\ db[k].state = "open" =>
         LET r == conn[k].replies IN
           IF r = <<>> THEN ~conn[k].tx => ~db[k].tx
                       ELSE r[Len(r)].result = "ok" => r[Len(r)].tx = db[k].tx

\* What the server has written for c on k is still there.
Written(c, k) ==
  \/ c \in durable
  \/ db[k].state = "open" /\ c \in db[k].pending
  \/ db[k].state = "dropped"
  \/ DeadlockOn(k)
  \/ UndoneOn(k)

WrittenBeforeOk ==
  proc = "running" =>
    /\ \A c \in Calls : pc[c] = "answered" => Written(c, on[c])
    /\ \A k \in Conns : \A i \in DOMAIN conn[k].replies :
         LET r == conn[k].replies[i] IN r.op = "QUERY" /\ r.result = "ok" => Written(r.call, k)

OkOnConnection == \A c \in Calls : pc[c] = "ok" => on[c] \in Conns

DurableInv ==
  /\ StageInv /\ TxMirrored /\ UndoersKnown /\ WrittenBeforeOk
  /\ OkOnConnection /\ SuccessKept
=============================================================================
