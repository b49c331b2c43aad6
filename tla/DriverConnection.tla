------------------------- MODULE DriverConnection -------------------------
(***************************************************************************)
(* One MariaDB connection, seen from both of its ends: the driver's        *)
(* `Connection` object (src/lib/node_modules/mariadb/lib/connection.js)    *)
(* and the server session behind it.  Everything here is an operator on    *)
(* one endpoint or one session record; MariadbStub holds a function of     *)
(* each and takes its steps with them.                                     *)
(*                                                                         *)
(* The driver's `receiveQueue` (commands written to the socket whose last  *)
(* reply packet has not been parsed) is split in two where the server      *)
(* stands: `replies`, executed and answered but not parsed yet, then       *)
(* `wire`, not executed yet.                                               *)
(*                                                                         *)
(* An operator named X_Y is X with a fault: the properties are tested by   *)
(* putting it in X's place (PROJECT.json, "mutants").                      *)
(***************************************************************************)
EXTENDS Sequences

CONSTANT Calls          \* the statements the program runs through a stub

Op == {"BEGIN", "QUERY", "COMMIT", "ROLLBACK"}
Result == {"ok", "statement", "deadlock"}

\* `call` names the call of the stub that issued the command.
Command == [op : Op, call : Calls]
Reply == [op : Op, call : Calls, result : Result, tx : BOOLEAN]

(***************************************************************************)
(* The driver's end.  `tx` is SERVER_STATUS_IN_TRANS of `info.status`;     *)
(* `undoers`, which only the properties read, are the calls that ever      *)
(* wrote a ROLLBACK to it.                                                 *)
(***************************************************************************)
Status == {"unused", "connecting", "up", "closed"}

Endpoint == [status : Status, tx : BOOLEAN,
             wire : Seq(Command), replies : Seq(Reply), undoers : SUBSET Calls]

NewEndpoint ==
  [status |-> "unused", tx |-> FALSE, wire |-> <<>>, replies |-> <<>>, undoers |-> {}]

isValid(n) == n.status = "up"

\* receiveQueue.peekFront(): some command still waits for its answer.
Busy(n) == n.replies # <<>> \/ n.wire # <<>>

\* addCommandEnablePipeline: the command leaves at once, whatever is in flight.
addCommand(n, op, c) ==
  [n EXCEPT !.wire = Append(@, [op |-> op, call |-> c]),
            !.undoers = IF op = "ROLLBACK" THEN @ \cup {c} ELSE @]

\* COMMIT and ROLLBACK are written only if they may be needed.
changeTransaction_UnlessIdle(n, op, c) == IF Busy(n) THEN addCommand(n, op, c) ELSE n
changeTransaction(n, op, c) ==
  IF Busy(n) \/ n.tx THEN addCommand(n, op, c) ELSE n

\* end(): QUIT follows what was written, the socket is destroyed one tick
\* later and receiveQueue is cleared: no later reply is ever parsed.
end_Unfinished(n) == [n EXCEPT !.status = "closing"]
end(n) == [n EXCEPT !.status = "closed", !.replies = <<>>]

\* receivePacket of the last packet of a reply.  An error packet carries no
\* status flags and the driver then presumes a transaction is open.
receivePacket(n) ==
  [n EXCEPT !.replies = Tail(@),
            !.tx = IF Head(n.replies).result = "ok" THEN Head(n.replies).tx ELSE TRUE]

\* fatalError: the socket is gone and every waiting command is dispatched.
fatalError(n) == [n EXCEPT !.status = "closed", !.wire = <<>>, !.replies = <<>>]

(***************************************************************************)
(* The server's end.  `pending` are the calls whose writes the open        *)
(* transaction holds, `tx` says that a transaction is open; without one a  *)
(* statement commits by itself.                                            *)
(***************************************************************************)
SessionState == {"none", "open", "ended", "dropped"}

Session == [state : SessionState, tx : BOOLEAN, pending : SUBSET Calls]

NewSession == [state |-> "none", tx |-> FALSE, pending |-> {}]

\* The calls whose writes become durable when the session executes `cmd`;
\* `writes` says whether the statement wrote before it returned or failed.
Persisted(s, cmd, writes) ==
  IF cmd.op \in {"BEGIN", "COMMIT"} THEN s.pending
  ELSE IF cmd.op = "QUERY" /\ writes /\ ~s.tx THEN {cmd.call}
  ELSE {}

\* A failed statement leaves the transaction open with what it had written;
\* a deadlock victim loses its whole transaction.
Executed(s, cmd, result, writes) ==
  IF cmd.op = "QUERY" /\ result # "deadlock"
  THEN [s EXCEPT !.pending = IF writes /\ s.tx THEN @ \cup {cmd.call} ELSE @]
  ELSE [s EXCEPT !.tx = (cmd.op = "BEGIN"), !.pending = {}]

\* The server answers the command at the head of the wire; nobody reads the
\* answers of a socket the driver has destroyed.
Answered(n, result, tx) ==
  [n EXCEPT !.wire = Tail(@),
            !.replies = IF isValid(n)
                        THEN Append(@, [op |-> Head(n.wire).op, call |-> Head(n.wire).call,
                                        result |-> result, tx |-> tx])
                        ELSE @]

\* The session is over: what it had not committed is rolled back.
Over(s, state) == [s EXCEPT !.state = state, !.tx = FALSE, !.pending = {}]

(***************************************************************************)
(* What the receiveQueue holds, for the invariants of MariadbStub.         *)
(***************************************************************************)
\* Command `op` of call c is in the receiveQueue of n.
Asks(n, op, c) ==
  \/ \E i \in DOMAIN n.wire : n.wire[i].op = op /\ n.wire[i].call = c
  \/ \E i \in DOMAIN n.replies : n.replies[i].op = op /\ n.replies[i].call = c

StepOp == {"BEGIN", "QUERY"}
SameStep(m, r) == m.op \in StepOp /\ r.op \in StepOp /\ m.call = r.call

\* No call has two steps in the receiveQueue of n.
Once(n) ==
  /\ \A i, j \in DOMAIN n.wire : i # j => ~SameStep(n.wire[i], n.wire[j])
  /\ \A i, j \in DOMAIN n.replies : i # j => ~SameStep(n.replies[i], n.replies[j])
  /\ \A i \in DOMAIN n.wire, j \in DOMAIN n.replies : ~SameStep(n.wire[i], n.replies[j])
===========================================================================
