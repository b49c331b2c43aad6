------------------------------ MODULE Payload ------------------------------
(***************************************************************************)
(* payload() of src/lib/logger.js and its older copy in addons/model.js:   *)
(* what is sent of a model to a client, with the sender and the service.   *)
(* It writes into the options and the model it is given, which callers may *)
(* use again, for other requests.                                          *)
(*                                                                         *)
(* An operator named X_Y is X with a fault: the properties are tested by   *)
(* putting it in X's place (PROJECT.json, "mutants").                      *)
(***************************************************************************)
CONSTANT Clients   \* who the requests are from

ASSUME PayloadAssumption == "none" \notin Clients

VARIABLES
  options,   \* an options object that callers pass again
  changelog, \* whose changelog the args of a model hold
  payloadOf  \* the last payload: of whose request it is, what it says

payloadVars == <<options, changelog, payloadOf>>

NoOptions == [sender |-> "none", service |-> "none"]

PayloadInit ==
  /\ options = NoOptions
  /\ changelog = "none"
  /\ payloadOf = [by |-> "none", reused |-> FALSE, sender |-> "none", service |-> "none"]

\* The sender of a request with a socket gives way to the one the options have.
SenderIn_Undefined(opt, client, socket) == IF socket THEN client ELSE "undefined"
SenderIn(opt, client, socket) == IF socket /\ opt.sender = "none" THEN client ELSE opt.sender

\* modelPayload is payload() of model.js.  The service that the options name
\* wins over the request's.  A caller that passes options passes these.
modelPayload_Shared(client, reused, socket) ==
  LET out == [options EXCEPT !.sender = SenderIn(options, client, socket)] IN
  /\ options' = out
  /\ payloadOf' = [by |-> client, reused |-> reused, sender |-> out.sender,
              service |-> IF out.service = "none" THEN client ELSE out.service]
  /\ UNCHANGED changelog
Payload(client, reused, socket) ==
  LET opt == IF reused THEN options ELSE NoOptions
      out == [opt EXCEPT !.sender = SenderIn(opt, client, socket)] IN
  /\ options' = IF reused THEN out ELSE options
  /\ payloadOf' = [by |-> client, reused |-> reused, sender |-> out.sender,
              service |-> IF out.service = "none" THEN client ELSE out.service]
modelPayload(client, reused, socket) == Payload(client, reused, socket) /\ UNCHANGED changelog

\* That of logger.js also leaves the changelog of the first request in the
\* args of the model.
payload(client, reused, socket) ==
  /\ Payload(client, reused, socket)
  /\ changelog' = IF changelog = "none" THEN client ELSE changelog

\* A caller names a service in its options.
NameService(client) ==
  /\ options' = [options EXCEPT !.service = client]
  /\ UNCHANGED <<changelog, payloadOf>>

PayloadNext ==
  \/ \E client \in Clients, reused, socket \in BOOLEAN :
       payload(client, reused, socket) \/ modelPayload(client, reused, socket)
  \/ \E client \in Clients : NameService(client)

PayloadSpec == PayloadInit /\ [][PayloadNext]_payloadVars

-----------------------------------------------------------------------------
PayloadTypeOK ==
  /\ options \in [sender : {"none"} \cup Clients, service : {"none"} \cup Clients]
  /\ changelog \in {"none"} \cup Clients
  /\ payloadOf \in [by : {"none"} \cup Clients, reused : BOOLEAN, sender : {"none"} \cup Clients,
                    service : {"none"} \cup Clients]

\* The sender in a payload is somebody else than the request is from only if a
\* caller used its options again (lines 322-328).
ForeignSenderOnReuse == payloadOf.sender \notin {"none", payloadOf.by} => payloadOf.reused
=============================================================================
