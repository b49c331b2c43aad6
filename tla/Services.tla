------------------------------ MODULE Services ------------------------------
(***************************************************************************)
(* The ways out of the process: the SMS failover, the request of           *)
(* network.js and the mailer.  They share no state, and what one does      *)
(* neither enables nor disables a step of another; a behaviour is          *)
(* therefore one of a single service, chosen at first, and the others stay *)
(* as they were made.                                                      *)
(***************************************************************************)
EXTENDS SmsFailover, NetworkRequest, Messenger

VARIABLE service   \* the one that runs

servicesVars == <<service, vars, networkVars, messengerVars>>

\* The host is the SMS failover's; to the others all hosts are alike.
ServicesInit ==
  /\ service \in {"sms", "network", "messenger"}
  /\ Init /\ NetworkInit /\ MessengerInit
  /\ service # "sms" => env = CHOOSE e \in Environments : TRUE

ServicesNext ==
  /\ UNCHANGED service
  /\ \/ service = "sms" /\ Next /\ UNCHANGED <<networkVars, messengerVars>>
     \/ service = "network" /\ NetworkNext /\ UNCHANGED <<vars, messengerVars>>
     \/ service = "messenger" /\ MessengerNext /\ UNCHANGED <<vars, networkVars>>

\* What is fair of each service: of one that does not run nothing is enabled.
ServicesSpec ==
  /\ ServicesInit /\ [][ServicesNext]_servicesVars
  /\ Fairness /\ NetworkFairness /\ MessengerFairness

-----------------------------------------------------------------------------
\* The types of the three services.
ServicesTypeOK == TypeOK /\ NetworkTypeOK /\ MessengerTypeOK
=============================================================================
