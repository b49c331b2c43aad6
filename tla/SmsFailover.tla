---------------------------- MODULE SmsFailover ----------------------------
(***************************************************************************)
(* src/lib/utils/mfa.js: sendSms asks the gateway smsfactor, and lets      *)
(* smsFailover ask the gateway ovh when smsfactor fails or has not         *)
(* answered within 3500 ms.  The vendor classes are                        *)
(* src/lib/vendor/smsfactor/index.js and src/lib/vendor/ovh/sms.js.        *)
(*                                                                         *)
(* A promise and the `.then`s behind it settle in the same turn of the     *)
(* event loop, so one action is one event: a call, a timer, a network      *)
(* event, with everything that follows from it at once.                    *)
(*                                                                         *)
(* Both vendor classes extend Backbone.Model, which has neither `debug`    *)
(* nor `warn`, and the package `ovh` is no dependency: whether they exist  *)
(* is the host application's doing, a part of `env`.                       *)
(*                                                                         *)
(* An operator named X_Y is X with a fault: the properties are tested by   *)
(* putting it in X's place (PROJECT.json, "mutants").                      *)
(***************************************************************************)
EXTENDS Naturals

CONSTANTS Messages,     \* one per call of sendSms
          Environments  \* the hosts and credential files considered

Attempt == {"direct", "timer", "catch"}    \* which line called smsFailover
AttemptState ==
  {"none", "noprovider", "thrown", "listing", "posting", "sent", "gaveup"}
Copy == {"smsfactor"} \cup Attempt

\* files: which credential files exist; logs: Backbone.Model has debug and
\* warn; package: require('ovh') finds a module.
Environment == [files : SUBSET {"smsfactor", "ovh"}, logs : BOOLEAN, package : BOOLEAN]

ASSUME EnvironmentsAssumption == Environments \subseteq Environment

VARIABLES
  env,
  proc,       \* "running", or "crashed" by an error nobody handles
  caller,     \* what the promise of sendSms has told
  timer,      \* the 3500 ms timer
  request,    \* the HTTPS request to smsfactor and how much of its answer came
  attempt,    \* each call of smsFailover
  accepted    \* the copies of the message the gateways have taken

vars == <<env, proc, caller, timer, request, attempt, accepted>>

Body == {"headers", "whole", "pieces"}     \* data chunks so far: 0, 1, more

Init ==
  /\ env \in Environments
  /\ proc = "running"
  /\ caller = [m \in Messages |-> "idle"]
  /\ timer = [m \in Messages |-> "unset"]
  /\ request = [m \in Messages |-> "none"]
  /\ attempt = [m \in Messages |-> [a \in Attempt |-> "none"]]
  /\ accepted = [m \in Messages |-> {}]

Running == proc = "running" /\ UNCHANGED env

\* ok(...) and nok(...): the first one counts.
Settle(m, outcome) ==
  caller' = IF caller[m] \in {"idle", "waiting"}
              THEN [caller EXCEPT ![m] = outcome] ELSE caller

\* new Sms(opt) of ovh needs the package and this.debug.
OvhLoads == env.package /\ env.logs

smsFailover(m, a) ==
  \/ /\ "ovh" \in env.files /\ OvhLoads
     /\ attempt' = [attempt EXCEPT ![m][a] = "listing"]
     /\ caller' = [caller EXCEPT ![m] = IF @ = "idle" THEN "waiting" ELSE @]
  \/ /\ "ovh" \notin env.files
     /\ attempt' = [attempt EXCEPT ![m][a] = "noprovider"]
     /\ Settle(m, "failed")
  \/ /\ "ovh" \in env.files /\ ~OvhLoads
     /\ attempt' = [attempt EXCEPT ![m][a] = "thrown"]
     /\ Settle(m, "failed")

-----------------------------------------------------------------------------
(* sendSms *)

SendDirect(m) ==
  /\ Running
  /\ caller[m] = "idle"
  /\ "smsfactor" \notin env.files
  /\ smsFailover(m, "direct")
  /\ UNCHANGED <<proc, timer, request, accepted>>

SendPrimary_NoTimer(m) ==
  /\ Running
  /\ caller[m] = "idle"
  /\ "smsfactor" \in env.files
  /\ caller' = [caller EXCEPT ![m] = "waiting"]
  /\ request' = [request EXCEPT ![m] = "open"]
  /\ UNCHANGED <<proc, timer, attempt, accepted>>

SendPrimary(m) ==
  /\ Running
  /\ caller[m] = "idle"
  /\ "smsfactor" \in env.files
  /\ caller' = [caller EXCEPT ![m] = "waiting"]
  /\ timer' = [timer EXCEPT ![m] = "armed"]
  /\ request' = [request EXCEPT ![m] = "open"]
  /\ UNCHANGED <<proc, attempt, accepted>>

SendThrows_Unsettled(m) ==
  /\ Running
  /\ caller[m] = "idle"
  /\ "smsfactor" \in env.files
  /\ caller' = [caller EXCEPT ![m] = "thrown"]
  /\ timer' = [timer EXCEPT ![m] = "armed"]
  /\ UNCHANGED <<proc, request, attempt, accepted>>

\* The constructor or send() throws (an unreadable credential file, no
\* receivers): the promise is rejected, the timer stays.
SendThrows(m) ==
  /\ Running
  /\ caller[m] = "idle"
  /\ "smsfactor" \in env.files
  /\ caller' = [caller EXCEPT ![m] = "failed"]
  /\ timer' = [timer EXCEPT ![m] = "armed"]
  /\ UNCHANGED <<proc, request, attempt, accepted>>

TimerFires(m) ==
  /\ Running
  /\ timer[m] = "armed"
  /\ timer' = [timer EXCEPT ![m] = "fired"]
  /\ smsFailover(m, "timer")
  /\ UNCHANGED <<proc, request, accepted>>

\* `.then(result)` of the first gateway's promise.
PrimaryResolves_KeepsTimer(m) ==
  /\ Settle(m, "sent")
  /\ UNCHANGED <<proc, timer, attempt>>

PrimaryResolves(m) ==
  /\ timer' = [timer EXCEPT ![m] = IF @ = "armed" THEN "cleared" ELSE @]
  /\ Settle(m, "sent")
  /\ UNCHANGED <<proc, attempt>>

\* `.catch(e)`: the timer is not cleared.
PrimaryRejects(m) == smsFailover(m, "catch") /\ UNCHANGED <<proc, timer>>

Crash == proc' = "crashed" /\ UNCHANGED <<caller, timer, attempt>>

-----------------------------------------------------------------------------
(* The answer of smsfactor, vendor/smsfactor/index.js send().               *)

\* The gateway takes the message, whatever becomes of its answer.
GatewayTakes(m) ==
  /\ request[m] = "open"
  /\ accepted' = [accepted EXCEPT ![m] = @ \cup {"smsfactor"}]
  /\ UNCHANGED <<env, proc, caller, timer, request, attempt>>

StatusNot200(m) ==
  /\ Running
  /\ request[m] = "open"
  /\ request' = [request EXCEPT ![m] = "unread"]
  /\ PrimaryRejects(m)
  /\ UNCHANGED accepted

Status200(m) ==
  /\ Running
  /\ request[m] = "open"
  /\ request' = [request EXCEPT ![m] = "headers"]
  /\ UNCHANGED <<proc, caller, timer, attempt, accepted>>

Data(m) ==
  /\ Running
  /\ request[m] \in {"headers", "whole"}
  /\ request' = [request EXCEPT ![m] = IF @ = "headers" THEN "whole" ELSE "pieces"]
  /\ UNCHANGED <<proc, caller, timer, attempt, accepted>>

EndParsed_AnyStatus(m, status) ==
  /\ request[m] \in {"whole", "pieces"}
  /\ status = 1 => "smsfactor" \in accepted[m]
  /\ PrimaryResolves(m)

\* _chunks.join() puts commas between the pieces: the text is still JSON only
\* when every cut fell inside a string.  JSON.parse('') throws.
EndParsed(m, status) ==
  /\ request[m] \in {"whole", "pieces"}
  /\ \/ /\ status = 1
        /\ "smsfactor" \in accepted[m]
        /\ PrimaryResolves(m)
     \/ /\ status # 1
        /\ PrimaryRejects(m)

\* The handler's own catch calls this.warn before it rejects.
EndUnparsed(m) == IF env.logs THEN PrimaryRejects(m) ELSE Crash

End(m) ==
  /\ Running
  /\ request[m] \in Body
  /\ request' = [request EXCEPT ![m] = "closed"]
  /\ (\E status \in {0, 1} : EndParsed(m, status)) \/ EndUnparsed(m)
  /\ UNCHANGED accepted

\* 'error' on the request has a listener only once a 200 has arrived.
RequestError(m) ==
  /\ Running
  /\ \/ request[m] \in {"open", "unread"} /\ Crash
     \/ request[m] \in Body /\ PrimaryRejects(m)
  /\ request' = [request EXCEPT ![m] = "closed"]
  /\ UNCHANGED accepted

\* The peer closes in the middle of an answer: nothing listens to that.
CutShort(m) ==
  /\ Running
  /\ request[m] \in Body \cup {"unread"}
  /\ request' = [request EXCEPT ![m] = "closed"]
  /\ UNCHANGED <<proc, caller, timer, attempt, accepted>>

-----------------------------------------------------------------------------
(* vendor/ovh/sms.js send(): GET the account's name, then POST the message. *)

OvhListed(m, a) ==
  /\ Running
  /\ attempt[m][a] = "listing"
  /\ \/ /\ attempt' = [attempt EXCEPT ![m][a] = "posting"]
        /\ UNCHANGED caller
     \/ /\ attempt' = [attempt EXCEPT ![m][a] = "gaveup"]
        /\ Settle(m, "failed")
  /\ UNCHANGED <<proc, timer, request, accepted>>

OvhTakes(m, a) ==
  /\ attempt[m][a] = "posting"
  /\ accepted' = [accepted EXCEPT ![m] = @ \cup {a}]
  /\ UNCHANGED <<env, proc, caller, timer, request, attempt>>

OvhAnswers(m, a) ==
  /\ Running
  /\ attempt[m][a] = "posting"
  /\ \/ /\ a \in accepted[m]
        /\ attempt' = [attempt EXCEPT ![m][a] = "sent"]
        /\ Settle(m, "sent")
     \/ /\ attempt' = [attempt EXCEPT ![m][a] = "gaveup"]
        /\ Settle(m, "failed")
  /\ UNCHANGED <<proc, timer, request, accepted>>

Next ==
  \E m \in Messages :
    \/ SendDirect(m) \/ SendPrimary(m) \/ SendThrows(m) \/ TimerFires(m)
    \/ GatewayTakes(m) \/ StatusNot200(m) \/ Status200(m) \/ Data(m)
    \/ End(m) \/ RequestError(m) \/ CutShort(m)
    \/ \E a \in Attempt : OvhListed(m, a) \/ OvhTakes(m, a) \/ OvhAnswers(m, a)

Spec == Init /\ [][Next]_vars

\* Timers fire and ovh answers, one way or the other; smsfactor need not.
Fairness ==
  \A m \in Messages :
    /\ WF_vars(TimerFires(m))
    /\ \A a \in Attempt : WF_vars(OvhListed(m, a) \/ OvhAnswers(m, a))

FairSpec == Spec /\ Fairness

-----------------------------------------------------------------------------
TypeOK ==
  /\ env \in Environment
  /\ proc \in {"running", "crashed"}
  /\ caller \in [Messages -> {"idle", "waiting", "sent", "failed"}]
  /\ timer \in [Messages -> {"unset", "armed", "fired", "cleared"}]
  /\ request \in [Messages -> {"none", "open", "unread", "closed"} \cup Body]
  /\ attempt \in [Messages -> [Attempt -> AttemptState]]
  /\ accepted \in [Messages -> SUBSET Copy]

\* A caller that is told "sent" has a message some gateway has taken, whichever
\* of the two answers came first and however the first one was cut.
SentIsAccepted == \A m \in Messages : caller[m] = "sent" => accepted[m] # {}

NoFailover(m) == \A a \in Attempt : attempt[m][a] = "none"

\* What makes InTimeIsFinal hold: nothing that starts a failover is left.
InTimeInv ==
  \A m \in Messages : caller[m] = "sent" /\ NoFailover(m) =>
     timer[m] # "armed" /\ request[m] = "closed"

\* When the first gateway's success reaches the caller before any failover has
\* begun, none begins later: no second copy leaves for a message already sent.
InTimeIsFinal ==
  [][\A m \in Messages : caller[m] = "sent" /\ NoFailover(m) => NoFailover(m)']_vars

\* A caller that waits is answered, even when smsfactor never is: the timer
\* bounds the wait, unless an unhandled error ends the process.
EveryMessageSettles ==
  \A m \in Messages : caller[m] = "waiting" ~>
     caller[m] \in {"sent", "failed"} \/ proc = "crashed"

\* "Trying fallback method" (mfa.js:74): where the file of the second gateway
\* exists, a failure of the first one makes the code ask the second.
FallbackTried ==
  \A m \in Messages : "ovh" \in env.files => attempt[m]["catch"] # "thrown"

\* "Failed to handle sms failover. Giving up" (mfa.js:43): a failover that has
\* given up on a message is not followed by another one for it.
GivingUpIsFinal ==
  [][\A m \in Messages : (\E a \in Attempt : attempt[m][a] = "gaveup")
        => \A b \in Attempt : attempt[m][b] = "none" => attempt'[m][b] = "none"]_vars
=============================================================================
