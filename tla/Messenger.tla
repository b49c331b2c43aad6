------------------------------ MODULE Messenger ------------------------------
(***************************************************************************)
(* src/lib/messenger.js: a messenger renders its content when it is made,  *)
(* mails it to its recipients, and stops itself afterwards: 11 seconds     *)
(* later the clean-up of logger.js nulls its content, its attributes and   *)
(* its bound methods, whatever sends are under way by then.                *)
(*                                                                         *)
(* A mail is what was handed to the transport.  Between two waits of one   *)
(* send nothing else runs.                                                 *)
(*                                                                         *)
(* An operator named X_Y is X with a fault: the properties are tested by   *)
(* putting it in X's place (PROJECT.json, "mutants").                      *)
(***************************************************************************)
EXTENDS Naturals, FiniteSets

CONSTANTS Messengers, Mailings,  \* objects, and calls of send() or dispatch()
          Recipients,            \* of every messenger
          Arguments,             \* what a call may be given: a body, a sender
          Users,                 \* that email.json may name
          Senders,               \* that a messenger or a call may name
          Attributes             \* the senders of messengers, "none" for no sender

ASSUME MessengerAssumption ==
  /\ Messengers # {}
  /\ Arguments \subseteq [body : {"none", "text", "html"}, from : {"none"} \cup Senders]
  /\ Users \cap {"default", "undefined", "null", "missing", "nouser"} = {}
  /\ Attributes \subseteq {"none"} \cup Senders
  /\ Senders \cap ({"default", "none"} \cup Users) = {}

VARIABLES
  messenger,     \* every messenger: its life, its content and sender, _stopping
  mailing,       \* every call: its progress and what it returns
  _butlerSender, \* the module's cached sender
  credential,    \* email.json: missing, without a user, or a user
  outbox         \* the mails handed to a transport

messengerVars == <<messenger, mailing, _butlerSender, credential, outbox>>

Content == {"none", "text", "html"}

NoArguments == [body |-> "none", from |-> "none"]
Unmade == [life |-> "none", content |-> "none", from |-> "none", stopping |-> FALSE]

MessengerInit ==
  /\ messenger = [m \in Messengers |-> Unmade]
  /\ mailing = [s \in Mailings |-> [pc |-> "idle", by |-> CHOOSE m \in Messengers : TRUE,
                                    args |-> NoArguments, pending |-> {}, answers |-> {}, error |-> {}]]
  /\ _butlerSender = "undefined"
  /\ credential = "missing"
  /\ outbox = {}

-----------------------------------------------------------------------------
\* The constructor: the text, the html, a message of the code's own or the
\* template; a template that is not there throws.  The attributes may name a
\* sender.
initialize(m) ==
  /\ messenger[m].life = "none"
  /\ \/ \E c \in {"text", "html"}, from \in Attributes :
          messenger' = [messenger EXCEPT ![m].life = "ready", ![m].content = c, ![m].from = from]
     \/ messenger' = [messenger EXCEPT ![m].life = "failed"]
  /\ UNCHANGED <<mailing, _butlerSender, credential, outbox>>

\* Somebody edits the credentials.
Configure(c) ==
  /\ c # credential
  /\ credential' = c
  /\ UNCHANGED <<messenger, mailing, _butlerSender, outbox>>

\* A file that cannot be read is tried again by the next send; what it said
\* once is kept.
butlerSender_Unread == IF _butlerSender \in {"undefined", "null"} THEN credential ELSE _butlerSender
butlerSender_Uncached ==
  CASE credential = "missing" -> "undefined"
    [] credential = "nouser" -> "null"
    [] OTHER -> credential
butlerSender ==
  IF _butlerSender # "undefined" THEN _butlerSender
  ELSE CASE credential = "missing" -> "undefined"
         [] credential = "nouser" -> "null"
         [] OTHER -> credential

\* The sender the call is given, or the user of email.json, who is asked for
\* only then, or that of the messenger.
Sender_ButlerFirst(m, args) ==
  CASE butlerSender \in Users -> butlerSender
    [] OTHER -> IF args.from # "none" THEN args.from ELSE "default"
Sender(m, args) ==
  IF args.from # "none" THEN args.from
  ELSE IF butlerSender \in Users THEN butlerSender
  ELSE IF messenger[m].from # "none" THEN messenger[m].from ELSE "default"

\* A text wins over any html, an argument over the messenger's own.
MailBody(m, args) ==
  IF args.body = "text" \/ messenger[m].content = "text" THEN "text"
  ELSE IF args.body = "html" THEN "html" ELSE messenger[m].content

\* The part of send() behind the transport: reading an attribute throws once
\* the messenger was cleaned up.
Mail_Unattributed(s, m, args) ==
  /\ outbox' = outbox \cup {[of |-> s, to |-> r, from |-> Sender(m, args),
                             body |-> MailBody(m, args)] : r \in Recipients}
  /\ _butlerSender' = IF args.from = "none" THEN butlerSender ELSE _butlerSender
  /\ mailing' = [mailing EXCEPT ![s].pc = "mailing", ![s].by = m, ![s].args = args,
                                ![s].pending = Recipients]
Mail(s, m, args) ==
  IF messenger[m].life = "gone"
  THEN /\ mailing' = [mailing EXCEPT ![s].pc = "rejected", ![s].by = m]
       /\ UNCHANGED <<outbox, _butlerSender>>
  ELSE Mail_Unattributed(s, m, args)

\* send() or dispatch(): getMTA finds mail switched off, an account that a
\* token must be asked for, the transport of email.json, or no such file.
\* After the clean-up the bound send() is null, and calling it throws.
send(s, m, args) ==
  /\ mailing[s].pc = "idle"
  /\ \/ /\ messenger[m].life = "gone"
        /\ mailing' = [mailing EXCEPT ![s].pc = "thrown", ![s].by = m]
        /\ UNCHANGED <<_butlerSender, outbox>>
     \/ /\ messenger[m].life = "ready"
        /\ \/ mailing' = [mailing EXCEPT ![s].pc = "token", ![s].by = m, ![s].args = args]
           \/ \E pc \in {"unsent"} \cup (IF credential = "missing" THEN {"rejected"} ELSE {}) :
                mailing' = [mailing EXCEPT ![s].pc = pc, ![s].by = m]
        /\ UNCHANGED <<_butlerSender, outbox>>
     \/ /\ messenger[m].life = "ready" /\ credential # "missing"
        /\ Mail(s, m, args)
  /\ UNCHANGED <<messenger, credential>>

TokenAnswered(s) ==
  /\ mailing[s].pc = "token"
  /\ \/ Mail(s, mailing[s].by, mailing[s].args)
     \/ /\ mailing' = [mailing EXCEPT ![s].pc = "rejected"]
        /\ UNCHANGED <<_butlerSender, outbox>>
  /\ UNCHANGED <<messenger, credential>>

\* sendMail to one recipient resolves or rejects.
MailAnswered(s, r, ok) ==
  /\ mailing[s].pc = "mailing"
  /\ r \in mailing[s].pending
  /\ mailing' = [mailing EXCEPT ![s].pending = @ \ {r},
                                ![s].answers = @ \cup {[to |-> r, ok |-> ok]}]
  /\ UNCHANGED <<messenger, _butlerSender, credential, outbox>>

\* Promise.allSettled: the result is returned and the messenger stops itself.
RefusedBy(s) == {a.to : a \in {x \in mailing[s].answers : ~x.ok}}
MailingReturns_OnFirstError(s) ==
  /\ mailing[s].pc = "mailing"
  /\ mailing[s].pending = {} \/ RefusedBy(s) # {}
  /\ mailing' = [mailing EXCEPT ![s].pc = "done", ![s].error = RefusedBy(s)]
  /\ messenger' = [messenger EXCEPT ![mailing[s].by].stopping = TRUE]
  /\ UNCHANGED <<_butlerSender, credential, outbox>>
MailingReturns_AllAccepted(s) ==
  /\ mailing[s].pc = "mailing"
  /\ mailing[s].pending = {} /\ RefusedBy(s) = {}
  /\ mailing' = [mailing EXCEPT ![s].pc = "done"]
  /\ messenger' = [messenger EXCEPT ![mailing[s].by].stopping = TRUE]
  /\ UNCHANGED <<_butlerSender, credential, outbox>>
MailingReturns(s) ==
  /\ mailing[s].pc = "mailing"
  /\ mailing[s].pending = {}
  /\ mailing' = [mailing EXCEPT ![s].pc = "done", ![s].error = RefusedBy(s)]
  /\ messenger' = [messenger EXCEPT ![mailing[s].by].stopping = TRUE]
  /\ UNCHANGED <<_butlerSender, credential, outbox>>

\* The timer of logger.js's stop().
Released(m) ==
  /\ messenger[m].stopping
  /\ messenger' = [messenger EXCEPT ![m] = [Unmade EXCEPT !.life = "gone"]]
  /\ UNCHANGED <<mailing, _butlerSender, credential, outbox>>

-----------------------------------------------------------------------------
MailingStep(s) ==
  TokenAnswered(s) \/ MailingReturns(s) \/ \E r \in Recipients, ok \in BOOLEAN : MailAnswered(s, r, ok)

MessengerNext ==
  \/ \E m \in Messengers : initialize(m) \/ Released(m)
  \/ \E c \in {"missing", "nouser"} \cup Users : Configure(c)
  \/ \E s \in Mailings : MailingStep(s)
  \/ \E s \in Mailings, m \in Messengers, args \in Arguments : send(s, m, args)

MessengerSpec == MessengerInit /\ [][MessengerNext]_messengerVars

\* The mail servers and the token are answered; no clean-up is counted on.
MessengerFairness == \A s \in Mailings : WF_messengerVars(MailingStep(s))

-----------------------------------------------------------------------------
CallArguments == [body : Content, from : {"none"} \cup Senders]
MessengerRecord == [life : {"none", "ready", "failed", "gone"}, content : Content,
                    from : {"none"} \cup Senders, stopping : BOOLEAN]
MailingRecord == [pc : {"idle", "token", "mailing", "done", "unsent", "rejected", "thrown"},
                  by : Messengers, args : CallArguments, pending : SUBSET Recipients,
                  answers : SUBSET [to : Recipients, ok : BOOLEAN], error : SUBSET Recipients]
MailRecord == [of : Mailings, to : Recipients, from : {"default"} \cup Users \cup Senders,
               body : Content]

MessengerTypeOK ==
  /\ messenger \in [Messengers -> MessengerRecord]
  /\ mailing \in [Mailings -> MailingRecord]
  /\ _butlerSender \in {"undefined", "null"} \cup Users
  /\ credential \in {"missing", "nouser"} \cup Users
  /\ outbox \subseteq MailRecord

\* What send() returns tells, for each recipient, what became of the mail: all
\* have been answered, and `error` names those refused and no other (lines
\* 223-236).
ResultIsComplete ==
  \A s \in Mailings : mailing[s].pc = "done" =>
    /\ {a.to : a \in mailing[s].answers} = Recipients
    /\ \A r \in Recipients : r \in mailing[s].error <=> [to |-> r, ok |-> FALSE] \in mailing[s].answers

\* Two sends of one messenger race its clean-up, which nulls the content: no
\* mail ever leaves without any (lines 209-226 with logger.js 388-410).
NoEmptyMail == \A x \in outbox : x.body # "none"

\* A mail leaves in the name its call was given.  All other mails of a process
\* that name a user of email.json name the same one, although the file is read
\* anew for each transport (lines 30-39, 167, 222): after a change of the
\* account the sender is that of the account before.
OneButler ==
  /\ \A x \in outbox : mailing[x.of].args.from \in {"none", x.from}
  /\ \A x, y \in outbox : x.from \in Users /\ y.from \in Users => x.from = y.from

\* Every send settles once the mail servers have answered.
EveryMailingSettles ==
  \A s \in Mailings : mailing[s].pc \in {"token", "mailing"} ~>
    mailing[s].pc \in {"done", "rejected"}

\* Whatever sends overlap, a mail that leaves has its content, and the sender
\* its call was given or else no second user of email.json, and what the caller
\* is told of each recipient is true (messenger.js 30-39, 207-236).
MailsAreTrue == ResultIsComplete /\ NoEmptyMail /\ OneButler
=============================================================================
