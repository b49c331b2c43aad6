----------------------------- MODULE CallLedger -----------------------------
(***************************************************************************)
(* What a stub promises to a program that awaits its calls one by one,     *)
(* with no mention of connections, transactions or replies.  The program   *)
(* sees a report per call, the database a set of saved calls, and the two  *)
(* meet in one rule: a call reported as failed was not saved and never     *)
(* will be, even though saving may come long after the report.             *)
(***************************************************************************)
CONSTANT Calls

VARIABLES report, saved

ledger == <<report, saved>>

Init ==
  /\ report = [c \in Calls |-> "none"]
  /\ saved = {}

MayBeSaved == {c \in Calls : report[c] \in {"open", "done"}}

\* One call at a time is open.
Open(c) ==
  /\ \A d \in Calls : report[d] # "open"
  /\ report[c] = "none"
  /\ report' = [report EXCEPT ![c] = "open"]
  /\ UNCHANGED saved

Done(c) ==
  /\ report[c] = "open"
  /\ report' = [report EXCEPT ![c] = "done"]
  /\ UNCHANGED saved

Fail(c) ==
  /\ report[c] = "open"
  /\ c \notin saved
  /\ report' = [report EXCEPT ![c] = "failed"]
  /\ UNCHANGED saved

\* The writes of a transaction are saved together.
Save(S) ==
  /\ S # {}
  /\ S \subseteq MayBeSaved \ saved
  /\ saved' = saved \cup S
  /\ UNCHANGED report

Next ==
  \/ \E c \in Calls : Open(c) \/ Done(c) \/ Fail(c)
  \/ \E S \in SUBSET Calls : Save(S)

Spec == Init /\ [][Next]_ledger
=============================================================================
