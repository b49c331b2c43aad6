----------------------------- MODULE MCServices -----------------------------
EXTENDS Services

Host(files, logs, package) == [files |-> files, logs |-> logs, package |-> package]

\* One host of each kind the code tells apart: `package` is asked for only
\* where there are the file of ovh and the loggers, and the loggers only where
\* there is a gateway.
EveryHost ==
  {Host({}, FALSE, FALSE)}
    \cup {Host({"smsfactor"}, logs, FALSE) : logs \in BOOLEAN}
    \cup {Host({"ovh"}, logs, logs) : logs \in BOOLEAN}
    \cup {Host({"smsfactor", "ovh"}, TRUE, package) : package \in BOOLEAN}
    \cup {Host({"smsfactor", "ovh"}, FALSE, FALSE)}

\* A call names a sender of its own or none; both mail what the messenger holds.
OwnSenderOrNone == [body : {"none"}, from : {"none", "caller"}]
=============================================================================
