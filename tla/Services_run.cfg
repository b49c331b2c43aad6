SPECIFICATION ServicesSpec
CONSTANTS
  Messages = {m1, m2}
  Environments <- EveryHost
  Requests = {r1, r2}
  MaxChunks = 2
  Nobody = Nobody
  Messengers = {"m1"}
  Mailings = {s1, s2}
  Recipients = {a1, a2}
  Arguments <- OwnSenderOrNone
  Users = {"u1", "u2"}
  Senders = {"caller", "messenger"}
  Attributes = {"messenger"}
CHECK_DEADLOCK FALSE
INVARIANTS
  ServicesTypeOK
  SentIsAccepted
  HashIsOfBody CrashesAreLocal
  MailsAreTrue
PROPERTIES
  InTimeIsFinal EveryMessageSettles
  EveryRequestSettles FileCompletes
  EveryMailingSettles
