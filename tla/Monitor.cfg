\* Three sockets one after the other, two messages, two calls of stop.
CONSTANTS
  Sends = {s1, s2}
  Callers = {c1, c2}
  None = None
  MaxSockets = 3
SPECIFICATION FairSpec
CHECK_DEADLOCK FALSE
INVARIANTS
  TypeOK
  AckMatchesSend
  NeverSentTwice
  OneSocket
  StoppedIsClosed
PROPERTIES
  SendsSettle
  StopUsuallyReturns
