\* Two asks, four tokens of which two expire, room for one early reply.
CONSTANTS
  Asks = {q1, q2}
  None = None
  MaxTokens = 4
  MaxExpired = 2
  MaxEarly = 1
SPECIFICATION Spec
SYMMETRY AskSymmetry
CHECK_DEADLOCK FALSE
INVARIANTS
  TypeOK
  OneRegistrationPerToken
  ClientIsCurrent
  EarlyRepliesCount
