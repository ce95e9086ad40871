\* agent.py:194: an ask whose reply has come returns it.
CONSTANTS
  Asks = {q1, q2}
  None = None
  MaxTokens = 3
  MaxExpired = 1
  MaxEarly = 1
SPECIFICATION Spec
CHECK_DEADLOCK FALSE
INVARIANT AskReturnsReply
