\* broker.py:38: the result of send_to_agent.
CONSTANTS
  Agents = {a1}
  Conns = {c1, c2}
  Msgs = {m1}
  Http = Http
  Nobody = Nobody
  MaxCrashes = 0
SPECIFICATION ContentionSpec
CHECK_DEADLOCK FALSE
PROPERTIES
  ReturnsTrueIfDelivered
