\* Liveness of sessions and handlers, with one restart of the broker.
CONSTANTS
  Agents = {a1}
  Conns = {c1, c2}
  Msgs = {m1}
  Http = Http
  Nobody = Nobody
  MaxCrashes = 1
SPECIFICATION LiveSpec
CHECK_DEADLOCK FALSE
PROPERTIES
  HandlersFinish
  ReconnectDrains
  FlushHandsOver
