\* Safety of delivery: two agents, two connections, one message, one crash.
CONSTANTS
  Agents = {a1, a2}
  Conns = {c1, c2}
  Msgs = {m1}
  Http = Http
  Nobody = Nobody
  MaxCrashes = 1
SPECIFICATION Spec
SYMMETRY ConnMsgSymmetry
CHECK_DEADLOCK FALSE
INVARIANTS
  TypeOK
  Accounted
  OncePerSend
  LiveIsReachable
  NoLeakedSocket
  OnlineHasSession
PROPERTIES
  KeepsPromise
