\* README: at-least-once delivery, a link breaking under the flush.
CONSTANTS
  Agents = {a1}
  Conns = {c1}
  Msgs = {m1}
  Http = Http
  Nobody = Nobody
  MaxCrashes = 0
SPECIFICATION Spec
CHECK_DEADLOCK FALSE
INVARIANTS
  AtLeastOnce
