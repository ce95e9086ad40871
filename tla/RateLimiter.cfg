\* Two agents, two sends a minute of three ticks, over almost three minutes.
CONSTANTS
  Agents = {a1, a2}
  Rate = 2
  Minute = 3
  MaxClock = 8
SPECIFICATION Spec
SYMMETRY AgentSymmetry
INVARIANTS
  TypeOK
  RateBounded
  RefusalIsEarned
