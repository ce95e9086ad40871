\* Two overlapping requests from states at rest, a room for one, a crash.
CONSTANTS
  a1 = a1
  a2 = a2
  a3 = a3
  Agents <- MCAgents
  Pairs <- MCPairs
  Requests = {r1, r2}
  Nobody = Nobody
  MaxMembers = 1
  MaxPairs = 2
  MaxCrashes = 1
SPECIFICATION MCSpec
SYMMETRY RequestSymmetry
CHECK_DEADLOCK FALSE
INVARIANTS
  TypeOK
  RoomNearLimit
  AdmittedWasPermitted
  RestIsDurable
  CreatedOnce
