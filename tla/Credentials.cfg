\* Two processes, two names, three registrations, four starts of a process.
CONSTANTS
  Processes = {p, q}
  Names = {m, n}
  MaxTokens = 3
  MaxStarts = 4
SYMMETRY ProcessNameSymmetry
SPECIFICATION Spec
CHECK_DEADLOCK FALSE
INVARIANTS
  TypeOK
PROPERTIES
  ActsAsStore
