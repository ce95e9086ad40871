\* Three Connection objects, four sockets, three tasks, five calls, three faults.
CONSTANTS
  MaxConnections = 3
  MaxSockets = 4
  MaxTasks = 3
  MaxCalls = 5
  MaxFaults = 3
SPECIFICATION LiveSpec
CHECK_DEADLOCK FALSE
INVARIANTS
  TypeOK
  NothingLeftBehind
PROPERTIES
  StopReturns
  ListenerComesBack
