SPECIFICATION Behaviour
CONSTANTS
  Clients = {1, 2, 3}
  CloseMayFail = TRUE
  MaxSessions = 2
  MaxConns = 1
  MaxSent = 0
  MaxInstances = 1
  MaxRebinds = 1
  MaxVisits = 2
INVARIANTS
  NotDisconnectedScreen
  BoundHears
CHECK_DEADLOCK FALSE
