SPECIFICATION Behaviour
CONSTANTS
  Clients = {1, 2, 3}
  CloseMayFail = FALSE
  MaxSessions = 2
  MaxConns = 2
  MaxSent = 0
  MaxInstances = 1
  MaxRebinds = 1
  MaxVisits = 1
INVARIANT NotDetectedIsTrue
CHECK_DEADLOCK FALSE
