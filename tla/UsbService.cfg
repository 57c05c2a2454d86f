SPECIFICATION Spec
CONSTANTS
  Clients = {a}
  MaxSessions = 2
  MaxConns = 2
  MaxSent = 1
  MaxInstances = 2
  MaxRebinds = 1
INVARIANTS
  TypeOK
  ConnectedIsOpen
  OwnDescriptor
PROPERTIES
  ImplementsLossyLink
  DisconnectNoticed
  ThreadsEnd
  PlugServed
CHECK_DEADLOCK FALSE
