SPECIFICATION Spec
CONSTANTS
  MaxPlugs = 3
  MaxGlitches = 2
INVARIANTS
  TypeOK
  EndpointsKnown
  ConnectedIsThePhone
PROPERTIES
  GoneIsNoticed
  PhoneIsServed
CHECK_DEADLOCK FALSE
