SPECIFICATION Spec
CONSTANTS
  MaxPlugs = 2
  Buses <- OneBus
  MaxCommands = 2
  MaxGoals = 2
  CharRange = 2
INVARIANTS
  TypeOK
  EveryPressCounts
  OneHandle
  ScoreRespIsScore
PROPERTIES
  GoalsReachThePhoneOnce
  PhoneIsFound
  GoneIsNoticed
CHECK_DEADLOCK FALSE
