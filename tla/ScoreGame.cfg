SPECIFICATION Spec
CONSTANTS
  WinScore  = 2
  MaxEvents = 5
  MaxQueue  = 1
  Slack     = 3
INVARIANTS
  TypeOK
  FactorMatchesHistory
  UndoRestores
PROPERTIES
  ScoringCaps
  ScoreFollowsHistory
  ClosedGameIsSealed
