SPECIFICATION Spec
CONSTANTS
  WinScore  = 2
  MaxEvents = 4
  MaxQueue  = 2
  Slack     = 2
INVARIANTS
  HistoryBegins
  EndTimerMatchesScore
PROPERTIES
  ImplementsLifecycle
  LoopEnds
  GameCloses
