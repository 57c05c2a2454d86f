SPECIFICATION Spec
CONSTANTS
  WinScore  = 2
  MaxEvents = 4
  MaxQueue  = 1
  Slack     = 3
PROPERTY UndoRemovesTheLast
