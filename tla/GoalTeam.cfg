SPECIFICATION Spec
CONSTANTS
  MaxPlugs = 1
  Buses <- OneBus
  MaxCommands = 0
  MaxGoals = 1
  CharRange = 2
INVARIANTS
  GoalNamesTheScorer
CHECK_DEADLOCK FALSE
