SPECIFICATION Spec
CONSTANTS
    Window = 3
    Widths = {1, 3}
    Drags <- MCDrags
    MaxCount = 3
    MaxPlace = 6
INVARIANT HistoryShown
INVARIANT EndInReach
