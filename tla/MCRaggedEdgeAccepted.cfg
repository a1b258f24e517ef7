\* Two members, one message each.
SPECIFICATION EdgeSpec
CONSTANTS
    N = 2
    WindowSize = 1
    Persistent = FALSE
    MaxIndex = 0
    MaxPause = 0
    MaySkip = {}
    MayWedge = {0, 1}
INVARIANTS
    NoMoreThanAccepted
\* The group stops when the view ends.
CHECK_DEADLOCK FALSE
