\* Two members, three turns each, both may skip turns; no persistence.
SPECIFICATION EdgeSpec
CONSTANTS
    N = 2
    WindowSize = 1
    Persistent = FALSE
    MaxIndex = 2
    MaxPause = 1
    MaySkip = {0, 1}
    MayWedge = {0, 1}
INVARIANTS
    SeqNumCorrect
    NumberingAgrees
    BufferAvailable
    DeliveredSurvives
    AcceptedIsDelivered
    CountsAreFinal
\* The group stops when the view ends.
CHECK_DEADLOCK FALSE
