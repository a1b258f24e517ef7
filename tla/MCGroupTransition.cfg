\* The member of rank 1 in a view of two; the other is removed, or a third joins.
SPECIFICATION FairSpec
CONSTANTS
    Me = "me"
    Plans <- OneChange
    WindowSize = 2
    MaxMessages = 3
    MaxOther = 1
    MaxPause = 1
INVARIANTS
    NothingLostOrRepeated
    NumberingContinues
    BuffersConserved
    AssertionsHold
PROPERTIES
    QueuedIsSent
\* The instance is bounded: nobody has to send another message.
CHECK_DEADLOCK FALSE
