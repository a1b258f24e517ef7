\* Two messages in the window, four in all, with and without persistence; a
\* wedge at any time.
SPECIFICATION FairSpec
CONSTANTS
    WindowSize = 2
    MaxMessages = 4
    MayWedge = TRUE
INVARIANTS
    PipelineBounded
    NoLostWakeup
PROPERTIES
    QueuedIsSent
\* The instance is bounded: nobody has to send another message.
CHECK_DEADLOCK FALSE
