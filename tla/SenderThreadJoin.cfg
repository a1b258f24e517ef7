\* A wedge while the sender thread is about to wait.
SPECIFICATION FairSpec
CONSTANTS
    WindowSize = 1
    MaxMessages = 1
    MayWedge = TRUE
PROPERTIES
    WedgeReturns
\* The instance is bounded: nobody has to send another message.
CHECK_DEADLOCK FALSE
