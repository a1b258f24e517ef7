\* Two members, two turns each, persistence; one member may skip a turn, the
\* other may be wedged; fair threads.
SPECIFICATION FairSpec
CONSTANTS
    N = 2
    WindowSize = 1
    Persistent = TRUE
    MaxIndex = 1
    MaxPause = 1
    MaySkip = {0}
    MayWedge = {1}
INVARIANTS
    TypeOK
    StableNumCorrect
    DeliveredIsReceived
    DeliveredIsKnownStable
    BuffersConserved
    PersistedPrefix
PROPERTIES
    ImplementsAtomicMulticast
    RoundsAreDelivered
    ColumnsNeverRegress
\* The instance is bounded: nobody has to send another message.
CHECK_DEADLOCK FALSE
