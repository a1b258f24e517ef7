\* Three messages and a crash; the threads may still be starting when the first
\* message or the destructor comes.
SPECIFICATION FairSpec
CONSTANTS
    MaxMessages = 3
    MaxCrashes = 1
    MayExit = TRUE
INVARIANTS
    UpcallsFollowTheFile
    RecordsLocateMessages
    TailIsCounted
PROPERTIES
    NoticedIsDone
    DestructorReturns
\* The instance is bounded, and the threads stop after the destructor.
CHECK_DEADLOCK FALSE
