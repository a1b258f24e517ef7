\* A group of five of which one member recovers; views up to 3, restarts included.
SPECIFICATION RecoverySpec
CONSTANTS
    Members = {1, 2, 3, 4, 5}
    Local = 1
    MayCrash = {3, 4}
    LastView = 2
    Views <- Shrinking
    MaxVid = 3
INVARIANTS
    SavedViewIsFound
PROPERTIES
    LatestViewIsFound
\* A member may be unable to recover, and then nothing may be left to do.
CHECK_DEADLOCK FALSE
