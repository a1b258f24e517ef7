\* Two calls by two members; the handler of the second one throws.
SPECIFICATION FairSpec
CONSTANTS
    Plans <- Changes
    Callers = {1, 2}
    Targets = {{}, {2}}
    Throwing = {2}
    MaxCalls = 2
INVARIANTS
    FrontIsDelivered
    PromiseSetOnce
    RemovedAreAnswered
    ObjectsAgree
PROPERTIES
    ImplementsCalls
    CallsComplete
\* The instance is bounded: nobody has to make another call.
CHECK_DEADLOCK FALSE
