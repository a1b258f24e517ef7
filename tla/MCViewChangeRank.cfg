\* Three members; n1 and then n2 leave, both at the same rank.  Members that left stop:
\* no deadlock check.
SPECIFICATION Spec
CONSTANTS
    NoNode = NoNode
    n0 = n0
    n1 = n1
    n2 = n2
    n3 = n3
    Node = {n0, n1, n2}
    Plans <- SameRank
INVARIANTS
    SuspicionIsNoticed
CHECK_DEADLOCK FALSE
