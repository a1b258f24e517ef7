\* Three members, a fourth node that joins, and a leader that may crash.
SPECIFICATION Spec
CONSTANTS
    NoNode = NoNode
    n0 = n0
    n1 = n1
    n2 = n2
    n3 = n3
    Node = {n0, n1, n2, n3}
    Plans <- LeaderCrash
INVARIANTS
    ViewsAgree
CHECK_DEADLOCK FALSE
