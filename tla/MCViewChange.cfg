\* Two members and a node that joins, or three members of which one leaves while a
\* node joins.  A member that throws or a client whose leader has gone stops: no
\* deadlock check.
SPECIFICATION FairSpec
CONSTANTS
    NoNode = NoNode
    n0 = n0
    n1 = n1
    n2 = n2
    n3 = n3
    Node = {n0, n1, n2, n3}
    Plans <- Both
INVARIANTS
    ViewsAgree
    EdgeIsReceived
    CommittedIsEchoed
PROPERTIES
    ChangesComplete
CHECK_DEADLOCK FALSE
