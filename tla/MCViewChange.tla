------------------------------ MODULE MCViewChange ------------------------------
(***************************************************************************)
(* Instances of ViewChange for TLC.                                        *)
(***************************************************************************)
EXTENDS ViewChange

CONSTANTS n0, n1, n2, n3

\* A group of two takes in n2, which may leave; the others may crash.
Growing ==
    [members |-> <<n0, n1>>, join |-> {n2}, leave |-> {n2}, crash |-> {n0, n1},
     messages |-> 1]

\* The majority survives that n1 leaves while n3 joins.
Changing ==
    [members |-> <<n0, n1, n2>>, join |-> {n3}, leave |-> {n1}, crash |-> {},
     messages |-> 0]

Both == {Growing, Changing}

LeaderCrash ==
    {[members |-> <<n0, n1, n2>>, join |-> {n3}, leave |-> {}, crash |-> {n0},
      messages |-> 0]}

\* n1 and then n2 leave, both at the same rank.
SameRank ==
    {[members |-> <<n0, n1, n2>>, join |-> {}, leave |-> {n1, n2}, crash |-> {},
      messages |-> 0]}

=============================================================================
