------------------------------ MODULE MCRaggedEdge ------------------------------
(***************************************************************************)
(* Instances of RaggedEdge for TLC (the .cfg files give the constants),    *)
(* and a comment of the code that the model contradicts.                   *)
(***************************************************************************)
EXTENDS RaggedEdge

\* derecho_row.h:70: globalMin is the "Array of how many messages to accept
\* from each sender": a member that has done its cleanup has delivered no
\* message beyond it.
NoMoreThanAccepted ==
    \A i \in cleaned : \A u \in GivenBy(i) : u.index <= globalMin[i][u.sender_rank]

=============================================================================
