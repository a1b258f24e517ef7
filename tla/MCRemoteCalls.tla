----------------------------- MODULE MCRemoteCalls -----------------------------
(***************************************************************************)
(* Instances of RemoteCalls for TLC: a group that stays as it is, one that *)
(* a member joins, and one that loses a member.                            *)
(***************************************************************************)
EXTENDS RemoteCalls

Changes ==
    {<< <<1, 2>> >>, << <<1, 2>>, <<1, 2, 3>> >>, << <<1, 2>>, <<1>> >>}

=============================================================================
