--------------------------- MODULE MCGroupTransition ---------------------------
(***************************************************************************)
(* Instances of GroupTransition for TLC: the member of rank 1 when another *)
(* one joins and leaves again, or when the member of rank 0 is removed.    *)
(***************************************************************************)
EXTENDS GroupTransition

OneChange ==
    {<< <<"a", "me">>, <<"a", "me", "b">> >>, << <<"a", "me">>, <<"me">> >>}

TwoChanges ==
    {<< <<"a", "me">>, <<"a", "me", "b">>, <<"me", "b">> >>,
     << <<"a", "me">>, <<"me">>, <<"me", "b">> >>}

=============================================================================
