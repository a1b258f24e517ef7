----------------------------- MODULE MCDerechoGroup -----------------------------
(***************************************************************************)
(* Instances of DerechoGroup for TLC; the .cfg files give the constants.   *)
(***************************************************************************)
EXTENDS DerechoGroup

=============================================================================
