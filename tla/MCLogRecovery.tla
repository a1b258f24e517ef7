------------------------------ MODULE MCLogRecovery ------------------------------
\* A small instance of LogRecovery.
EXTENDS LogRecovery, TLC

\* Three failures in a group of five, one after the other leaves the view.
Shrinking == 0 :> {1, 2, 3, 4, 5} @@ 1 :> {1, 2, 3, 4} @@ 2 :> {2, 3, 4}
=============================================================================
