----------------------------- MODULE AtomicMulticast -----------------------------
(***************************************************************************)
(* What DerechoGroup promises to the application in one view: every        *)
(* member sees one and the same sequence of upcalls (a slow member has     *)
(* seen a prefix of it), each sender's messages come in the order in which *)
(* it sent them, and none is skipped, duplicated or invented.              *)
(***************************************************************************)
EXTENDS Naturals, Sequences, FiniteSets

CONSTANTS Member, Body

VARIABLES
    sent,         \* [Member -> Seq(Body)]: what each member has sent
    upcalls       \* [Member -> Seq(Upcall)]: what each member has been given

vars == <<sent, upcalls>>

Upcall == [sender : Member, body : Body]

TypeOK ==
    /\ sent \in [Member -> Seq(Body)]
    /\ upcalls \in [Member -> Seq(Upcall)]

Init ==
    /\ sent = [p \in Member |-> <<>>]
    /\ upcalls = [p \in Member |-> <<>>]

\* A member sends a message.
Submit(p) ==
    /\ \E b \in Body : sent' = [sent EXCEPT ![p] = Append(@, b)]
    /\ UNCHANGED upcalls

\* How many messages of q member p has been given.
Seen(p, q) == Cardinality({n \in 1 .. Len(upcalls[p]) : upcalls[p][n].sender = q})

\* The first message of q that p has not been given yet.
NextFrom(p, q) ==
    IF Seen(p, q) < Len(sent[q])
    THEN {[sender |-> q, body |-> sent[q][Seen(p, q) + 1]]}
    ELSE {}

\* A member is given the next message of some sender: the one that every
\* member that is further ahead was given at this place.
Deliver(p) ==
    \E q \in Member : \E u \in NextFrom(p, q) :
        /\ \A r \in Member :
               Len(upcalls[r]) > Len(upcalls[p]) => upcalls[r][Len(upcalls[p]) + 1] = u
        /\ upcalls' = [upcalls EXCEPT ![p] = Append(@, u)]
        /\ UNCHANGED sent

Next == \E p \in Member : Submit(p) \/ Deliver(p)

Spec == Init /\ [][Next]_vars

=============================================================================
