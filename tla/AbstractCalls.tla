----------------------------- MODULE AbstractCalls -----------------------------
(***************************************************************************)
(* What a remote call promises to the one who makes it, whichever way the  *)
(* call and its answers travel and whatever happens to the group           *)
(* meanwhile: a member executes a call at most once, an answer comes only  *)
(* from a member that has executed the call, a member is reported as       *)
(* removed only when it has been, and what is answered stays so.           *)
(* RemoteCalls implements it.                                              *)
(***************************************************************************)
EXTENDS Naturals

CONSTANTS
    Call,  \* the calls
    Node   \* the nodes

VARIABLES
    executions,  \* [Call -> [Node -> Nat]]: how often a node has executed a call
    outcomes,    \* [Call -> [Node -> Outcome]]: what its caller has been told
    lost         \* [Call -> SUBSET Node]: who is not in the group of its caller

avars == <<executions, outcomes, lost>>

Outcome == {"none", "value", "exception", "removed"}

Init ==
    /\ executions = [c \in Call |-> [n \in Node |-> 0]]
    /\ outcomes = [c \in Call |-> [n \in Node |-> "none"]]
    /\ lost \in [Call -> SUBSET Node]

Execution(c, n) == executions[c][n] = 0 /\ executions'[c][n] = 1

Answer(c, n) ==
    /\ outcomes[c][n] = "none"
    /\ \/ outcomes'[c][n] \in {"value", "exception"} /\ executions'[c][n] = 1
       \/ outcomes'[c][n] = "removed" /\ n \in lost[c]

\* Several calls and nodes may be concerned by one step.
Next ==
    \A c \in Call, n \in Node :
        /\ executions'[c][n] # executions[c][n] => Execution(c, n)
        /\ outcomes'[c][n] # outcomes[c][n] => Answer(c, n)

Spec == Init /\ [][Next]_avars

=============================================================================
