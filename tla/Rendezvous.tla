----------------------------- MODULE Rendezvous ------------------------------
(***************************************************************************)
(* What Mailbox::Barrier promises: the k-th call of a node returns only       *)
(* after every node has made its k-th call.                                 *)
(***************************************************************************)
EXTENDS Integers

CONSTANT Nodes

VARIABLES
    entered,   \* node -> how often it has called Barrier
    left       \* node -> how many of the calls have returned

vars == <<entered, left>>

Init == entered = [n \in Nodes |-> 0] /\ left = [n \in Nodes |-> 0]

Enter(n) ==
    /\ entered[n] = left[n]
    /\ entered' = [entered EXCEPT ![n] = @ + 1]
    /\ UNCHANGED left

Leave(n) ==
    /\ left[n] < entered[n]
    /\ \A m \in Nodes : left[n] < entered[m]
    /\ left' = [left EXCEPT ![n] = @ + 1]
    /\ UNCHANGED entered

Next == \E n \in Nodes : Enter(n) \/ Leave(n)

Spec == Init /\ [][Next]_vars
=============================================================================
