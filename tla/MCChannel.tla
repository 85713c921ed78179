----------------------------- MODULE MCChannel -------------------------------
(* Two nodes, one of them with two threads.                                *)
EXTENDS Channel, TLC
CONSTANTS n1, n2, t1, t2, t3
MCNodeOf == (t1 :> n1) @@ (t2 :> n1) @@ (t3 :> n2)
=============================================================================
