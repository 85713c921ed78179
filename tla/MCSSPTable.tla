----------------------------- MODULE MCSSPTable ------------------------------
(* Two workers, and two servers that own one key each.                     *)
EXTENDS SSPTable, TLC
CONSTANTS w1, w2, s1, s2, k1, k2
MCOwner == (k1 :> s1) @@ (k2 :> s2)
\* A Get of everything, and one that leaves a server out.
MCGetKeys == {{k1, k2}, {k1}}
MCAddKeys == {{k1, k2}}
MCSymmetry == Permutations(Workers)
=============================================================================
