-------------------------- MODULE MCSparseSSPTable ---------------------------
(* Values for the constants of SparseSSPTable. *)
EXTENDS SparseSSPTable, TLC
CONSTANTS w1, w2, w3, s1, s2
Two == (1 :> s1) @@ (2 :> s1) @@ (3 :> s2)
One == [k \in Keys |-> s1]

\* Keys that meet in some iterations and not in others, for as long as the ring goes
\* round; Gets that leave a server out every other time; a Get that has to wait for two
\* workers, one after the other.
LongTask == [staleness |-> 0, speculation |-> 1, owner |-> Two, keys |->
    (w1 :> <<{1, 3}, {2, 3}, {1, 3}, {2, 3}, {2, 3}, {1, 3}>>) @@
    (w2 :> <<{1, 3}, {2, 3}, {2, 3}, {1, 3}, {1, 3}, {2, 3}>>)]
PartialTask == [staleness |-> 0, speculation |-> 1, owner |-> Two, keys |->
    (w1 :> <<{1}, {1, 3}, {2}, {1, 3}, {1}, {2, 3}>>) @@
    (w2 :> <<{2, 3}, {2}, {2, 3}, {2}, {1, 3}, {1}>>)]
WideTask == [staleness |-> 0, speculation |-> 1, owner |-> One, keys |->
    (w1 :> <<{1}, {2, 3}, {1}, {1}>>) @@ (w2 :> <<{2}, {1}, {2}, {2}>>) @@ (w3 :> <<{3}, {1}, {1, 2}, {2}>>)]
StaleTask == [staleness |-> 1, speculation |-> 1, owner |-> Two, keys |->
    (w1 :> <<{1, 3}, {2}, {1, 3}, {2, 3}, {1, 3}>>) @@
    (w2 :> <<{1, 3}, {1, 3}, {2, 3}, {1}, {1, 3}>>)]
AheadTask == [staleness |-> 0, speculation |-> 2, owner |-> One, keys |->
    (w1 :> <<{1}, {2}, {1}, {3}, {2}, {1}, {2}>>) @@
    (w2 :> <<{1}, {3}, {2}, {1}, {3}, {2}, {2}>>)]
MCTasks == {LongTask, PartialTask, WideTask, StaleTask, AheadTask}
EarlyTasks == {[WideTask EXCEPT !.keys = [w \in {w1, w2} |-> WideTask.keys[w]]]}

\* No CHECK of the sparse model and of its recorders fails (SparseSSPTable).
SparseSound == TypeOK /\ NoCheckFails
=============================================================================
