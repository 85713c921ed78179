---------------------------- MODULE BulkSynchrony ----------------------------
(***************************************************************************)
(* What a bulk-synchronous table promises its users: iterations as if all    *)
(* workers met between them.  A Get in iteration c returns, in one instant,   *)
(* the Adds of all workers of the iterations before c, and no other; so it    *)
(* waits until everybody has come to c.                                     *)
(***************************************************************************)
EXTENDS Integers

CONSTANTS Workers, Keys

VARIABLES
    clock,      \* worker -> iterations completed
    issued,     \* all Adds called so far
    want,       \* worker -> keys asked for in this iteration
    waiting,    \* worker -> is its Get unanswered?
    vals        \* worker -> the answer, as the set of Adds it contains

vars == <<clock, issued, want, waiting, vals>>

Init ==
    /\ clock = [w \in Workers |-> 0]
    /\ issued = {}
    /\ want = [w \in Workers |-> {}]
    /\ waiting = [w \in Workers |-> FALSE]
    /\ vals = [w \in Workers |-> {}]

Ask(w) ==
    /\ ~waiting[w]
    /\ want[w] = {}
    /\ \E K \in SUBSET Keys : want' = [want EXCEPT ![w] = K]
    /\ waiting' = [waiting EXCEPT ![w] = TRUE]
    /\ UNCHANGED <<clock, issued, vals>>

EverybodyCameTo(c) == \A v \in Workers : clock[v] >= c

Answer(w) ==
    /\ waiting[w]
    /\ EverybodyCameTo(clock[w])
    /\ waiting' = [waiting EXCEPT ![w] = FALSE]
    /\ vals' = [vals EXCEPT ![w] =
                    {a \in issued : a.key \in want[w] /\ a.iter < clock[w]}]
    /\ UNCHANGED <<clock, issued, want>>

Add(w) ==
    /\ ~waiting[w]
    /\ \E K \in SUBSET Keys :
          issued' = issued \cup {[worker |-> w, iter |-> clock[w], key |-> k] : k \in K}
    /\ UNCHANGED <<clock, want, waiting, vals>>

\* An iteration ends after its Get: nobody is two iterations ahead.
Clock(w) ==
    /\ ~waiting[w]
    /\ EverybodyCameTo(clock[w])
    /\ clock' = [clock EXCEPT ![w] = @ + 1]
    /\ want' = [want EXCEPT ![w] = {}]
    /\ vals' = [vals EXCEPT ![w] = {}]
    /\ UNCHANGED <<issued, waiting>>

Next == \E w \in Workers : Ask(w) \/ Answer(w) \/ Add(w) \/ Clock(w)

Spec == Init /\ [][Next]_vars
=============================================================================
