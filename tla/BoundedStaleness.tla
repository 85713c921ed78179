--------------------------- MODULE BoundedStaleness --------------------------
(***************************************************************************)
(* What a stale-synchronous-parallel table promises its users, without     *)
(* servers, clocks of servers, buffers or messages: workers that iterate,   *)
(* call Add and Clock, wait for who is too slow, and get answers that may   *)
(* be old, but not too old.                                                *)
(* A Get is not atomic: every Add it may see has been called when it         *)
(* returns, and nothing relates the answers for different keys but the      *)
(* staleness bound.                                                        *)
(***************************************************************************)
EXTENDS Integers

CONSTANTS Workers, Keys, MaxClock, Staleness

VARIABLES
    clock,      \* worker -> iterations completed
    issued,     \* all Adds called so far
    want,       \* worker -> keys asked for in this iteration
    waiting,    \* worker -> is its Get unanswered?
    vals        \* worker -> the answer, as the set of Adds it contains

vars == <<clock, issued, want, waiting, vals>>

Increment == [worker : Workers, iter : 0 .. MaxClock, key : Keys]

Init ==
    /\ clock = [w \in Workers |-> 0]
    /\ issued = {}
    /\ want = [w \in Workers |-> {}]
    /\ waiting = [w \in Workers |-> FALSE]
    /\ vals = [w \in Workers |-> {}]

AddTo(w, K) ==
    /\ ~waiting[w]
    /\ issued' = issued \cup {[worker |-> w, iter |-> clock[w], key |-> k] : k \in K}
    /\ UNCHANGED <<clock, want, waiting, vals>>

Add(w) == \E K \in SUBSET Keys : AddTo(w, K)

Clock(w) ==
    /\ ~waiting[w]
    /\ clock' = [clock EXCEPT ![w] = @ + 1]
    /\ want' = [want EXCEPT ![w] = {}]
    /\ vals' = [vals EXCEPT ![w] = {}]
    /\ UNCHANGED <<issued, waiting>>

AskFor(w, K) ==
    /\ ~waiting[w]
    /\ want[w] = {}
    /\ want' = [want EXCEPT ![w] = K]
    /\ waiting' = [waiting EXCEPT ![w] = TRUE]
    /\ UNCHANGED <<clock, issued, vals>>

Ask(w) == \E K \in (SUBSET Keys) \ {{}} : AskFor(w, K)

\* The Adds that may be part of w's answer, and those that must be: its own,
\* and everybody's that are older than the staleness window.
Visible(w) == {a \in issued : a.key \in want[w]}
Owed(w) == {a \in Visible(w) : a.worker = w \/ a.iter + Staleness < clock[w]}

\* Nobody is too far behind w.
InWindow(w) == \A v \in Workers : clock[w] <= clock[v] + Staleness

\* A Get blocks until its worker is inside the staleness window.
Answer(w) ==
    /\ waiting[w]
    /\ InWindow(w)
    /\ waiting' = [waiting EXCEPT ![w] = FALSE]
    /\ \E early \in SUBSET (Visible(w) \ Owed(w)) :
          vals' = [vals EXCEPT ![w] = Owed(w) \cup early]
    /\ UNCHANGED <<clock, issued, want>>

Next == \E w \in Workers : Add(w) \/ Clock(w) \/ Ask(w) \/ Answer(w)

Spec == Init /\ [][Next]_vars
=============================================================================
