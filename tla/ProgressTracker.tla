--------------------------- MODULE ProgressTracker ---------------------------
(***************************************************************************)
(* The clock bookkeeping of one model on one server                        *)
(* (server/progress_tracker.cpp): how far every worker thread has clocked  *)
(* and a cached minimum, as operators on a record                          *)
(*    [progresses |-> thread -> clock, min_clock |-> clock].               *)
(***************************************************************************)
EXTENDS Integers

\* The tracker that kResetWorkerInModel leaves: every thread at clock 0.
TrackerInit(tids) == [progresses |-> [t \in tids |-> 0], min_clock |-> 0]

IsMin(pt, t) == pt.progresses[t] = pt.min_clock  \* mutant of IsUniqueMin
IsUniqueMin(pt, t) ==
    /\ pt.progresses[t] = pt.min_clock
    /\ \A u \in DOMAIN pt.progresses : u # t => pt.progresses[u] # pt.min_clock

\* AdvanceAndGetChangedMinClock is split in its effect and its result: the
\* tracker after the call, and the new minimum or -1.
AdvanceWithoutTest(pt, t) ==  \* mutant of Advance
    [progresses |-> [pt.progresses EXCEPT ![t] = @ + 1], min_clock |-> pt.min_clock + 1]
Advance(pt, t) ==
    [progresses |-> [pt.progresses EXCEPT ![t] = @ + 1],
     min_clock  |-> IF IsUniqueMin(pt, t) THEN pt.min_clock + 1 ELSE pt.min_clock]

ChangedMinClock(pt, t) == IF IsUniqueMin(pt, t) THEN pt.min_clock + 1 ELSE -1

\* The cached min_clock is the minimum of the progresses: it is reached, and
\* nobody is behind it.
MinimumCached(pt) ==
    /\ \E t \in DOMAIN pt.progresses : pt.progresses[t] = pt.min_clock
    /\ \A t \in DOMAIN pt.progresses : pt.progresses[t] >= pt.min_clock
=============================================================================
