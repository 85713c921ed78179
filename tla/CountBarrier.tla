---------------------------- MODULE CountBarrier -----------------------------
(***************************************************************************)
(* The mailbox of comm/: a barrier message carries no round, the receiver     *)
(* counts whatever arrives, a call of Barrier takes one message per node      *)
(* off the count.                                                          *)
(***************************************************************************)
EXTENDS Mailbox

VARIABLE barrier_count   \* node -> barrier_count_

vars == <<netVars, barrier_count>>

NumNodes == Cardinality(Nodes)

Init == NetInit /\ barrier_count = [n \in Nodes |-> 0]

\* Mailbox::Receiving, kBarrier
Unblocks(count) == count = NumNodes

ReceiveBarrier(m, n) ==
    /\ Received(m, n, "kBarrier")
    /\ barrier_count' = [barrier_count EXCEPT ![n] = @ + 1]
    /\ Notify(n, Unblocks(barrier_count[n] + 1))
    /\ UNCHANGED <<entered, left, unsent>>

\* Mailbox::Barrier from the wait on.
CompleteButOne(n) == barrier_count[n] >= NumNodes - 1  \* mutant of Complete
Complete(n) == barrier_count[n] >= NumNodes

Return(n) ==
    /\ LeaveBarrier(n, Complete(n))
    /\ barrier_count' = [barrier_count EXCEPT ![n] = @ - NumNodes]

Main(n) ==
    \/ EnterBarrier(n) /\ UNCHANGED barrier_count
    \/ Block(n, Complete(n)) /\ UNCHANGED barrier_count
    \/ Return(n)
    \/ SendExit(n) /\ UNCHANGED barrier_count

Receiver(m, n) ==
    \/ ReceiveData(m, n) /\ UNCHANGED barrier_count
    \/ ReceiveBarrier(m, n)
    \/ ReceiveExit(m, n) /\ UNCHANGED barrier_count

Done == Stopped /\ UNCHANGED vars

Next ==
    \/ \E n \in Nodes : Main(n)
    \/ \E n \in Nodes : SpuriousWakeup(n) /\ UNCHANGED barrier_count
    \/ \E m, n \in Nodes : SendData(m, n) /\ UNCHANGED barrier_count
    \/ \E m, n \in Nodes : Receiver(m, n)
    \/ Done

Spec == Init /\ [][Next]_vars

-----------------------------------------------------------------------------
TypeOK == NetTypeOK /\ barrier_count \in [Nodes -> 0 .. 2 * NumNodes - 1]

\* Nobody sleeps on a barrier that is complete: the notification, given only
\* when the count is exactly the number of nodes, comes in time.
NoLostWakeup == \A n \in Nodes : pc[n] = "waiting" => ~Complete(n)
=============================================================================
