--------------------------- MODULE VersionBarrier ----------------------------
(***************************************************************************)
(* The mailbox of comm2/: a barrier message carries the round it belongs to,  *)
(* and the receiver counts this round and the next one apart.  LocalChannel   *)
(* relies on it to find all data in its queue after a Barrier.              *)
(***************************************************************************)
EXTENDS Mailbox

VARIABLES
    this_count,   \* node -> this_count_: messages of the round it is in
    next_count,   \* node -> next_count_: messages of the next round
    aborted       \* did a CHECK of Mailbox::Receiving fail?

counts == <<this_count, next_count>>
vars == <<netVars, counts, aborted>>

NumNodes == Cardinality(Nodes)

Init ==
    /\ NetInit
    /\ this_count = [n \in Nodes |-> 0]
    /\ next_count = [n \in Nodes |-> 0]
    /\ aborted = FALSE

ThisRound(n, version) == version = left[n]

\* Mailbox::Receiving, kBarrier: rounds before or after these two abort, and so
\* does a next round in which even this node has called Barrier.
ReceiveBarrier(m, n) ==
    /\ Received(m, n, "kBarrier")
    /\ LET version == Head(wire[m][n]).version
           this    == ThisRound(n, version)
           next    == version = left[n] + 1
       IN  /\ this_count' = [this_count EXCEPT ![n] = IF this THEN @ + 1 ELSE @]
           /\ next_count' = [next_count EXCEPT ![n] = IF next THEN @ + 1 ELSE @]
           /\ Notify(n, this /\ this_count[n] + 1 = NumNodes)
           /\ aborted' = \/ ~this /\ ~next
                         \/ next /\ next_count[n] + 1 >= NumNodes
    /\ UNCHANGED <<entered, left, unsent>>

\* Mailbox::Barrier from the wait on.
Complete(n) == this_count[n] = NumNodes

ReturnKeepsNext(n) ==  \* mutant of Return
    /\ LeaveBarrier(n, Complete(n))
    /\ this_count' = [this_count EXCEPT ![n] = next_count[n]]
    /\ UNCHANGED <<next_count, aborted>>
Return(n) ==
    /\ LeaveBarrier(n, Complete(n))
    /\ this_count' = [this_count EXCEPT ![n] = next_count[n]]
    /\ next_count' = [next_count EXCEPT ![n] = 0]
    /\ UNCHANGED aborted

Main(n) ==
    \/ EnterBarrier(n) /\ UNCHANGED <<counts, aborted>>
    \/ Block(n, Complete(n)) /\ UNCHANGED <<counts, aborted>>
    \/ Return(n)
    \/ SendExit(n) /\ UNCHANGED <<counts, aborted>>

Receiver(m, n) ==
    \/ ReceiveData(m, n) /\ UNCHANGED <<counts, aborted>>
    \/ ReceiveBarrier(m, n)
    \/ ReceiveExit(m, n) /\ UNCHANGED <<counts, aborted>>

Done == Stopped /\ UNCHANGED vars

Next ==
    \/ \E n \in Nodes : ~aborted /\ Main(n)
    \/ \E n \in Nodes : ~aborted /\ SpuriousWakeup(n) /\ UNCHANGED <<counts, aborted>>
    \/ \E m, n \in Nodes : ~aborted /\ SendData(m, n) /\ UNCHANGED <<counts, aborted>>
    \/ \E m, n \in Nodes : ~aborted /\ Receiver(m, n)
    \/ Done

Spec == Init /\ [][Next]_vars

-----------------------------------------------------------------------------
TypeOK ==
    /\ NetTypeOK
    /\ this_count \in [Nodes -> 0 .. NumNodes]
    /\ next_count \in [Nodes -> 0 .. NumNodes]
    /\ aborted \in BOOLEAN

\* The CHECKs of Mailbox::Receiving: a barrier message is of the round its
\* receiver is in or of the next one, and of the next one the receiver's own is
\* always missing.
NoCheckFails == ~aborted

\* "We assume all the incoming data are already in the queue"
\* (LocalChannel::SyncAndGet): when Barrier has returned k times, nothing that
\* any node sent before its k-th call is still on its way.
BarrierFlushes ==
    \A m, n \in Nodes : \A i \in 1 .. Len(wire[m][n]) :
        wire[m][n][i].flag = "kData" => wire[m][n][i].version >= left[n]

\* Nobody sleeps on a barrier that is complete, also when messages of the round
\* were counted, as the next one's, before it began.
NoLostWakeup == \A n \in Nodes : pc[n] = "waiting" => ~Complete(n)
=============================================================================
