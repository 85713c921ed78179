----------------------------- MODULE MCBarriers ------------------------------
(***************************************************************************)
(* Three nodes with the mailboxes of comm/ (CountBarrier) or of comm2/          *)
(* (VersionBarrier): version tells which ones.                              *)
(***************************************************************************)
EXTENDS VersionBarrier, TLC

CONSTANTS n1, n2, n3
MCSymmetry == Permutations(Nodes)

VARIABLES barrier_count, version

Comm == INSTANCE CountBarrier

barrierVars == <<vars, barrier_count, version>>

BarriersInit ==
    /\ Init
    /\ barrier_count = [n \in Nodes |-> 0]
    /\ version \in {"comm", "comm2"}

BarriersNext ==
    \/ version = "comm" /\ Comm!Next /\ UNCHANGED <<counts, aborted, version>>
    \/ version = "comm2" /\ Next /\ UNCHANGED <<barrier_count, version>>

BarriersSpec == BarriersInit /\ [][BarriersNext]_barrierVars

-----------------------------------------------------------------------------
\* In both mailboxes nobody sleeps on a barrier that is complete; in the one of
\* comm2/ every message is of a round that can be placed (Mailbox::Receiving)
\* and a Barrier that has returned has flushed all data sent before it.
BarriersSound ==
    /\ TypeOK /\ Comm!TypeOK
    /\ IF version = "comm" THEN Comm!NoLostWakeup
       ELSE NoLostWakeup /\ NoCheckFails /\ BarrierFlushes
=============================================================================
