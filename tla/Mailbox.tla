------------------------------ MODULE Mailbox --------------------------------
(***************************************************************************)
(* The mailboxes of the nodes, as far as both versions (comm/ and comm2/)     *)
(* agree: sockets between all pairs of nodes, a thread that sends data, a     *)
(* main thread that calls Barrier and at last Stop, a receiver thread.        *)
(* CountBarrier and VersionBarrier add what the receiver counts.            *)
(*                                                                         *)
(* A zmq socket keeps the order of what one node sends to another one and     *)
(* loses nothing while both are open: one FIFO per pair.  Barrier pushes its   *)
(* messages one by one; they are one step, as a slow channel looks the same.  *)
(***************************************************************************)
EXTENDS Integers, Sequences, FiniteSets

CONSTANTS
    Nodes,
    MaxBarriers,   \* bound: calls of Barrier per node, the last by Stop
    MaxData        \* bound: data messages in all

ASSUME MailboxAssumption ==
    /\ Nodes # {} /\ IsFiniteSet(Nodes)
    /\ MaxBarriers \in Nat \ {0}
    /\ MaxData \in Nat

VARIABLES
    wire,      \* sender -> receiver -> messages under way
    pc,        \* node -> where its main thread is
    entered,   \* history: node -> calls of Barrier
    left,      \* node -> calls that returned (progress_ in comm2/)
    unsent     \* data messages that may still be sent

netVars == <<wire, pc, entered, left, unsent>>

\* version: the round of a barrier message; for data, history: how often the
\* sender had called Barrier.
Message == [flag : {"kData", "kBarrier", "kExit"}, version : 0 .. MaxBarriers]

\* "checking" is before the test of the wait's condition, "waiting" blocked in
\* barrier_cond_.wait, "joining" in receiver_thread_.join().
Places == {"running", "checking", "waiting", "joining", "stopped"}

NetInit ==
    /\ wire = [m \in Nodes |-> [n \in Nodes |-> <<>>]]
    /\ pc = [n \in Nodes |-> "running"]
    /\ entered = [n \in Nodes |-> 0]
    /\ left = [n \in Nodes |-> 0]
    /\ unsent = MaxData

-----------------------------------------------------------------------------
\* The Sender thread, or a channel, sends data; the main thread may be anywhere.
SendData(m, n) ==
    /\ unsent > 0
    /\ pc[m] \notin {"joining", "stopped"}
    /\ unsent' = unsent - 1
    /\ wire' = [wire EXCEPT ![m][n] = Append(@, [flag |-> "kData", version |-> entered[m]])]
    /\ UNCHANGED <<pc, entered, left>>

\* Mailbox::Barrier up to the wait.
EnterBarrier(n) ==
    /\ pc[n] = "running"
    /\ entered[n] < MaxBarriers
    /\ entered' = [entered EXCEPT ![n] = @ + 1]
    /\ wire' = [wire EXCEPT ![n] = [m \in Nodes |->
                   Append(@[m], [flag |-> "kBarrier", version |-> left[n]])]]
    /\ pc' = [pc EXCEPT ![n] = "checking"]
    /\ UNCHANGED <<left, unsent>>

\* The wait returns, as its condition complete holds, or blocks.
LeaveBarrier(n, complete) ==
    /\ pc[n] = "checking" /\ complete
    /\ left' = [left EXCEPT ![n] = @ + 1]
    /\ pc' = [pc EXCEPT ![n] = "running"]
    /\ UNCHANGED <<wire, entered, unsent>>

Block(n, complete) ==
    /\ pc[n] = "checking" /\ ~complete
    /\ pc' = [pc EXCEPT ![n] = "waiting"]
    /\ UNCHANGED <<wire, entered, left, unsent>>

\* condition_variable::wait may return for no reason.
SpuriousWakeup(n) ==
    /\ pc[n] = "waiting"
    /\ pc' = [pc EXCEPT ![n] = "checking"]
    /\ UNCHANGED <<wire, entered, left, unsent>>

\* StopReceiving, after its Barrier: tell the own receiver thread to exit.
SendExitTooSoon(n) ==  \* mutant of SendExit: without the Barrier
    /\ pc[n] = "running"
    /\ left[n] = MaxBarriers - 1
    /\ wire' = [wire EXCEPT ![n][n] = Append(@, [flag |-> "kExit", version |-> 0])]
    /\ pc' = [pc EXCEPT ![n] = "joining"]
    /\ UNCHANGED <<entered, left, unsent>>
SendExit(n) ==
    /\ pc[n] = "running"
    /\ left[n] = MaxBarriers
    /\ wire' = [wire EXCEPT ![n][n] = Append(@, [flag |-> "kExit", version |-> 0])]
    /\ pc' = [pc EXCEPT ![n] = "joining"]
    /\ UNCHANGED <<entered, left, unsent>>

-----------------------------------------------------------------------------
\* The receiver thread of n takes the next message of m (Mailbox::Recv).
Received(m, n, flag) ==
    /\ pc[n] # "stopped"
    /\ wire[m][n] # <<>>
    /\ Head(wire[m][n]).flag = flag
    /\ wire' = [wire EXCEPT ![m][n] = Tail(@)]

\* Data goes to the queue of its receiver.
ReceiveData(m, n) ==
    /\ Received(m, n, "kData")
    /\ UNCHANGED <<pc, entered, left, unsent>>

\* kExit ends the loop, and the join of the main thread.
ReceiveExit(m, n) ==
    /\ Received(m, n, "kExit")
    /\ pc' = [pc EXCEPT ![n] = "stopped"]
    /\ UNCHANGED <<entered, left, unsent>>

\* barrier_cond_.notify_one(), if the main thread is blocked.
Notify(n, really) ==
    pc' = [pc EXCEPT ![n] = IF really /\ @ = "waiting" THEN "checking" ELSE @]

-----------------------------------------------------------------------------
NetTypeOK ==
    /\ wire \in [Nodes -> [Nodes -> Seq(Message)]]
    /\ pc \in [Nodes -> Places]
    /\ entered \in [Nodes -> 0 .. MaxBarriers]
    /\ left \in [Nodes -> 0 .. MaxBarriers]
    /\ unsent \in 0 .. MaxData

Stopped == \A n \in Nodes : pc[n] = "stopped"

\* When a receiver thread exits, all that was sent to it before the senders'
\* last Barrier has been received (Mailbox::StopReceiving): the barriers of
\* comm/ before may have counted messages of a later round for late ones, the
\* last one cannot.
StopLosesNothing ==
    \A m, n \in Nodes : pc[n] = "stopped" =>
        \A i \in 1 .. Len(wire[m][n]) : wire[m][n][i].version = MaxBarriers

Round == INSTANCE Rendezvous

\* The k-th Barrier of a node returns after every node's k-th call, although a
\* fast node's next message may be counted in place of a slow node's (comm/).
IsBarrier == Round!Spec
=============================================================================
