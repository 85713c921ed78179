------------------------------- MODULE Channel -------------------------------
(***************************************************************************)
(* Channel and LocalChannel of comm2/: threads of all nodes that push to one   *)
(* another and meet in SyncAndGet.  The local threads of a node wait for one   *)
(* another with a counter and a generation; the last one calls Barrier of the  *)
(* mailbox (VersionBarrier) for its node.                                   *)
(*                                                                         *)
(* The main thread of a node makes the channel, lets the threads run their     *)
(* supersteps and joins them, stops its mailbox and destroys the channel       *)
(* (channel_example.cpp and gbdt/src/channel_util.hpp in examples2/).        *)
(***************************************************************************)
EXTENDS VersionBarrier

CONSTANTS
    Threads,       \* global threads of the channel
    NodeOf,        \* thread -> its node
    MaxSteps,      \* bound: calls of SyncAndGet per thread
    NoThread

ASSUME ChannelAssumption ==
    /\ IsFiniteSet(Threads) /\ NodeOf \in [Threads -> Nodes]
    /\ MaxSteps \in Nat
    /\ MaxBarriers = 1 + 2 * MaxSteps + 1
    /\ NoThread \notin Threads

VARIABLES
    main,           \* node -> where its main thread is
    place,          \* thread -> where it is in SyncAndGet
    wait,           \* thread -> the Wait of SyncAndGet it is in, or will be
    step,           \* thread -> calls of SyncAndGet that returned
    m_count,        \* node -> m_count_: threads the Wait still misses
    m_generation,   \* node -> m_generation_
    gen,            \* thread -> gen, the generation its Wait began in
    lock,           \* node -> who holds mu_ across its Barrier
    queue,          \* thread -> queue_
    rets,           \* thread -> what its SyncAndGet has popped
    pushed          \* history: every PushTo

waitVars == <<m_count, m_generation, gen, lock>>
threadVars == <<place, wait, step, queue, rets>>
channelVars == <<main, threadVars, waitVars, pushed>>
allVars == <<vars, channelVars>>

LocalThreads(n) == {t \in Threads : NodeOf[t] = n}
NumLocalThreads(n) == Cardinality(LocalThreads(n))

\* The queues of n's threads are in queue_map_.
Registered(n) == main[n] \notin {"outside", "destroyed"}

ChannelInit ==
    /\ Init
    /\ main = [n \in Nodes |-> "outside"]
    /\ place = [t \in Threads |-> "idle"]
    /\ wait = [t \in Threads |-> 1]
    /\ step = [t \in Threads |-> 0]
    /\ m_count = [n \in Nodes |-> NumLocalThreads(n)]
    /\ m_generation = [n \in Nodes |-> 0]
    /\ gen = [t \in Threads |-> 0]
    /\ lock = [n \in Nodes |-> NoThread]
    /\ queue = [t \in Threads |-> <<>>]
    /\ rets = [t \in Threads |-> {}]
    /\ pushed = {}

-----------------------------------------------------------------------------
\* The constructor registers the queues, then calls Barrier.
Construct(n) ==
    /\ main[n] = "outside"
    /\ EnterBarrier(n)
    /\ main' = [main EXCEPT ![n] = "constructing"]
    /\ UNCHANGED <<counts, aborted, threadVars, waitVars, pushed>>

ConstructWithoutBarrier(n) ==  \* mutant of Constructed
    /\ main[n] = "constructing"
    /\ pc[n] = "checking"
    /\ main' = [main EXCEPT ![n] = "inside"]
    /\ place' = [t \in Threads |-> IF NodeOf[t] = n THEN "running" ELSE place[t]]
    /\ UNCHANGED <<vars, wait, step, queue, rets, waitVars, pushed>>

\* Its Barrier returns; the threads start with their LocalChannels.
Constructed(n) ==
    /\ main[n] = "constructing"
    /\ Return(n)
    /\ main' = [main EXCEPT ![n] = "inside"]
    /\ place' = [t \in Threads |-> IF NodeOf[t] = n THEN "running" ELSE place[t]]
    /\ UNCHANGED <<wait, step, queue, rets, waitVars, pushed>>

\* The threads are joined; Mailbox::Stop: a Barrier, then the exit.
Stop(n) ==
    /\ \/ /\ main[n] = "inside"
          /\ \A t \in LocalThreads(n) : place[t] = "joined"
          /\ main' = [main EXCEPT ![n] = "stopping"]
          /\ EnterBarrier(n)
       \/ main[n] = "stopping" /\ SendExit(n) /\ UNCHANGED main
    /\ UNCHANGED <<counts, aborted, threadVars, waitVars, pushed>>

StopReturns(n) ==
    /\ main[n] = "stopping"
    /\ Return(n)
    /\ UNCHANGED channelVars

\* The destructor deregisters the queues, which nobody pushes to any more.
Destruct(n) ==
    /\ main[n] = "stopping"
    /\ pc[n] = "stopped"
    /\ main' = [main EXCEPT ![n] = "destroyed"]
    /\ UNCHANGED <<vars, threadVars, waitVars, pushed>>

-----------------------------------------------------------------------------
\* LocalChannel::PushTo, Channel::PushTo.  A thread pushes between two
\* SyncAndGets and not after the last one.
PushTo(t, u) ==
    /\ place[t] = "running"
    /\ step[t] < MaxSteps
    /\ unsent > 0
    /\ LET push == [to |-> u, step |-> step[t], id |-> unsent]
       IN  /\ pushed' = pushed \cup {push}
           /\ wire' = [wire EXCEPT ![NodeOf[t]][NodeOf[u]] =
                  Append(@, [flag |-> "kData", version |-> entered[NodeOf[t]], push |-> push])]
    /\ unsent' = unsent - 1
    /\ UNCHANGED <<pc, entered, left, counts, aborted, main, threadVars, waitVars>>

\* LocalChannel::SyncAndGet is called, or the thread's function ends.
SyncAndGet(t) ==
    /\ place[t] = "running"
    /\ place' = [place EXCEPT ![t] = IF step[t] < MaxSteps THEN "arriving" ELSE "joined"]
    /\ rets' = [rets EXCEPT ![t] = IF step[t] < MaxSteps THEN {} ELSE @]
    /\ UNCHANGED <<vars, main, wait, step, queue, waitVars, pushed>>

\* Channel::Wait with the lock: the last thread opens the next generation and
\* calls Barrier, which it does with the lock held; the others sleep.
Arrive(t) ==
    LET n == NodeOf[t]
    IN  /\ place[t] = "arriving"
        /\ lock[n] = NoThread
        /\ gen' = [gen EXCEPT ![t] = m_generation[n]]
        /\ IF m_count[n] = 1
           THEN /\ m_generation' = [m_generation EXCEPT ![n] = @ + 1]
                /\ m_count' = [m_count EXCEPT ![n] = NumLocalThreads(n)]
                /\ lock' = [lock EXCEPT ![n] = t]
                /\ place' = [place EXCEPT ![t] = "barrier"]
                /\ EnterBarrier(n)
           ELSE /\ m_count' = [m_count EXCEPT ![n] = @ - 1]
                /\ place' = [place EXCEPT ![t] = "asleep"]
                /\ UNCHANGED <<m_generation, lock, netVars>>
    /\ UNCHANGED <<counts, aborted, main, wait, step, queue, rets, pushed>>

\* Where t goes on after a Wait: the first is followed by the loop that empties
\* the queue, with the second SyncAndGet returns.
PassWait(t, sleepers) ==
    /\ place' = [u \in Threads |->
           IF u = t THEN IF wait[t] = 1 THEN "popping" ELSE "running"
           ELSE IF u \in sleepers THEN "woken" ELSE place[u]]
    /\ wait' = [wait EXCEPT ![t] = 3 - @]
    /\ step' = [step EXCEPT ![t] = IF wait[t] = 2 THEN @ + 1 ELSE @]

\* Barrier returns to the last thread: notify_all, unlock.
Sleepers(n) == {u \in LocalThreads(n) : place[u] = "asleep"}
SleepersNone(n) == {}  \* mutant of Woken: no notify_all
Woken(n) == Sleepers(n)

LeaveWait(t) ==
    /\ place[t] = "barrier"
    /\ Return(NodeOf[t])
    /\ PassWait(t, Woken(NodeOf[t]))
    /\ lock' = [lock EXCEPT ![NodeOf[t]] = NoThread]
    /\ UNCHANGED <<main, queue, rets, m_count, m_generation, gen, pushed>>

\* cv_.wait has returned; with the lock, the generation decides.
WakeUp(t) ==
    /\ place[t] = "woken"
    /\ lock[NodeOf[t]] = NoThread
    /\ IF gen[t] = m_generation[NodeOf[t]]
       THEN place' = [place EXCEPT ![t] = "asleep"] /\ UNCHANGED <<wait, step>>
       ELSE PassWait(t, {})
    /\ UNCHANGED <<vars, main, queue, rets, waitVars, pushed>>

SpuriousReturn(t) ==
    /\ place[t] = "asleep"
    /\ place' = [place EXCEPT ![t] = "woken"]
    /\ UNCHANGED <<vars, main, wait, step, queue, rets, waitVars, pushed>>

\* while (queue_.Size()) queue_.WaitAndPop: the receiver may push meanwhile.
Pop(t) ==
    /\ place[t] = "popping"
    /\ queue[t] # <<>>
    /\ rets' = [rets EXCEPT ![t] = @ \cup {Head(queue[t])}]
    /\ queue' = [queue EXCEPT ![t] = Tail(@)]
    /\ UNCHANGED <<vars, main, place, wait, step, waitVars, pushed>>

PoppedReturns(t) ==  \* mutant of Popped: SyncAndGet without its second Wait
    /\ place[t] = "popping"
    /\ queue[t] = <<>>
    /\ place' = [place EXCEPT ![t] = "running"]
    /\ wait' = [wait EXCEPT ![t] = 1]
    /\ step' = [step EXCEPT ![t] = @ + 1]
    /\ UNCHANGED <<vars, main, queue, rets, waitVars, pushed>>
Popped(t) ==
    /\ place[t] = "popping"
    /\ queue[t] = <<>>
    /\ place' = [place EXCEPT ![t] = "arriving"]
    /\ UNCHANGED <<vars, main, wait, step, queue, rets, waitVars, pushed>>

Thread(t) ==
    SyncAndGet(t) \/ Arrive(t) \/ LeaveWait(t) \/ WakeUp(t) \/ Pop(t) \/ Popped(t)

-----------------------------------------------------------------------------
\* Mailbox::Receiving: data for a queue that is not registered aborts.
Deliver(m, n) ==
    /\ Received(m, n, "kData")
    /\ LET push == Head(wire[m][n]).push
       IN  /\ queue' = IF Registered(n)
                       THEN [queue EXCEPT ![push.to] = Append(@, push)] ELSE queue
           /\ aborted' = ~Registered(n)
    /\ UNCHANGED <<pc, entered, left, unsent, counts, main, place, wait, step,
                   rets, waitVars, pushed>>

ReceiverThread(m, n) ==
    \/ Deliver(m, n)
    \/ ReceiveBarrier(m, n) /\ UNCHANGED channelVars
    \/ ReceiveExit(m, n) /\ UNCHANGED <<counts, aborted, channelVars>>

MainThread(n) == Construct(n) \/ Constructed(n) \/ Destruct(n) \/ Stop(n) \/ StopReturns(n)

\* Whoever is in Barrier blocks in its condition variable, or wakes for nothing.
Blocks(n) == Block(n, Complete(n)) /\ UNCHANGED <<counts, aborted, channelVars>>
WakesForNothing(n) == SpuriousWakeup(n) /\ UNCHANGED <<counts, aborted, channelVars>>

AllStopped == (\A n \in Nodes : main[n] = "destroyed") /\ UNCHANGED allVars

ChannelNext ==
    \/ \E n \in Nodes : ~aborted /\ (MainThread(n) \/ Blocks(n) \/ WakesForNothing(n))
    \/ \E t \in Threads : ~aborted /\ (Thread(t) \/ SpuriousReturn(t))
    \/ \E t, u \in Threads : ~aborted /\ PushTo(t, u)
    \/ \E m, n \in Nodes : ~aborted /\ ReceiverThread(m, n)
    \/ AllStopped

\* Every thread that can go on does; nobody has to push, and nobody is woken
\* for nothing.
ChannelSpec ==
    /\ ChannelInit /\ [][ChannelNext]_allVars
    /\ \A n \in Nodes : WF_allVars(~aborted /\ MainThread(n)) /\ WF_allVars(~aborted /\ Blocks(n))
    /\ \A t \in Threads : WF_allVars(~aborted /\ Thread(t))
    /\ \A m, n \in Nodes : WF_allVars(~aborted /\ ReceiverThread(m, n))

-----------------------------------------------------------------------------
\* "We assume all the incoming data are already in the queue"
\* (LocalChannel::SyncAndGet): what SyncAndGet returns is everything that was
\* pushed to the thread in the superstep before, by threads of all nodes, and
\* nothing of the next superstep, which faster threads may have begun.
SyncExact ==
    \A t \in Threads : place[t] \in {"running", "joined"} /\ step[t] > 0 =>
        rets[t] = {p \in pushed : p.to = t /\ p.step = step[t] - 1}

\* No thread sleeps for ever, on the generation or on the barrier, and none
\* holds the lock for ever: every node stops and its channel is destroyed.
AllEnd == <>(\A n \in Nodes : main[n] = "destroyed")
=============================================================================
