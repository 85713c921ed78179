------------------------------- MODULE Engine --------------------------------
(***************************************************************************)
(* The life of an application on all nodes (driver/engine.cpp): a sequence of *)
(* tasks on one SSP table, each started by Engine::Run with a reset of the    *)
(* servers and a Barrier, a Barrier between tasks, StopEverything at last.    *)
(*                                                                         *)
(* A node has one server and one worker per task.  Its requests, answers and  *)
(* resets leave through the queue of its Sender thread; Barrier and Stop use   *)
(* the sockets directly and overtake what is in that queue.                  *)
(***************************************************************************)
EXTENDS ProgressTracker, SequencesExt

CONSTANTS
    Nodes,
    NumTasks,
    Lambdas,     \* task -> sequences of calls on the table that a worker may make
    Staleness

Tasks == 1 .. NumTasks

ASSUME EngineAssumption ==
    /\ Nodes # {} /\ IsFiniteSet(Nodes)
    /\ NumTasks \in Nat \ {0}
    /\ \A t \in Tasks : /\ Lambdas[t] # {}
                        /\ Lambdas[t] \subseteq Seq({"kAdd", "kClock", "kGet"})
    /\ Staleness \in Nat

\* The worker ends with a Get, if it calls at all: its answers are the only ones
\* that a worker waits for.
LambdasEndWithGet == \A t \in Tasks : \A l \in Lambdas[t] : l # <<>> => l[Len(l)] = "kGet"

VARIABLES
    pc,                \* node -> where its main thread is
    task,              \* node -> the task it runs
    todo,              \* node -> the calls its worker has still to make
    pending,           \* node -> answers its worker waits for (AppBlocker)
    running,           \* node -> the threads that have not exited
    send_queue,        \* node -> Sender::send_message_queue_
    wire,              \* node -> node -> the socket
    work_queue,        \* node -> ServerThread::work_queue_
    barrier_count,     \* node -> Mailbox::barrier_count_
    progress_tracker,  \* node -> SSPModel::progress_tracker_
    buffer,            \* node -> Gets parked in SSPModel::buffer_
    storage,           \* node -> the Adds its server has applied
    added,             \* history: Adds called
    lost,              \* history: messages dropped by closed sockets
    aborted            \* history: a CHECK has failed

workerVars == <<todo, pending, added>>
serverVars == <<progress_tracker, buffer, storage>>
netVars == <<send_queue, wire, work_queue>>
histVars == <<lost, aborted>>
vars == <<pc, task, running, barrier_count, workerVars, serverVars, netVars, histVars>>

NumNodes == Cardinality(Nodes)

\* AllocateWorkers gives the workers of every task new thread ids.
Thread == [task : Tasks, node : Nodes]
Worker(n) == [task |-> task[n], node |-> n]
LocalThreads(w) == {w}  \* mutant of AllThreads
AllThreads(w) == {v \in Thread : v.task = w.task}

\* One message, and the thread of node "to" it is for: the server, the queue
\* of InitTable in the main thread, or a worker, whose answers the helper
\* thread takes.  adds: what the answer to a Get holds, as the Adds summed up.
Message == [flag : {"kAdd", "kClock", "kGet", "kReset", "kBarrier", "kExit"},
            of : Thread, to : Nodes, at : {"server", "main", "worker"},
            adds : SUBSET Thread]

Request(w, n, flag) == [flag |-> flag, of |-> w, to |-> n, at |-> "server", adds |-> {}]
Reply(m, at, adds) == [m EXCEPT !.to = m.of.node, !.at = at, !.adds = adds]

Init ==
    /\ pc = [n \in Nodes |-> "run"]
    /\ task = [n \in Nodes |-> 1]
    /\ todo = [n \in Nodes |-> <<>>]
    /\ pending = [n \in Nodes |-> 0]
    /\ running = [n \in Nodes |-> {"receiver", "sender", "server"}]
    /\ send_queue = [n \in Nodes |-> <<>>]
    /\ wire = [m \in Nodes |-> [n \in Nodes |-> <<>>]]
    /\ work_queue = [n \in Nodes |-> <<>>]
    /\ barrier_count = [n \in Nodes |-> 0]
    /\ progress_tracker = [n \in Nodes |-> TrackerInit({})]
    /\ buffer = [n \in Nodes |-> {}]
    /\ storage = [n \in Nodes |-> {}]
    /\ added = {}
    /\ lost = {}
    /\ aborted = FALSE

\* The servers in the order in which a call sends to them.
ServerIds == SetToSeq(Nodes)

-----------------------------------------------------------------------------
(* Main thread: Engine::Run, Barrier, StopEverything                        *)

\* Run up to the wait in InitTable: AllocateWorkers, and a reset of the local
\* server, sent through the Sender.
StartTask(n) ==
    /\ pc[n] = "run"
    /\ send_queue' = [send_queue EXCEPT ![n] = Append(@, Request(Worker(n), n, "kReset"))]
    /\ \E l \in Lambdas[task[n]] : todo' = [todo EXCEPT ![n] = l]
    /\ pc' = [pc EXCEPT ![n] = "resetting"]
    /\ UNCHANGED <<task, pending, added, running, wire, work_queue, barrier_count, serverVars, histVars>>

\* Mailbox::Barrier up to its wait, after InitTable and after the task; the one
\* after the last task is that of Mailbox::Stop.
EnterBarrier(n) ==
    /\ \/ pc[n] = "reset" /\ pc' = [pc EXCEPT ![n] = "starting"]
       \/ pc[n] = "working" /\ todo[n] = <<>> /\ pending[n] = 0
          /\ pc' = [pc EXCEPT ![n] = "ending"]
    /\ wire' = [wire EXCEPT ![n] = [m \in Nodes |->
                   Append(@[m], Request(Worker(n), m, "kBarrier"))]]
    /\ UNCHANGED <<task, running, workerVars, send_queue, work_queue, barrier_count, serverVars, histVars>>

CompleteButOne(n) == barrier_count[n] >= NumNodes - 1  \* mutant of Complete
Complete(n) == barrier_count[n] >= NumNodes

LeaveBarrier(n) ==
    /\ Complete(n)
    /\ barrier_count' = [barrier_count EXCEPT ![n] = @ - NumNodes]
    /\ \/ /\ pc[n] = "starting"
          /\ pc' = [pc EXCEPT ![n] = "working"]
          /\ UNCHANGED task
       \/ /\ pc[n] = "ending" /\ task[n] < NumTasks
          /\ pc' = [pc EXCEPT ![n] = "run"]
          /\ task' = [task EXCEPT ![n] = @ + 1]
       \/ /\ pc[n] = "ending" /\ task[n] = NumTasks
          /\ pc' = [pc EXCEPT ![n] = "stopping"]
          /\ UNCHANGED task
    /\ UNCHANGED <<running, workerVars, netVars, serverVars, histVars>>

\* Mailbox::StopReceiving after its Barrier.
SendExit(n) ==
    /\ pc[n] = "stopping"
    /\ wire' = [wire EXCEPT ![n][n] = Append(@, Request(Worker(n), n, "kExit"))]
    /\ pc' = [pc EXCEPT ![n] = "joinReceiver"]
    /\ UNCHANGED <<task, running, workerVars, send_queue, work_queue, barrier_count, serverVars, histVars>>

\* Mailbox::CloseSockets, with kExit for the registered queues; Sender::Stop
\* comes after it.
CloseSockets(n) ==
    /\ pc[n] = "joinReceiver" /\ "receiver" \notin running[n]
    /\ work_queue' = [work_queue EXCEPT ![n] = Append(@, Request(Worker(n), n, "kExit"))]
    /\ send_queue' = [send_queue EXCEPT ![n] = Append(@, Request(Worker(n), n, "kExit"))]
    /\ pc' = [pc EXCEPT ![n] = "joinSender"]
    /\ UNCHANGED <<task, running, workerVars, wire, barrier_count, serverVars, histVars>>

Open(n) == pc[n] \notin {"joinSender", "stopped"}

JoinThreads(n) ==
    /\ pc[n] = "joinSender" /\ running[n] = {}
    /\ pc' = [pc EXCEPT ![n] = "stopped"]
    /\ UNCHANGED <<task, running, workerVars, netVars, barrier_count, serverVars, histVars>>

Main(n) ==
    \/ StartTask(n) \/ EnterBarrier(n) \/ LeaveBarrier(n)
    \/ SendExit(n) \/ CloseSockets(n) \/ JoinThreads(n)

-----------------------------------------------------------------------------
(* Worker thread: the next call of its lambda, to all servers                *)
Call(n) ==
    /\ pc[n] = "working" /\ pending[n] = 0 /\ todo[n] # <<>>
    /\ LET flag == Head(todo[n])
           w    == Worker(n)
       IN  /\ send_queue' = [send_queue EXCEPT ![n] =
                  @ \o [i \in 1 .. NumNodes |-> Request(w, ServerIds[i], flag)]]
           /\ added' = IF flag = "kAdd" THEN added \cup {w} ELSE added
           /\ pending' = [pending EXCEPT ![n] = IF flag = "kGet" THEN NumNodes ELSE 0]
    /\ todo' = [todo EXCEPT ![n] = Tail(@)]
    /\ UNCHANGED <<pc, task, running, wire, work_queue, barrier_count, serverVars, histVars>>

-----------------------------------------------------------------------------
(* Sender thread: Sender::Send, Mailbox::Send                               *)
SenderStep(n) ==
    /\ "sender" \in running[n]
    /\ send_queue[n] # <<>>
    /\ send_queue' = [send_queue EXCEPT ![n] = Tail(@)]
    /\ LET m == Head(send_queue[n])
       IN  \/ /\ m.flag = "kExit"
              /\ running' = [running EXCEPT ![n] = @ \ {"sender"}]
              /\ UNCHANGED <<wire, lost>>
           \/ /\ m.flag # "kExit" /\ Open(n)
              /\ wire' = [wire EXCEPT ![n][m.to] = Append(@, m)]
              /\ UNCHANGED <<running, lost>>
           \/ /\ m.flag # "kExit" /\ ~Open(n)
              /\ lost' = lost \cup {m}
              /\ UNCHANGED <<running, wire>>
    /\ UNCHANGED <<pc, task, workerVars, work_queue, barrier_count, serverVars, aborted>>

-----------------------------------------------------------------------------
(* Receiver thread: Mailbox::Receiving.  The main thread waits for one answer  *)
(* in InitTable, a worker for the helper thread to count its answers: both     *)
(* are served as soon as their message arrives.                              *)
ReceiverStep(m, n) ==
    /\ "receiver" \in running[n]
    /\ wire[m][n] # <<>>
    /\ wire' = [wire EXCEPT ![m][n] = Tail(@)]
    /\ LET msg == Head(wire[m][n])
       IN  \/ /\ msg.flag = "kBarrier"
              /\ barrier_count' = [barrier_count EXCEPT ![n] = @ + 1]
              /\ UNCHANGED <<pc, running, pending, work_queue>>
           \/ /\ msg.flag = "kExit"
              /\ running' = [running EXCEPT ![n] = @ \ {"receiver"}]
              /\ UNCHANGED <<pc, pending, work_queue, barrier_count>>
           \/ /\ msg.flag \notin {"kBarrier", "kExit"} /\ msg.at = "server"
              /\ work_queue' = [work_queue EXCEPT ![n] = Append(@, msg)]
              /\ UNCHANGED <<pc, running, pending, barrier_count>>
           \/ /\ msg.at = "main"
              /\ pc' = [pc EXCEPT ![n] = "reset"]
              /\ UNCHANGED <<running, pending, work_queue, barrier_count>>
           \/ /\ msg.at = "worker"
              /\ pending' = [pending EXCEPT ![n] = @ - 1]
              /\ UNCHANGED <<pc, running, work_queue, barrier_count>>
    /\ UNCHANGED <<task, todo, added, send_queue, serverVars, histVars>>

-----------------------------------------------------------------------------
(* Server thread: ServerThread::Main over one SSPModel                      *)

\* A message of n's work queue is taken and handled; replies go to the Sender.
Take(n, flag) ==
    /\ "server" \in running[n]
    /\ work_queue[n] # <<>> /\ Head(work_queue[n]).flag = flag
    /\ work_queue' = [work_queue EXCEPT ![n] = Tail(@)]
    /\ UNCHANGED <<pc, task, barrier_count, workerVars, wire, lost>>

\* ProgressTracker::CheckThreadValid
Valid(n, w) == w \in DOMAIN progress_tracker[n].progresses

\* A failed CHECK ends the process.
Abort(n) ==
    /\ aborted' = TRUE
    /\ UNCHANGED <<running, serverVars, send_queue>>

\* SSPModel::ResetWorker: a new tracker for the workers of the task; storage
\* and buffer stay as they are.
ResetWorkerSilently(n) ==  \* mutant of ResetWorker
    /\ Take(n, "kReset")
    /\ LET m == Head(work_queue[n])
       IN  progress_tracker' = [progress_tracker EXCEPT ![n] =
               TrackerInit(AllThreads(m.of))]
    /\ UNCHANGED <<running, buffer, storage, send_queue, aborted>>
ResetWorkerAndStorage(n) ==  \* mutant of ResetWorker
    /\ Take(n, "kReset")
    /\ LET m == Head(work_queue[n])
       IN  /\ progress_tracker' = [progress_tracker EXCEPT ![n] =
                  TrackerInit(AllThreads(m.of))]
           /\ send_queue' = [send_queue EXCEPT ![n] = Append(@, Reply(m, "main", {}))]
    /\ storage' = [storage EXCEPT ![n] = {}]
    /\ UNCHANGED <<running, buffer, aborted>>
ResetWorker(n) ==
    /\ Take(n, "kReset")
    /\ LET m == Head(work_queue[n])
       IN  /\ progress_tracker' = [progress_tracker EXCEPT ![n] =
                  TrackerInit(AllThreads(m.of))]
           /\ send_queue' = [send_queue EXCEPT ![n] = Append(@, Reply(m, "main", {}))]
    /\ UNCHANGED <<running, buffer, storage, aborted>>

ServerAdd(n) ==
    /\ Take(n, "kAdd")
    /\ storage' = [storage EXCEPT ![n] = @ \cup {Head(work_queue[n]).of}]
    /\ UNCHANGED <<running, progress_tracker, buffer, send_queue, aborted>>

Answers(n, reqs) ==
    [i \in 1 .. Cardinality(reqs) |-> Reply(SetToSeq(reqs)[i], "worker", storage[n])]

ServerGet(n) ==
    /\ Take(n, "kGet")
    /\ LET m   == Head(work_queue[n])
           pt  == progress_tracker[n]
       IN  \/ ~Valid(n, m.of) /\ Abort(n)
           \/ /\ Valid(n, m.of)
              /\ IF pt.progresses[m.of] > pt.min_clock + Staleness
                 THEN /\ buffer' = [buffer EXCEPT ![n] = @ \cup
                            {[at |-> pt.progresses[m.of] - Staleness, req |-> m]}]
                      /\ UNCHANGED send_queue
                 ELSE /\ send_queue' = [send_queue EXCEPT ![n] = @ \o Answers(n, {m})]
                      /\ UNCHANGED buffer
              /\ UNCHANGED <<running, progress_tracker, storage, aborted>>

ServerClock(n) ==
    /\ Take(n, "kClock")
    /\ LET w  == Head(work_queue[n]).of
           pt == progress_tracker[n]
       IN  \/ ~Valid(n, w) /\ Abort(n)
           \/ /\ Valid(n, w)
              /\ progress_tracker' = [progress_tracker EXCEPT ![n] = Advance(@, w)]
              /\ LET freed == {p \in buffer[n] : p.at = ChangedMinClock(pt, w)}
                 IN  /\ buffer' = [buffer EXCEPT ![n] = @ \ freed]
                     /\ send_queue' = [send_queue EXCEPT ![n] =
                            @ \o Answers(n, {p.req : p \in freed})]
              /\ UNCHANGED <<running, storage, aborted>>

ServerExit(n) ==
    /\ Take(n, "kExit")
    /\ running' = [running EXCEPT ![n] = @ \ {"server"}]
    /\ UNCHANGED <<serverVars, send_queue, aborted>>

Server(n) ==
    \/ ResetWorker(n) \/ ServerAdd(n) \/ ServerGet(n) \/ ServerClock(n) \/ ServerExit(n)

-----------------------------------------------------------------------------
Next ==
    /\ ~aborted
    /\ \/ \E n \in Nodes : Main(n) \/ Call(n) \/ SenderStep(n) \/ Server(n)
       \/ \E m, n \in Nodes : ReceiverStep(m, n)

\* Every thread loops on its queue, the main thread and the lambdas go on.
Fairness ==
    /\ \A n \in Nodes : /\ WF_vars(~aborted /\ Main(n)) /\ WF_vars(~aborted /\ Call(n))
                        /\ WF_vars(~aborted /\ SenderStep(n)) /\ WF_vars(~aborted /\ Server(n))
    /\ \A m, n \in Nodes : WF_vars(~aborted /\ ReceiverStep(m, n))

Spec == Init /\ [][Next]_vars /\ Fairness

-----------------------------------------------------------------------------
TypeOK ==
    /\ pc \in [Nodes -> {"run", "resetting", "reset", "starting", "working", "ending",
                         "stopping", "joinReceiver", "joinSender", "stopped"}]
    /\ task \in [Nodes -> Tasks]
    /\ pending \in [Nodes -> 0 .. NumNodes]
    /\ running \in [Nodes -> SUBSET {"receiver", "sender", "server"}]
    /\ send_queue \in [Nodes -> Seq(Message)]
    /\ wire \in [Nodes -> [Nodes -> Seq(Message)]]
    /\ work_queue \in [Nodes -> Seq(Message)]
    /\ barrier_count \in [Nodes -> 0 .. 2 * NumNodes - 1]
    /\ \A n \in Nodes : progress_tracker[n].min_clock \in Nat
    /\ \A n \in Nodes : \A p \in buffer[n] : p.at \in Nat /\ p.req \in Message
    /\ storage \in [Nodes -> SUBSET added]
    /\ added \subseteq Thread
    /\ lost \subseteq Message

\* No request meets the tracker of another task: the CHECK of CheckThreadValid
\* in ProgressTracker and SSPModel::Get never fails.
NoCheckFails == ~aborted

\* No request meets a server that does not know its sender, and no message is
\* left when the next task resets the tables (Engine::Run).
TasksSound == TypeOK /\ NoCheckFails

\* A task reads what the tasks before it have added: every answer to a worker
\* of a task holds all Adds of earlier tasks, although these were never
\* acknowledged and Barrier overtakes the Sender.
EarlierTasksVisible ==
    \A n \in Nodes :
        \A m \in ToSet(send_queue[n]) \cup UNION {ToSet(wire[n][k]) : k \in Nodes} :
            m.at = "worker" => {a \in added : a.task < m.of.task} \subseteq m.adds

\* When the threads of a node have been joined, its server has every Add.
StopLosesNothing ==
    /\ lost = {}
    /\ \A n \in Nodes : pc[n] = "stopped" => storage[n] = added

\* The application comes to its end on all nodes.
EveryNodeStops == <>(\A n \in Nodes : pc[n] = "stopped")
=============================================================================
