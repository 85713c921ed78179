----------------------------- MODULE Allocation ------------------------------
(***************************************************************************)
(* Who is who in a task: every node runs Engine::Run for itself, gives thread *)
(* ids to the workers of all nodes from its own copy of SimpleIdMapper, tells  *)
(* its own servers who they are and registers their queues.  No message        *)
(* compares the results.  Ids are counted from 1 on each node, for            *)
(* kMaxBgThreadsPerNode upwards.                                            *)
(***************************************************************************)
EXTENDS Integers, Sequences, FiniteSetsExt

CONSTANTS
    Nodes,      \* every node has one server
    Tables,
    MaxIds,     \* kMaxThreadsPerNode - kMaxBgThreadsPerNode
    Programs    \* what the application may run: sequences of tasks

\* alloc: WorkerAlloc, tables: SetTables, simple: its lambda makes SimpleKVTables
Task == [alloc : [Nodes -> 0 .. MaxIds], tables : SUBSET Tables, simple : BOOLEAN]

ASSUME AllocationAssumption == MaxIds \in Nat /\ Programs \subseteq Seq(Task)

Ids == 1 .. MaxIds
NoId == 0

VARIABLES
    program,       \* the tasks, the same on all nodes
    pc,            \* node -> where its main thread is
    done,          \* node -> tasks it has run
    node2worker,   \* node -> its SimpleIdMapper's ids in use: node -> ids
    worker_spec,   \* node -> its WorkerSpec: node -> ids
    tables_left,   \* node -> tables still to be initialised
    init_id,       \* node -> id that InitTable has taken
    queue_map,     \* node -> ids registered with its mailbox
    tracked,       \* node -> table -> threads known to the model on its server
    threads,       \* node -> worker threads that have not ended, with their state
    entered,       \* node -> Barriers entered
    aborted        \* a CHECK has failed

nodeVars == <<node2worker, worker_spec, tables_left, init_id>>
vars == <<program, pc, done, nodeVars, queue_map, tracked, threads, entered, aborted>>

Current(n) == program[done[n] + 1]

\* WorkerSpec::GetAllThreadIds
AllThreadIds(spec) == UNION {{<<m, i>> : i \in spec[m]} : m \in Nodes}

AllocationInit ==
    /\ program \in Programs
    /\ pc = [n \in Nodes |-> "run"]
    /\ done = [n \in Nodes |-> 0]
    /\ node2worker = [n \in Nodes |-> [m \in Nodes |-> {}]]
    /\ worker_spec = [n \in Nodes |-> [m \in Nodes |-> {}]]
    /\ tables_left = [n \in Nodes |-> {}]
    /\ init_id = [n \in Nodes |-> NoId]
    /\ queue_map = [n \in Nodes |-> {}]
    /\ tracked = [n \in Nodes |-> [t \in Tables |-> {}]]
    /\ threads = [n \in Nodes |-> {}]
    /\ entered = [n \in Nodes |-> 0]
    /\ aborted = FALSE

-----------------------------------------------------------------------------
\* SimpleIdMapper::AllocateWorkerThread, k times: the smallest ids that are free.
Smallest(used, k) ==
    LET free == Ids \ used
    IN  {i \in free : Cardinality({j \in free : j <= i}) <= k}

\* WorkerSpec::Init
TooManyWorkers(alloc) == \E m \in Nodes : alloc[m] >= MaxIds

\* Engine::AllocateWorkers, and on to the first table.
AllocateWorkers(n) ==
    /\ pc[n] = "run" /\ done[n] < Len(program)
    /\ LET alloc == Current(n).alloc
           ids == [m \in Nodes |-> Smallest(node2worker[n][m], alloc[m])]
       IN  /\ worker_spec' = [worker_spec EXCEPT ![n] = ids]
           /\ node2worker' = [node2worker EXCEPT ![n] = [m \in Nodes |-> @[m] \cup ids[m]]]
           /\ aborted' = (TooManyWorkers(alloc)
                              \/ \E m \in Nodes : Cardinality(ids[m]) < alloc[m])
    /\ tables_left' = [tables_left EXCEPT ![n] = Current(n).tables]
    /\ pc' = [pc EXCEPT ![n] = "tables"]
    /\ UNCHANGED <<program, done, init_id, queue_map, tracked, threads, entered>>

\* Engine::InitTable up to its wait: an id and a queue for the replies.
InitTable(n) ==
    /\ pc[n] = "tables" /\ tables_left[n] # {}
    /\ \E i \in Smallest(node2worker[n][n], 1) :
          /\ node2worker' = [node2worker EXCEPT ![n][n] = @ \cup {i}]
          /\ init_id' = [init_id EXCEPT ![n] = i]
          /\ queue_map' = [queue_map EXCEPT ![n] = @ \cup {i}]
          /\ aborted' = (i \in queue_map[n])
    /\ pc' = [pc EXCEPT ![n] = "reset"]
    /\ UNCHANGED <<program, done, worker_spec, tables_left, tracked, threads, entered>>

\* Without a free id AllocateWorkerThread ends in CHECK(false).
OutOfIds(n) ==
    /\ pc[n] = "tables" /\ tables_left[n] # {}
    /\ Smallest(node2worker[n][n], 1) = {}
    /\ aborted' = TRUE
    /\ UNCHANGED <<program, pc, done, nodeVars, queue_map, tracked, threads, entered>>

\* The server resets the model of the table: the threads it will know.
ResetWorker(n) ==
    /\ pc[n] = "reset"
    /\ \E t \in tables_left[n] :
          /\ tracked' = [tracked EXCEPT ![n][t] = AllThreadIds(worker_spec[n])]
          /\ tables_left' = [tables_left EXCEPT ![n] = @ \ {t}]
    /\ pc' = [pc EXCEPT ![n] = "replied"]
    /\ UNCHANGED <<program, done, node2worker, worker_spec, init_id, queue_map, threads,
                   entered, aborted>>

\* The end of InitTable: DeregisterQueue, DeallocateWorkerThread.
KeepInitId(n) ==  \* mutant of FreeInitId: DeallocateWorkerThread is forgotten
    /\ pc[n] = "replied"
    /\ queue_map' = [queue_map EXCEPT ![n] = @ \ {init_id[n]}]
    /\ init_id' = [init_id EXCEPT ![n] = NoId]
    /\ pc' = [pc EXCEPT ![n] = "tables"]
    /\ UNCHANGED <<program, done, node2worker, worker_spec, tables_left, tracked, threads,
                   entered, aborted>>
FreeInitId(n) ==
    /\ pc[n] = "replied"
    /\ queue_map' = [queue_map EXCEPT ![n] = @ \ {init_id[n]}]
    /\ node2worker' = [node2worker EXCEPT ![n][n] = @ \ {init_id[n]}]
    /\ init_id' = [init_id EXCEPT ![n] = NoId]
    /\ pc' = [pc EXCEPT ![n] = "tables"]
    /\ UNCHANGED <<program, done, worker_spec, tables_left, tracked, threads, entered, aborted>>

-----------------------------------------------------------------------------
\* Engine::Barrier: after the tables of a task, and after its workers.
EnterBarrier(n) ==
    /\ \/ pc[n] = "tables" /\ tables_left[n] = {} /\ pc' = [pc EXCEPT ![n] = "starting"]
       \/ pc[n] = "running" /\ threads[n] = {} /\ pc' = [pc EXCEPT ![n] = "ending"]
    /\ entered' = [entered EXCEPT ![n] = @ + 1]
    /\ UNCHANGED <<program, done, nodeVars, queue_map, tracked, threads, aborted>>

AllEntered(n) == \A m \in Nodes : entered[m] >= entered[n]

\* Run spawns its local workers; their queue is that of the helper thread.
SpawnWorkers(n) ==
    /\ pc[n] = "starting" /\ AllEntered(n)
    /\ LET local == worker_spec[n][n]
       IN  /\ aborted' = (local \cap queue_map[n] # {})
           /\ queue_map' = [queue_map EXCEPT ![n] = @ \cup local]
           /\ threads' = [threads EXCEPT ![n] = {[id |-> i, state |-> "new"] : i \in local}]
    /\ pc' = [pc EXCEPT ![n] = "running"]
    /\ UNCHANGED <<program, done, nodeVars, tracked, entered>>

\* SimpleKVTable takes the id over from the helper thread, and frees it at last.
Construct(n, th) ==
    /\ th \in threads[n] /\ th.state = "new"
    /\ aborted' = (Current(n).simple /\ th.id \notin queue_map[n])
    /\ threads' = [threads EXCEPT ![n] = (@ \ {th}) \cup {[th EXCEPT !.state = "working"]}]
    /\ UNCHANGED <<program, pc, done, nodeVars, queue_map, tracked, entered>>

EndThread(n, th) ==
    /\ th \in threads[n] /\ th.state = "working"
    /\ threads' = [threads EXCEPT ![n] = @ \ {th}]
    /\ queue_map' = [queue_map EXCEPT ![n] = IF Current(n).simple THEN @ \ {th.id} ELSE @]
    /\ UNCHANGED <<program, pc, done, nodeVars, tracked, entered, aborted>>

NextTask(n) ==
    /\ pc[n] = "ending" /\ AllEntered(n)
    /\ pc' = [pc EXCEPT ![n] = "run"]
    /\ done' = [done EXCEPT ![n] = @ + 1]
    /\ UNCHANGED <<program, nodeVars, queue_map, tracked, threads, entered, aborted>>

AllDone == (\A n \in Nodes : done[n] = Len(program)) /\ UNCHANGED vars

AllocationNext ==
    \/ /\ ~aborted
       /\ \E n \in Nodes :
             \/ AllocateWorkers(n) \/ InitTable(n) \/ OutOfIds(n) \/ ResetWorker(n)
             \/ FreeInitId(n) \/ EnterBarrier(n) \/ SpawnWorkers(n) \/ NextTask(n)
             \/ \E th \in threads[n] : Construct(n, th) \/ EndThread(n, th)
    \/ AllDone

AllocationSpec == AllocationInit /\ [][AllocationNext]_vars

-----------------------------------------------------------------------------
\* While a worker runs, every node has given the workers of the task the same
\* ids, every server knows exactly them for the tables of the task, and every
\* mailbox has a queue for those of its node, although each node came to its ids
\* on its own, around the ids that InitTable takes for a moment on that node
\* alone (Engine::AllocateWorkers: "all the engines allocate the same set").
WorkersAgree ==
    \A n \in Nodes : threads[n] # {} =>
        \A m \in Nodes :
            /\ worker_spec[m] = worker_spec[n]
            /\ \A t \in Current(n).tables : tracked[m][t] = AllThreadIds(worker_spec[n])
            /\ {th.id : th \in threads[m]} \subseteq queue_map[m] \cap worker_spec[n][m]

\* As long as the ids of a node are enough for the workers of all tasks, which
\* are never given back, and one more for InitTable, no CHECK of the id mapper
\* or of the mailbox's queue map fails.
NoCheckFails ==
    aborted => \E n \in Nodes :
        MapThenSumSet(LAMBDA i : program[i].alloc[n], 1 .. Len(program)) >= MaxIds
=============================================================================
