------------------------------- MODULE Startup -------------------------------
(***************************************************************************)
(* From the command line to the first answer: an example checks its flags and  *)
(* the node file, Engine::StartEverything starts the threads of the node, and  *)
(* CreateTable gives every server its part of the keys.  Every process does     *)
(* all of it for itself; what they must agree on (the ids of the servers, who   *)
(* keeps which key) no message carries.                                      *)
(***************************************************************************)
EXTENDS Integers, Sequences, FiniteSetsExt, Functions

CONSTANTS
    Processes,              \* my_id of each
    NodeFiles,              \* sequences of lines; a line is its fields: id, host, port
    NotANumber,             \* a field that std::stoi refuses
    AllFlags,               \* what the command line may say
    MaxServers,             \* 20 in the flags' CHECKs
    WorkerHelperThreadId,   \* kWorkerHelperThreadId = 50
    MaxThreadsPerNode       \* kMaxThreadsPerNode = 1000

StartupAssumption ==
    /\ Processes \subseteq Nat
    /\ MaxServers <= WorkerHelperThreadId /\ WorkerHelperThreadId < MaxThreadsPerNode

VARIABLES
    lines,              \* the node file
    flags,              \* the flags, the same for all processes
    pc,                 \* process -> what its main thread does next; "gone" after a failed CHECK
    node2server,        \* process -> its SimpleIdMapper: node -> ids of the servers
    queue_map,          \* process -> ids registered with its Mailbox
    partition_manager,  \* process -> the ranges it slices by, in the order of the servers
    models,             \* process -> its server -> the table's model, if there is one
    entered,            \* process -> Barriers entered
    wire,               \* Gets on their way to a server's thread
    asked,              \* process -> keys its worker has asked for
    answered            \* process -> keys it has been answered

startupVars == <<lines, flags, pc, node2server, queue_map, partition_manager, models, entered,
                 wire, asked, answered>>

\* A step of a main thread; a CHECK that fails ends the process.
Step(p, here, next, checks) ==
    pc[p] = here /\ pc' = [pc EXCEPT ![p] = IF checks THEN next ELSE "gone"]

-----------------------------------------------------------------------------
(* base/node_util.cpp                                                        *)
WellFormed(ls) ==
    \A i \in DOMAIN ls : Len(ls[i]) >= 3 /\ ls[i][1] # NotANumber /\ ls[i][3] # NotANumber
ParseFile(ls) ==
    [i \in DOMAIN ls |-> [id |-> ls[i][1], hostname |-> ls[i][2], port |-> ls[i][3]]]
CheckValidNodeIds(nodes) == \A i, j \in DOMAIN nodes : nodes[i].id = nodes[j].id => i = j
CheckUniquePort(nodes) ==
    \A i, j \in DOMAIN nodes :
        nodes[i].hostname = nodes[j].hostname /\ nodes[i].port = nodes[j].port => i = j
CheckConsecutiveIds(nodes) == \A i \in DOMAIN nodes : nodes[i].id = i - 1
HasNode(nodes, id) == \E i \in DOMAIN nodes : nodes[i].id = id

nodes_ == IF WellFormed(lines) THEN ParseFile(lines) ELSE <<>>
NodeIds == {nodes_[i].id : i \in DOMAIN nodes_}

\* GetNodeById ends in CHECK(false) for a node that is not in the list.
ReadNodes(p) ==
    /\ Step(p, "nodes", "engine",
            WellFormed(lines) /\ CheckValidNodeIds(nodes_) /\ CheckUniquePort(nodes_)
                /\ CheckConsecutiveIds(nodes_) /\ HasNode(nodes_, p))
    /\ UNCHANGED <<lines, flags, node2server, queue_map, partition_manager, models, entered,
                   wire, asked, answered>>

\* The CHECKs at the head of the example's Run.
FlagsInLimits ==
    /\ flags.num_dims > 0 /\ flags.num_nonzeros \in 1 .. flags.num_dims
    /\ flags.kModelType \in {"ASP", "BSP", "SSP", "SparseSSP"}
    /\ flags.kStorageType \in {"Map", "Vector"}
    /\ flags.kSparseSSPRecorderType \in {"None", "Map", "Vector"}
    /\ flags.num_servers_per_node \in 1 .. MaxServers

CheckFlags(p) ==
    /\ Step(p, "main", "nodes", FlagsInLimits)
    /\ UNCHANGED <<lines, flags, node2server, queue_map, partition_manager, models, entered,
                   wire, asked, answered>>

-----------------------------------------------------------------------------
(* Engine::StartEverything                                                   *)
\* SimpleIdMapper::Init
ServerIds(num_servers, id) == [i \in 1 .. num_servers |-> id * MaxThreadsPerNode + i - 1]
WorkerHelperThread(id) == id * MaxThreadsPerNode + WorkerHelperThreadId
GetNodeIdForThread(tid) == tid \div MaxThreadsPerNode

\* Mailbox::Mailbox
MailboxChecks(p) == Len(nodes_) > 0 /\ HasNode(nodes_, p) /\ CheckValidNodeIds(nodes_)

\* CreateIdMapper, CreateMailbox and StartSender.  logistic_regression leaves the
\* number of servers to the default, whatever its flag says.
CreateIdMapper(p) ==
    /\ Step(p, "engine", "servers",
            flags.servers_started \in 1 .. WorkerHelperThreadId /\ MailboxChecks(p))
    /\ node2server' =
          [node2server EXCEPT ![p] = [id \in NodeIds |-> ServerIds(flags.servers_started, id)]]
    /\ UNCHANGED <<lines, flags, queue_map, partition_manager, models, entered, wire, asked,
                   answered>>

StartServerThreads(p) ==
    /\ Step(p, "servers", "helper",
            node2server[p][p] # <<>> /\ Range(node2server[p][p]) \cap queue_map[p] = {})
    /\ queue_map' = [queue_map EXCEPT ![p] = @ \cup Range(node2server[p][p])]
    /\ UNCHANGED <<lines, flags, node2server, partition_manager, models, entered, wire, asked,
                   answered>>

StartWorkerHelperThreads(p) ==
    /\ Step(p, "helper", "mailbox", WorkerHelperThread(p) \notin queue_map[p])
    /\ queue_map' = [queue_map EXCEPT ![p] = @ \cup {WorkerHelperThread(p)}]
    /\ UNCHANGED <<lines, flags, node2server, partition_manager, models, entered, wire, asked,
                   answered>>

\* StartMailbox: bind, connect, receive.  What was sent to a node before that
\* waits at the sender's socket.
StartMailbox(p) ==
    /\ Step(p, "mailbox", "table", TRUE)
    /\ UNCHANGED <<lines, flags, node2server, queue_map, partition_manager, models, entered,
                   wire, asked, answered>>

Receiving(p) == pc[p] \notin {"main", "nodes", "engine", "servers", "helper", "mailbox", "gone"}

-----------------------------------------------------------------------------
(* The table                                                                 *)
\* The ranges of the example: even ones, the last takes what is left over.
EvenRanges ==
    LET n == Len(nodes_) * flags.num_servers_per_node
        share == flags.num_dims \div n
    IN  [i \in 1 .. n |-> [first |-> share * (i - 1),
                           end |-> IF i = n THEN flags.num_dims ELSE share * i]]

KeysOf(r) == r.first .. r.end - 1

\* SimpleIdMapper::GetAllServerThreads: node2server_ is sorted by node.
GetAllServerThreads(p) ==
    LET per_node == Len(node2server[p][p])
    IN  [i \in 1 .. Cardinality(DOMAIN node2server[p]) * per_node |->
            node2server[p][(i - 1) \div per_node][((i - 1) % per_node) + 1]]

\* std::find: where a server is among all of them.
Place(p, server) == CHOOSE i \in DOMAIN GetAllServerThreads(p) : GetAllServerThreads(p)[i] = server

\* The ways Engine::CreateTable can be called wrongly.
TableChecks(p, ranges) ==
    /\ partition_manager[p] = <<>>  \* RegisterRangePartitionManager
    /\ Len(ranges) = Len(GetAllServerThreads(p))
    /\ flags.kModelType = "SparseSSP" => flags.kSparseSSPRecorderType # "None"

\* The keys that a model takes: VectorStorage and VectorSparseSSPRecorder are as
\* long as the server's range, MapStorage takes whatever comes.
KeysTaken(range) ==
    IF \/ flags.kStorageType = "Vector"
       \/ flags.kModelType = "SparseSSP" /\ flags.kSparseSSPRecorderType = "Vector"
    THEN KeysOf(range) ELSE 0 .. flags.num_dims - 1

\* Engine::CreateTable: a model for every server of this node.
CreateTable(p) ==
    /\ Step(p, "table", "created", TableChecks(p, EvenRanges))
    /\ partition_manager' = [partition_manager EXCEPT ![p] = EvenRanges]
    /\ models' = [models EXCEPT ![p] =
          IF TableChecks(p, EvenRanges)
          THEN [s \in Range(node2server[p][p]) |->
                   [keys |-> KeysTaken(EvenRanges[Place(p, s)]), reset |-> FALSE]]
          ELSE @]
    /\ UNCHANGED <<lines, flags, node2server, queue_map, entered, wire, asked, answered>>

\* Mailbox::Barrier, after CreateTable and, in Engine::Run, after InitTable.
EnterBarrier(p) ==
    /\ \/ Step(p, "created", "all created", TRUE)
       \/ Step(p, "reset", "all reset", TRUE)
    /\ entered' = [entered EXCEPT ![p] = @ + 1]
    /\ UNCHANGED <<lines, flags, node2server, queue_map, partition_manager, models, wire, asked,
                   answered>>
LeaveBarrier(p) ==
    /\ \A q \in NodeIds : entered[q] >= entered[p]
    /\ \/ Step(p, "all created", "init", TRUE)
       \/ Step(p, "all reset", "work", TRUE)
    /\ UNCHANGED <<lines, flags, node2server, queue_map, partition_manager, models, entered,
                   wire, asked, answered>>

\* Engine::InitTable: the node's own servers learn who the workers are.
InitTable(p) ==
    /\ Step(p, "init", "reset", Range(node2server[p][p]) \subseteq DOMAIN models[p])
    /\ models' = [models EXCEPT ![p] = [s \in DOMAIN @ |-> [@[s] EXCEPT !.reset = TRUE]]]
    /\ UNCHANGED <<lines, flags, node2server, queue_map, partition_manager, entered, wire, asked,
                   answered>>

\* GenerateRandomKeys: so many different keys.
GenerateRandomKeys == kSubset(flags.num_nonzeros, 0 .. flags.num_dims - 1)

\* The lambda's first Get: a message to every server whose range has a key.
SendGets(p) ==
    /\ Step(p, "work", "done", TRUE)
    /\ \E keys \in GenerateRandomKeys :
          /\ asked' = [asked EXCEPT ![p] = keys]
          /\ wire' = wire \cup
                {m \in {[recver |-> GetAllServerThreads(p)[i], sender |-> p,
                         keys |-> keys \cap KeysOf(partition_manager[p][i])] :
                            i \in DOMAIN partition_manager[p]} : m.keys # {}}
    /\ UNCHANGED <<lines, flags, node2server, queue_map, partition_manager, models, entered,
                   answered>>

\* The receiver hands the message to the server's thread, which answers it.
Serve(m) ==
    LET p == GetNodeIdForThread(m.recver)
        checks == /\ m.recver \in queue_map[p]
                  /\ m.recver \in DOMAIN models[p]
                  /\ models[p][m.recver].reset
                  /\ m.keys \subseteq models[p][m.recver].keys
    IN  /\ m \in wire /\ Receiving(p)
        /\ wire' = wire \ {m}
        /\ pc' = [pc EXCEPT ![p] = IF checks THEN @ ELSE "gone"]
        /\ answered' = [answered EXCEPT ![m.sender] = IF checks THEN @ \cup m.keys ELSE @]
        /\ UNCHANGED <<lines, flags, node2server, queue_map, partition_manager, models, entered,
                       asked>>

-----------------------------------------------------------------------------
StartupInit ==
    /\ lines \in NodeFiles /\ flags \in AllFlags
    /\ pc = [p \in Processes |-> "main"]
    /\ node2server = [p \in Processes |-> <<>>]
    /\ queue_map = [p \in Processes |-> {}]
    /\ partition_manager = [p \in Processes |-> <<>>]
    /\ models = [p \in Processes |-> <<>>]
    /\ entered = [p \in Processes |-> 0]
    /\ wire = {}
    /\ asked = [p \in Processes |-> {}]
    /\ answered = [p \in Processes |-> {}]

\* A process that is gone takes no step, and the others wait for it for ever.
Over == wire = {} \/ \E p \in Processes : pc[p] = "gone"

StartupNext ==
    \/ \E p \in Processes :
          \/ CheckFlags(p) \/ ReadNodes(p) \/ CreateIdMapper(p) \/ StartServerThreads(p)
          \/ StartWorkerHelperThreads(p) \/ StartMailbox(p) \/ CreateTable(p)
          \/ EnterBarrier(p) \/ LeaveBarrier(p) \/ InitTable(p) \/ SendGets(p)
    \/ \E m \in wire : Serve(m)
    \/ (\A p \in Processes : pc[p] \in {"done", "gone", "all created", "all reset"}) /\ Over
          /\ UNCHANGED startupVars

StartupSpec == StartupInit /\ [][StartupNext]_startupVars

-----------------------------------------------------------------------------
\* The one combination that the flags' CHECKs let through and CreateTable refuses,
\* and the one of logistic_regression: its ranges follow a flag that
\* StartEverything is not told of.
RefusedTable ==
    \/ flags.kModelType = "SparseSSP" /\ flags.kSparseSSPRecorderType = "None"
    \/ flags.servers_started # flags.num_servers_per_node

\* A process that gets past the flags and the node file loses no CHECK but those
\* of RefusedTable: a queue missing or registered twice, a request to a server
\* that has no model yet, does not know the workers, or keeps other keys.  When
\* all is served every worker has its keys, and all slice alike, so that each key
\* has one server, on a node that is in the file.
StartsRight ==
    /\ (\E p \in Processes : pc[p] = "gone" /\ queue_map[p] # {}) => RefusedTable
    /\ \A p \in Processes : pc[p] = "done" =>
          /\ \A q \in Processes : pc[q] = "done" => partition_manager[q] = partition_manager[p]
          /\ \A k \in 0 .. flags.num_dims - 1 :
                Cardinality({i \in DOMAIN partition_manager[p] :
                                k \in KeysOf(partition_manager[p][i])}) = 1
          /\ HasNode(nodes_, 0)  \* HDFSManager's master
    /\ wire = {} /\ (\A p \in Processes : pc[p] = "done") => answered = asked
=============================================================================
