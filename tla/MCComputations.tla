--------------------------- MODULE MCComputations ----------------------------
(***************************************************************************)
(* What a node works out without another one's help: the ids of the threads    *)
(* of a task (Allocation), the servers of the keys (Startup), the slices of a  *)
(* Get and who waits for them (AppBlocker), messages in frames                 *)
(* (Framing), streams of bytes (BinStream), gradients (Learning) and first     *)
(* centres (KMeansSeeds).  part tells which of them a behaviour is about; the  *)
(* variables of the others stay 0.                                           *)
(***************************************************************************)
EXTENDS Allocation, SequencesExt, TLC

-----------------------------------------------------------------------------
MCTask(a, b, tables, simple) ==
    [alloc |-> [n \in Nodes |-> IF n = 1 THEN a ELSE b], tables |-> tables, simple |-> simple]
MCPrograms ==
    {<<MCTask(1, 1, {1}, simple), MCTask(a, b, ts, FALSE)>> :
        simple \in BOOLEAN, a \in 0 .. 2, b \in 1 .. 3, ts \in {{1}, {1, 2}}}

\* Two threads of two nodes: messages with as many data as given.
MCMessage(n, t, k, size) == [meta |-> <<n, t, k>>, data |-> [j \in 1 .. size |-> <<n, k, j>>]]
MCSizes == {<<<<2, 0>>, <<0>>>>, <<<<1>>, <<2>>>>}
MCToSend ==
    {[n \in 1 .. 2 |-> [t \in 1 .. 2 |->
        [k \in DOMAIN sizes[n][t] |-> MCMessage(n, t, k, sizes[n][t][k])]]] :
            sizes \in MCSizes \X MCSizes}

\* Ranges, an empty one among them.
MCRangeEnds == {<<0, 2, 4>>, <<0, 1, 3, 4>>, <<1, 1, 3>>, <<1, 3, 4, 5>>}

\* Two threads: one that creates another table between its Gets, one that Gets from
\* the same table twice.  And one thread alone, for all keys, on either kind of table.
MCCreate(m) == [op |-> "create", model |-> m]
MCGet(m, keys) == [op |-> "get", model |-> m, keys |-> keys]
MCSimpleGet(m, keys) == [op |-> "simple get", model |-> m, keys |-> keys]
MCKeys == {SetToSortSeq(K, <) : K \in (SUBSET (0 .. 4)) \ {{}}}
MCLambdas ==
    {<<<<MCCreate(1), MCGet(1, <<0, 2>>), MCCreate(2), MCGet(2, <<0>>), MCGet(1, <<3>>)>>,
       <<MCCreate(1), MCGet(1, <<0, 1, 2>>), MCGet(1, <<0>>)>>>>}
    \cup {<<<<MCCreate(1), MCGet(1, keys)>>, <<>>>> : keys \in MCKeys}
    \cup {<<<<MCSimpleGet(1, keys), MCSimpleGet(1, <<1>>)>>, <<>>>> : keys \in MCKeys}

\* Two lines in order, and what the checks of the node file are there for: a line
\* without a port, a word for an id, one id or one port twice, ids out of order, a
\* node missing.
NaN == -1
MCNodeFile == <<<<0, "a", 1>>, <<1, "a", 2>>>>
MCBadNodeFiles ==
    {<<<<0, "a", 1>>, <<1, "a">>>>, <<<<0, "a", 1>>, <<NaN, "b", 1>>>>,
     <<<<0, "a", 1>>, <<0, "b", 1>>>>, <<<<0, "a", 1>>, <<1, "a", 1>>>>,
     <<<<1, "a", 1>>, <<0, "b", 1>>>>, <<<<0, "a", 1>>>>}

MCFlag(dims, nonzeros, model, storage, recorder, servers, started) ==
    [num_dims |-> dims, num_nonzeros |-> nonzeros, kModelType |-> model,
     kStorageType |-> storage, kSparseSSPRecorderType |-> recorder,
     num_servers_per_node |-> servers, servers_started |-> started]
\* Fewer keys than servers, keys left over, and flags beyond their limits.
MCFlags ==
    {MCFlag(d, n, "SSP", "Vector", "None", s, s) : d \in {3, 5}, n \in 1 .. 2, s \in 1 .. 2}
    \cup {MCFlag(3, 2, "SparseSSP", "Map", r, 1, 1) : r \in {"None", "Map", "Vector"}}
    \cup {MCFlag(2, 3, "SSP", "Map", "None", 1, 1), MCFlag(2, 1, "SSP", "Map", "None", 3, 3),
          MCFlag(2, 1, "PSP", "Map", "None", 1, 1), MCFlag(4, 1, "BSP", "Vector", "None", 2, 1)}

\* One value of each type, and a second one where the content may be empty.
MCValue(type, content) == [type |-> type, content |-> content]
MCValues ==
    {MCValue("pod", 2), MCValue("pair", <<2, 1>>), MCValue("vector", <<>>),
     MCValue("string", <<2, 2>>), MCValue("map", (1 :> 2) @@ (2 :> 1)),
     MCValue("shared_ptr", <<1>>),
     [type |-> "unordered_map", content |-> (1 :> 2) @@ (2 :> 2), buckets |-> <<2, 1>>]}

\* Three records of one or two features each.
MCFeatures == {<<<<1, 2>>>>, <<<<2, 1>>>>, <<<<1, 1>>, <<3, 2>>>>, <<<<2, 3>>, <<3, 1>>>>}
MCRecords == {[x |-> f, y |-> y] : f \in MCFeatures, y \in {-1, 1}}
MCDataSets == {<<a, b, c>> : a, b, c \in MCRecords}

\* Quarters of 1.
MCLogistic(v) == IF v < 0 THEN 1 ELSE IF v = 0 THEN 2 ELSE 3

\* Two to four records for three seeds, some of them equal.
MCPoints == {0 :> 1, (0 :> 1) @@ (1 :> 2), 2 :> 3}
MCPointSets == UNION {[1 .. n -> MCPoints] : n \in 2 .. 4}

-----------------------------------------------------------------------------
VARIABLES
    part,
    lines, flags, main, node2server, node_queues, partition_manager, models, barriers, wire,
    asked, answered,                   \* of Startup
    to_send, mu_, frames, socket, receiver_, msg, place, delivered, sent,   \* of Framing
    lambdas, ends, call_at, call_place, lock, recv_handle_, recv_finish_handle_, tracker_, answers,
    work_queue_, helper, recv_kvs_, vals, raced, ended,   \* of AppBlocker
    buffer, front, unread,             \* of BinStream
    data, start, params,               \* of Learning
    points, mode, step, X, C, psi, at, round, centres, counts   \* of KMeansSeeds

Start == INSTANCE Startup WITH
    Processes <- 0 .. 1, NodeFiles <- MCBadNodeFiles \cup {MCNodeFile}, NotANumber <- NaN,
    AllFlags <- MCFlags, MaxServers <- 2, WorkerHelperThreadId <- 3, MaxThreadsPerNode <- 10,
    pc <- main, queue_map <- node_queues, entered <- barriers
Blocker == INSTANCE AppBlocker WITH
    AppThreads <- {1, 2}, Nobody <- 0, Lambdas <- MCLambdas, RangeEnds <- MCRangeEnds,
    at <- call_at, place <- call_place, mu_ <- lock, aborted <- ended
Frames == INSTANCE Framing WITH
    Nodes <- {1, 2}, Threads <- {1, 2}, NoThread <- 0, Programs <- MCToSend, program <- sent
Stream == INSTANCE BinStream WITH Values <- MCValues, MaxTokens <- 6
Learner == INSTANCE Learning WITH
    DataSets <- MCDataSets, BatchSize <- 2, Params <- {-1, 1}, Lambda <- 2, Logistic <- MCLogistic, One <- 4
Seeding == INSTANCE KMeansSeeds WITH
    DataSets <- MCPointSets, NumDims <- 3, K <- 3, SampleTime <- 2,
    data <- points, init_mode <- mode, pc <- step, params <- centres

ASSUME Start!StartupAssumption /\ Frames!FramingAssumption /\ Seeding!SeedsAssumption
ASSUME Blocker!AppBlockerAssumption /\ Learner!LearningAssumption

starting == <<lines, flags, main, node2server, node_queues, partition_manager, models, barriers,
              wire, asked, answered>>
framing == <<to_send, mu_, frames, socket, receiver_, msg, place, delivered, sent>>
blocking == <<lambdas, ends, call_at, call_place, lock, recv_handle_, recv_finish_handle_, tracker_,
              answers, work_queue_, helper, recv_kvs_, vals, raced, ended>>
stream == <<buffer, front, unread>>
learning == <<data, start, params>>
seeding == <<points, mode, step, X, C, psi, at, round, centres, counts>>
partVars == <<part, vars, starting, framing, blocking, stream, learning, seeding>>

NoAllocation ==
    /\ program = 0 /\ pc = 0 /\ done = 0 /\ node2worker = 0 /\ worker_spec = 0
    /\ tables_left = 0 /\ init_id = 0 /\ queue_map = 0 /\ tracked = 0 /\ threads = 0
    /\ entered = 0 /\ aborted = 0
NoStart ==
    /\ lines = 0 /\ flags = 0 /\ main = 0 /\ node2server = 0 /\ node_queues = 0
    /\ partition_manager = 0 /\ models = 0 /\ barriers = 0 /\ wire = 0 /\ asked = 0 /\ answered = 0
NoBlocking ==
    /\ lambdas = 0 /\ ends = 0 /\ call_at = 0 /\ call_place = 0 /\ lock = 0 /\ recv_handle_ = 0
    /\ recv_finish_handle_ = 0 /\ tracker_ = 0 /\ answers = 0 /\ work_queue_ = 0 /\ helper = 0
    /\ recv_kvs_ = 0 /\ vals = 0 /\ raced = 0 /\ ended = 0
NoFraming ==
    /\ to_send = 0 /\ mu_ = 0 /\ frames = 0 /\ socket = 0 /\ receiver_ = 0 /\ msg = 0 /\ place = 0
    /\ delivered = 0 /\ sent = 0
NoStream == buffer = 0 /\ front = 0 /\ unread = 0
NoLearning == data = 0 /\ start = 0 /\ params = 0
NoSeeding ==
    /\ points = 0 /\ mode = 0 /\ step = 0 /\ X = 0 /\ C = 0 /\ psi = 0 /\ at = 0 /\ round = 0
    /\ centres = 0 /\ counts = 0

PartInit ==
    \/ /\ part = "allocation" /\ AllocationInit
       /\ NoStart /\ NoFraming /\ NoBlocking /\ NoStream /\ NoLearning /\ NoSeeding
    \/ /\ part = "start" /\ Start!StartupInit
       /\ NoAllocation /\ NoFraming /\ NoBlocking /\ NoStream /\ NoLearning /\ NoSeeding
    \/ /\ part = "framing" /\ Frames!FramingInit
       /\ NoAllocation /\ NoStart /\ NoBlocking /\ NoStream /\ NoLearning /\ NoSeeding
    \/ /\ part = "blocker" /\ Blocker!BlockerInit
       /\ NoAllocation /\ NoStart /\ NoFraming /\ NoStream /\ NoLearning /\ NoSeeding
    \/ /\ part = "stream" /\ Stream!StreamInit
       /\ NoAllocation /\ NoStart /\ NoFraming /\ NoBlocking /\ NoLearning /\ NoSeeding
    \/ /\ part = "learning" /\ Learner!LearningInit
       /\ NoAllocation /\ NoStart /\ NoFraming /\ NoBlocking /\ NoStream /\ NoSeeding
    \/ /\ part = "seeding" /\ Seeding!SeedsInit
       /\ NoAllocation /\ NoStart /\ NoFraming /\ NoBlocking /\ NoStream /\ NoLearning

\* A node whose CHECK has failed is gone.
PartNext ==
    \/ /\ part = "allocation" /\ (AllocationNext \/ (aborted /\ UNCHANGED vars))
       /\ UNCHANGED <<part, starting, framing, blocking, stream, learning, seeding>>
    \/ /\ part = "start" /\ Start!StartupNext
       /\ UNCHANGED <<part, vars, framing, blocking, stream, learning, seeding>>
    \/ /\ part = "framing" /\ Frames!FramingNext
       /\ UNCHANGED <<part, vars, starting, blocking, stream, learning, seeding>>
    \/ /\ part = "blocker" /\ Blocker!BlockerNext
       /\ UNCHANGED <<part, vars, starting, framing, stream, learning, seeding>>
    \/ /\ part = "stream" /\ Stream!StreamNext
       /\ UNCHANGED <<part, vars, starting, framing, blocking, learning, seeding>>
    \/ /\ part = "seeding" /\ Seeding!SeedsNext
       /\ UNCHANGED <<part, vars, starting, framing, blocking, stream, learning>>
    \/ part = "learning" /\ UNCHANGED partVars

PartSpec == PartInit /\ [][PartNext]_partVars

-----------------------------------------------------------------------------
(* The properties of the parts, each of its own states.                      *)
NodesAgree ==
    /\ part = "allocation" => WorkersAgree /\ NoCheckFails
    /\ part = "start" => Start!StartsRight
ValuesInPlace == part = "blocker" => Blocker!SlicesInRange /\ Blocker!GetsAnswered
ReadsBack ==
    /\ part = "stream" => Stream!ReadsBack
    /\ part = "framing" => Frames!MessagesIntact
LearningRight ==
    /\ part = "learning" => Learner!GradientsRight /\ Learner!GradientsDescend
    /\ part = "seeding" => Seeding!SeedsAreRecords /\ Seeding!SeedsArrive
=============================================================================
