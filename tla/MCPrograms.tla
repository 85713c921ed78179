----------------------------- MODULE MCPrograms ------------------------------
(***************************************************************************)
(* The example programs that run on several nodes; program tells which one     *)
(* a behaviour runs.  They share no state: variables of one name (the tables)  *)
(* are used by several of them, and those that a program does not have stay 0.  *)
(***************************************************************************)
EXTENDS GBDTTraining, TLC

-----------------------------------------------------------------------------
(* Boosted trees: two nodes with a worker each, up to two records on a node,   *)
(* two features; records of every kind on both nodes, and a node of one class. *)
(* "first gbdt" is the program of examples/gbdt, whose sums are mixed up (see  *)
(* StepsWithoutDummyPull): that it ends is all that is checked of it.        *)
MCNodes == {1, 2}
MCWorkers == MCNodes \X {0}
MCKeys == 0 .. (kMaxKey - 1)
Rec(c, x, y) == [class |-> 36 * c, feats |-> <<x * Scale, y * Scale>>]
MCTwoRecords == {[n \in MCNodes |-> IF n = 1 THEN <<Rec(0, 0, 1), Rec(0, 1, 0)>>
                                             ELSE <<Rec(1, 2, 2), Rec(0, 3, 3)>>]}
MCNodeData ==
    {[n \in MCNodes |-> IF n = 1 THEN <<r, Rec(0, 1, 2)>> ELSE <<s>>] :
        r \in {Rec(1, 0, 0), Rec(0, 0, 1)}, s \in {Rec(1, 2, 2), Rec(1, 1, 1)}}
    \cup MCTwoRecords

(* Their records passed on between three nodes that have loaded 3 to 5.        *)
From(first, n) ==
    [i \in 1 .. n |-> [class |-> first + i - 1,
                       feats |-> <<((first + i - 1) % 3) * Scale, (5 - first - i) * Scale>>]]
MCLoads ==
    {[n \in 0 .. 2 |-> CASE n = 0 -> From(1, s[1]) [] n = 1 -> From(s[1] + 1, s[2])
                         [] OTHER -> From(s[1] + s[2] + 1, s[3])] :
        s \in {t \in (0 .. 5) \X (0 .. 5) \X (0 .. 5) : t[1] + t[2] + t[3] \in 3 .. 5}}

(* Logistic regression: batches that ask both servers, or one of them.         *)
MCOwner == [k \in {1, 2} |-> k]
MCKeySets == {{1}, {2}, {1, 2}}
MCBatches ==
    {[w \in {1, 2} |-> [i \in 0 .. 1 |-> IF w = 1 THEN <<a, b>>[i + 1] ELSE <<{1}, {1, 2}>>[i + 1]]] :
        a, b \in MCKeySets}

-----------------------------------------------------------------------------
VARIABLES
    program,
    \* of DataExchange
    loaded, records, columns, total, result, at, synced, mail,
    \* of KMeans, beside at and those of the table
    members, clock2, issued2, want2, waiting2, vals2, given2,
    \* of GradientLoop, beside at, clock, issued, want and vals
    tracker, recv_kvs, toServer, toWorker, progress_tracker, storage, buffer,
    future_keys, deltas, memory, pushed, altered,
    \* of Reassignment
    group_mode, meta, wait, doReassgn, pc, box, accepting, stopped, chan, unprocessed, mishaps

First == INSTANCE GBDTTraining WITH
    Revised <- FALSE, NumTrees <- 1, NodeData <- MCTwoRecords
Exchange == INSTANCE DataExchange WITH NumNodes <- 3, Loads <- MCLoads
Clustering == INSTANCE KMeans WITH
    Workers <- {1, 2}, Clusters <- {1, 2}, NumIters <- 2, BatchSizes <- {1, 2}, Staleness <- 0
Gradient == INSTANCE GradientLoop WITH
    Workers <- {1, 2}, Servers <- {1, 2}, Keys <- {1, 2}, Owner <- MCOwner,
    GetKeys <- MCKeySets, AddKeys <- MCKeySets, MaxClock <- 2, Staleness <- 1,
    Batches <- MCBatches
Reassign == INSTANCE Reassignment WITH
    NumNodes <- 2, NumLocal <- 1, GroupModes <- {0, 1}, BatchSize <- 4, NumIters <- 2,
    StartPts <- {6}, Threshold <- 2

ASSUME
    /\ Exchange!ExchangeAssumption
    /\ Gradient!BatchesAssumption
    /\ Reassign!ReassignmentAssumption

table == <<issued, clock, want, vals>>
training == <<waiting, given, data, ranges, me>>
exchange == <<loaded, records, columns, total, result, synced, mail>>
kmeans == <<members, clock2, issued2, want2, waiting2, vals2, given2>>
gradient == <<tracker, recv_kvs, toServer, toWorker, progress_tracker, storage, buffer,
              future_keys, deltas, memory, pushed, altered>>
reassign == <<group_mode, meta, wait, doReassgn, pc, box, accepting, stopped, chan,
              unprocessed, mishaps>>
programVars == <<program, table, training, exchange, at, kmeans, gradient, reassign>>

NoTable ==
    /\ issued = 0 /\ clock = 0 /\ want = 0 /\ vals = 0
NoTraining ==
    /\ waiting = 0 /\ given = 0 /\ data = 0 /\ ranges = 0 /\ me = 0
NoExchange ==
    /\ loaded = 0 /\ records = 0 /\ columns = 0 /\ total = 0 /\ result = 0
    /\ synced = 0 /\ mail = 0
NoKMeans ==
    /\ members = 0 /\ clock2 = 0 /\ issued2 = 0 /\ want2 = 0 /\ waiting2 = 0
    /\ vals2 = 0 /\ given2 = 0
NoGradient ==
    /\ tracker = 0 /\ recv_kvs = 0 /\ toServer = 0 /\ toWorker = 0
    /\ progress_tracker = 0 /\ storage = 0 /\ buffer = 0 /\ future_keys = 0
    /\ deltas = 0 /\ memory = 0 /\ pushed = 0 /\ altered = 0
NoReassignment ==
    /\ group_mode = 0 /\ meta = 0 /\ wait = 0 /\ doReassgn = 0 /\ pc = 0 /\ box = 0
    /\ accepting = 0 /\ stopped = 0 /\ chan = 0 /\ unprocessed = 0 /\ mishaps = 0

ProgramsInit ==
    \/ /\ \/ program = "gbdt" /\ TrainingInit
          \/ program = "first gbdt" /\ First!TrainingInit
       /\ at = 0 /\ NoExchange /\ NoKMeans /\ NoGradient /\ NoReassignment
    \/ /\ program = "exchange" /\ Exchange!ExchangeInit
       /\ waiting = 0 /\ given = 0 /\ data = 0 /\ me = 0
       /\ NoTable /\ NoKMeans /\ NoGradient /\ NoReassignment
    \/ /\ program = "kmeans" /\ Clustering!KMeansInit
       /\ data = 0 /\ ranges = 0 /\ me = 0
       /\ NoExchange /\ NoGradient /\ NoReassignment
    \/ /\ program = "gradient" /\ Gradient!GradientInit
       /\ NoTraining /\ NoExchange /\ NoKMeans /\ NoReassignment
    \/ /\ program = "reassignment" /\ Reassign!ReassignInit
       /\ at = 0 /\ NoTable /\ NoTraining /\ NoExchange
       /\ NoKMeans /\ NoGradient

\* Reassignment may stop for the reasons that StuckForAReason names; any other
\* program that stops before its end is a deadlock.
ProgramsNext ==
    \/ program = "gbdt" /\ TrainingNext
       /\ UNCHANGED <<program, exchange, at, kmeans, gradient, reassign>>
    \/ program = "first gbdt" /\ First!TrainingNext
       /\ UNCHANGED <<program, exchange, at, kmeans, gradient, reassign>>
    \/ program = "exchange" /\ Exchange!ExchangeNext
       /\ UNCHANGED <<program, table, waiting, given, data, me, kmeans, gradient, reassign>>
    \/ program = "kmeans" /\ Clustering!KMeansNext
       /\ UNCHANGED <<program, data, ranges, me, exchange, gradient, reassign>>
    \/ program = "gradient" /\ Gradient!GradientNext
       /\ UNCHANGED <<program, training, exchange, kmeans, reassign>>
    \/ program = "reassignment" /\ Reassign!ReassignNext
       /\ UNCHANGED <<program, table, training, exchange, at, kmeans, gradient>>
    \/ program = "reassignment" /\ UNCHANGED programVars

ProgramsSpec == ProgramsInit /\ [][ProgramsNext]_programVars

-----------------------------------------------------------------------------
(* The properties of the programs, each of its own states.                   *)
AllReduceIsExact == program = "gbdt" => AllReduceExact
NobodyIsLeft == program \in {"gbdt", "first gbdt"} => NobodyIsStuck
BoostingHelps ==
    [][program = "gbdt" => \A w \in Workers : me'[w].forest # me[w].forest =>
           SSE(me'[w].forest) <= SSE(me[w].forest)]_trainingVars
ExchangeExact ==
    program = "exchange" => Exchange!Balanced /\ Exchange!SameStart /\ Exchange!ResultComplete
ClusteringInStep == program = "kmeans" => Clustering!TablesInStep
AlteredOnlyUnasked == program = "gradient" => Gradient!AlteredOnlyUnasked
OneRoundOfHelp == program = "reassignment" => Reassign!OneRound /\ Reassign!HelperIsIdle
NoWorkLost == program = "reassignment" => Reassign!NoWorkLost
StuckForAReason == program = "reassignment" => Reassign!StuckForAReason
=============================================================================
