# A TLA+ development for flexps

flexps is a parameter server: worker threads iterate, read shared tables with
`Get`, change them with `Add` and end an iteration with `Clock`; server threads
hold the tables in parts and decide, by a *consistency model*, how far workers
may drift apart. This directory models the protocol between workers and
servers under four consistency models, the transport with its barriers and
channels, the life of an application in the engine, the loading of input from
HDFS, the example programs that are built on these, and the sequential code
under them; checks them with TLC and proves theorems about the
stale-synchronous table with TLAPS.

## 1. Inventory of the system

| component | state | operations | talks to |
|---|---|---|---|
| `KVClientTable`, `KVTableBox`, `SimpleKVTable` (worker/) | `recv_kvs_` | `Get`, `Add`, `Clock`, `HandleMsg`, `HandleFinish` | pushes requests to `Sender`; blocks in `AppBlocker` |
| `AppBlocker`, `WorkerHelperThread` | `tracker_` (expected, received), handles | `RegisterRecvHandle`, `NewRequest`, `WaitRequest`, `AddResponse` | one helper thread per node runs the callbacks of all app threads |
| `SimpleRangePartitionManager` | ranges | `Slice` | used by the tables |
| `Sender`, `Mailbox`, `ThreadsafeQueue` | queues, sockets, barrier counts | `Send`, `Receiving`, `Barrier`, `Stop` | every node to every node over zmq, a message in several frames |
| `ServerThread` | work queue, models | `Main` | hands each message to the model of its table |
| `SSPModel`, `BSPModel`, `ASPModel` | `ProgressTracker`, storage, buffers | `Clock`, `Add`, `Get`, `ResetWorker` | reply queue to the workers' helpers |
| `SparseSSPModel` and recorders | the same, and records of future Gets | the same | the same |
| `Engine`, `SimpleIdMapper`, `WorkerSpec` | threads, partition managers, ids | `StartEverything`, `CreateTable`, `InitTable`, `Run`, `StopEverything` | all of the above |
| node files and flags (base/node_util) | nodes by id | `ParseFile`, `CheckValidNodeIds`, `CheckUniquePort`, `CheckConsecutiveIds` | every process reads its own copy |
| `BinStream` (base/serialization) | buffer, front | `operator<<`, `operator>>` per type | messages of channels and of `Coordinator` |
| `Channel`, `LocalChannel` (comm2/) | generation, count, queues | `PushTo`, `SyncAndGet`, `Wait` | `Mailbox::Barrier` |
| `HDFSBlockAssigner`, `Coordinator`, `HDFSManager` (io/) | blocks by host, finished workers; lock | `answer`, `handle_exit`; `ask_master`, `notify_master` | load threads ask a master over zmq |
| `LineInputFormat`, `HDFSFileSplitter` (io/) | buffer, positions `l` and `r`, open file | `next`, `fetch_block` | libhdfs, `Coordinator` |
| boosted trees (examples/gbdt, examples2/gbdt) | records, trees | `GBDTController`, `GBDTTree`, `channel_util` | an SSP table; a channel |
| k-means (examples2/kmeans) | two tables: centres, members | seeds, mini-batches | two SSP tables |
| linear models (logistic regression, sgd) | batches, `deltas` | sampler, objectives | an SSP table, without copies |
| rapid reassignment (examples2) | `JobMeta`, status boxes, group | `JobManager`, `GetLoop` | messages between workers |

What makes it hard:

* **Nothing is acknowledged but Get.** `Add` and `Clock` return at once; no
  message carries the clock of its sender. A server *infers* the iteration of a
  request from the Clocks it has counted, so everything rests on the order of
  one channel and on every server getting every Clock.
* **Servers decide alone.** Each server has its own view of the clocks, and a
  Get is assembled from answers that several servers gave at different moments.
* **Gets are parked** under the minimum clock they wait for, and the minimum is
  a cache that moves only when the unique slowest worker advances.
* **Sparse tables look ahead.** A server answers a Get early when it knows of no
  Get it conflicts with; what it does not know yet is what can go wrong.
* **Failed CHECKs abort the process**: what a legal sequence of calls may not
  reach is a safety property.
* **Barriers have no coordinator.** `comm/` counts messages without a round;
  `comm2/` counts two rounds at a time; both notify only when a count is hit
  exactly.
* **Nodes do not compare notes.** Ids of threads and ranges of servers are worked
  out on every node alone; no message would tell that two nodes differ.
* **Programs reuse keys** iteration after iteration on tables that let workers
  drift, and pass pointers where they seem to pass values.
* **Threads share state without a lock** in rapid reassignment, and in the
  look-ups of the `AppBlocker`.

What makes the components correct: an answer of an SSP table misses no Add
older than the staleness window and none of the worker's own, nor does one of a
sparse table; a BSP answer is exactly the table between two iterations; no Get
stays blocked; no CHECK fails; a barrier returns on no node before every node
has called it, always returns, and (`comm2/`) has delivered what was sent before
it; a `SyncAndGet` returns what was pushed in its superstep; `Stop` loses
nothing; every line of the input is loaded once; nodes agree who is who; what is
written to a stream or cut in slices is read or put together unchanged; sums
that workers take over a table are the sums; no work is lost that is passed on.
`PROJECT.json` lists each hazard at its line with the properties that answer it.

## 2. Modules

| module | models |
|---|---|
| `ProgressTracker` | `server/progress_tracker.cpp`, as operators on a record |
| `Table` | worker side of a table, helper thread, transport, and what the servers of all models share: tracker, storage, work and reply queue |
| `SSPTable` | `SSPModel` with its `PendingBuffer` |
| `BSPTable` | `BSPModel` with its two buffers and the CHECKs that abort |
| `ASPTable` | `ASPModel` |
| `SparseSSPTable` | `SparseSSPModel` with both recorders, and `SparseKVClientTable` |
| `BoundedStaleness`, `BulkSynchrony` | abstract: what the models promise their users, without servers or messages |
| `TableProofs` | lemmas about tables under any model: channels, trackers, clocks |
| `SSPTableProofs` | theorems about `SSPTable`, and about `ASPTable` as one of them |
| `BSPTableProofs` | theorems about `BSPTable` |
| `GradientProofs` | theorems about the training loop of `GradientLoop` |
| `Mailbox` | what the mailboxes of `comm/` and `comm2/` share: sockets, data, main and receiver thread |
| `CountBarrier`, `VersionBarrier` | the barriers of `comm/` and of `comm2/` |
| `Rendezvous` | abstract: what a barrier is |
| `Channel` | `Channel` and `LocalChannel` on top of `VersionBarrier`, with their construction and destruction |
| `MailboxProofs` | lemmas about the sockets: what a receiver has heard of the rounds of a sender |
| `CountBarrierProofs`, `ChannelProofs` | theorems about the barrier of `comm/`; about that of `comm2/` and the channel over it |
| `Framing` | how a message crosses a socket in frames |
| `Engine` | the life of an application: tasks, resets of the servers, Barriers, `StopEverything`, with the Sender and the sockets |
| `EngineProofs` | theorems about `Engine` |
| `Startup` | flags, node file, `StartEverything`, `CreateTable`, up to the first answer |
| `Allocation` | `Engine::Run` as far as it gives ids to threads and queues to ids |
| `AppBlocker` | a Get on its node: `Slice`, `AppBlocker` and the helper thread by the steps of the lock, the answers put together; and the Get of `SimpleKVTable` |
| `BinStream` | streams and the codecs of the types that are written to them |
| `HDFSLoading` | the load threads, their `Coordinator`s and the block assigner, and how a block is cut into lines |
| `TableProgram` | what a program on a table adds to `BoundedStaleness`: amounts and sums |
| `GBDT`, `GBDTTraining` | the computations and the training of boosted trees |
| `DataExchange` | how the nodes even out their records over a channel, and add up errors |
| `KMeans`, `KMeansSeeds` | the training loop of k-means on two tables; its first centres |
| `GradientLoop`, `Learning` | logistic regression with shared `deltas`; batches and gradients of the linear models |
| `Reassignment` | rapid reassignment of work between workers |
| `MC*` | constants for TLC |

`ProgressTracker` is extended by `Table`, and that by each table module;
`Mailbox` is extended by both barriers, `VersionBarrier` by `Channel`,
`SSPTable` by `GradientLoop`,
`BoundedStaleness` by `TableProgram`, and that by `GBDTTraining`; `KMeans` has
two instances of it. The other modules stand alone.

`MCTables`, `MCBarriers`, `MCPrograms` and `MCComputations` check several modules
in one run. A variable (`kind`, `version`, `program`, `part`) is chosen in the
initial state and tells which module the behaviour belongs to; variables that
this module does not have stay 0 or as they were. The behaviours of the modules
are what they would be in runs of their own.

### Workers and servers

State and code: `clock` is how often a worker called `Clock()`; `tracker` is
`AppBlocker::tracker_`; `recv_kvs` is `KVTableBox::recv_kvs_`;
`progress_tracker`, `storage`, `buffer`, `get_buffer` and `add_buffer` are the
members of the models; `toServer` and `toWorker` hold everything that is in
`Sender`, in a mailbox, in a work queue or in a reply queue. `issued`, `want`
and `vals` are history: the Adds called, and the question and the answer of
this iteration's Get.

Actions: `ClientGet`, `ClientAdd`, `ClientClock` are the table's operations;
`ServerClock`, `ServerAdd`, `ServerGet` are the handlers of the model that
`ServerThread::Main` calls, each with the whole of its effects (the Gets that a
Clock releases are answered in the same step); `HelperResponse` is one turn of
`WorkerHelperThread::Main`, with `AppBlocker::AddResponse`, `HandleMsg` and, for
the last answer, `HandleFinish`.

Abstractions:

* *Values by provenance.* Storage only adds, so the value of a key is modelled
  as the set of Adds (worker, iteration, key) summed into it. Two values are
  told apart exactly when their Adds differ.
* *One FIFO per pair of worker and server.* `Sender` is one queue per node, a
  socket keeps its order, a work queue too: the order between two pairs is not
  kept in general, and the model keeps none.
* *A call that pushes one message per server is one step*: a channel on which a
  message has not been noticed yet is a slow channel.
* *`AddResponse` is one step*: a node has one helper thread, and the worker
  whose answer it counts is blocked until the counting is done. `AppBlocker`
  has its steps under the lock and outside it.
* *One Get and one Add per worker and iteration at most*, as in
  `kv_client_table.hpp:11`; either may be left out, and they may come in either
  order.
* *A vector of parked requests is a set*: its members are requests of different
  workers, answered on different channels.
* The initial state is the one after `Engine::InitTable` and the Barrier behind
  it: every server has a fresh tracker of all workers.

### Sparse tables

A `SparseKVClientTable` is given the keys of all its Gets beforehand, and sends
each Get `speculation` iterations ahead. It has another protocol than the other
tables (the Clock is inside Get, Gets and Adds carry a version), so
`SparseSSPTable` has workers of its own, with values, channels and helper thread
modelled as above. A run chooses a `task` at the start: the parameters of the
table, the owners of its keys, and the keys of each worker's Gets; and which of
the two recorders the servers have.

`get_count`, `add_count` and `tracker` are the worker's, `buffer` is
`SparseSSPModel::buffer_`, `recorder` has the members of a recorder. `Slot` is
where they differ: a version has its own place in the map, or one of `ring_size`
places in the vector, and only the map forgets a version when the minimum has
passed it. `ServerClock` is the whole of `SparseSSPModel::Clock`: the record of
the Get that ended is removed and what waited for it judged again
(`EndOfGet`), then the worker's own next Get (`OwnGet`), then the Gets that were
too fast (`TooFastGets`), then the Clocks that were (`Replay`). Keys in a message
are in ascending order, and an Add is of the keys of its Get, as the conflicts
presume.

### Barriers

`pc` is where the main thread of a node is (`checking` stands before the test
of the condition in `barrier_cond_.wait`, `waiting` is blocked there),
`this_count`, `next_count`, `barrier_count` and `left` (`progress_`) are the
members of `Mailbox`, `wire` the sockets. Data may be sent by other threads at
any time, a blocked thread may wake up for no reason, `notify_one` reaches the
thread only when it is blocked. `Stop` is a last Barrier followed by a `kExit`
on the own socket. Messages of a Barrier are sent in one step, as above.

### Channels

`Channel` adds the application threads to `VersionBarrier`. `place` is where a
thread is in `SyncAndGet`, which is a `Wait`, the popping of its queue, and
another `Wait`; `m_count` and `m_generation` are the members of `LocalChannel`.
The last local thread of a generation calls `Barrier` with `mu_` held (`lock`),
and that Barrier is the one of the node's mailbox, step by step. The main thread
constructs the channel (its queues are registered, then a Barrier), joins the
threads, stops the mailbox and destroys the channel. `GetChannelThreads` and
`ReleaseChannelThreads`, which the examples call on the id mapper, are declared
nowhere in the repository; the thread ids are given instead.

### Engine

`Engine` follows the main thread of each node through `Engine::Run`, the
application's Barrier between two tasks (as in `examples2/kmeans`) and
`StopEverything`, next to a worker, Sender, receiver and server thread per
node. Here the transport is in detail: `send_queue` is the queue of the Sender,
`wire` the sockets, `work_queue` the queue of the server, and Barrier and
`kExit` go to the sockets directly. A task is what its workers call on the
table, one of the sequences in `Lambdas`. The servers run `SSPModel`, with the
whole of its handlers and the abort of `CheckThreadValid`. The barrier is that of
`comm/` without its condition variable, which `CountBarrier` has; the helper
thread counts an answer in the step that receives it; the end of all threads is
tracked in `running`.

### Loading from HDFS

`HDFSLoading` has the load threads of `HDFSManager::Run`: `AskMaster` takes
`coord_lock` and sends the question, `ReceiveBlock` or `ReceiveNoBlock` takes the
answer and gives the lock back, `NotifyMaster` ends the thread. The master's loop
is `handle_block_request`, which browses the directory when it has no entry for
it, and `handle_exit`. `files_locality` is the entry of the one URL that is
loaded, `rejected` its count in `finish_multi_dict_`. Which replica comes first
in a hash table is left open. `num_workers_alive` has any value until the first
question sets it, as the member is not initialised.

HDFS itself is given: the files and where their blocks are is chosen at the
start, a file opens, and a read gives what there is, up to `ChunkSize` bytes.

A record is a range of a file. Operators compute the records that one thread
makes of one block, with its reads behind the block; the thread does this alone,
so `ReceiveBlock` does it in one step. A call of `next` that comes to the end of
a file asks for another block in its middle, and reads that block's first byte
without the test at the top (`inside`). `loaded` is history, the bag of the
records all threads were given; empty records are left out.

### Starting and allocating

`Startup` follows every process from its flags and its own reading of the node
file through `CreateIdMapper`, `StartServerThreads`, `StartWorkerHelperThreads`,
`StartMailbox`, `CreateTable`, a Barrier and `InitTable` to the first sparse Gets
(as in `examples/sparse_ssp_example.cpp`). `node_queues` are the queues registered
with the mailbox and `models` the tables of the servers; a failed CHECK leaves a
process `"gone"`. `Allocation` has the ids that `Engine::Run` gives to workers, on
every node from that node's copy of the mapper, with `InitTable` taking an id
more on the own node between two tasks.

### Inside a Get

`AppBlocker` cuts keys at the `ends` of ranges (`Slices`), and puts the answers,
which come in any order, together by their first keys (`Assembled`), under the
CHECKs of `HandleFinish` (`Whole`). Two threads interleave their calls on one set of
keys each; one thread alone runs through all sets of keys up to 4, on four sets of
ranges, keys beyond them among these. A section under `mu_` is one step, but for the registration of a handle, where the map is half made
between `BeginRegister` and its end; `AddResponse` is the decision that an answer
is the last one, `HandleMsg`, `HandleFinish` and the counting, of which only the
first and the last hold the lock. A `SimpleKVTable` has no handles: its thread
takes the answers off a queue of its own (`SimpleReceive`).

### Messages and streams

`Framing` has two nodes whose threads send messages with no, one or two pieces of
data to one receiver, the frames on a socket one by one: a thread sends all
frames of a message under `mu_`, and the receiver tells frames apart by their
place. `BinStream` has a codec per type, by tokens: a token is the bytes of one
value of fixed size. A hash table is written in the order of its buckets.

### Example programs

The table programs stand on the abstract promise of their table, which
`ssp_safety` shows `SSPTable` to keep: `TableProgram` gives each Add of
`BoundedStaleness` amounts, and a Get their sum, so a program is checked against
everything that any SSP table may answer.

* *Boosted trees.* `GBDT` has the computations (sketch, candidates, gradients and
  hessians, gain, prediction) with floats as whole multiples of `1 / Scale`;
  `GBDTTraining` the steps of `GBDTTree` and `GBDTController`: push, clock, pull,
  take the own amounts out again, dummy pull, next node. `Revised` tells the
  program of `examples2/` from the first version in `examples/`. `DataExchange`
  has the supersteps of `channel_util.hpp` on a channel that keeps `SyncExact`.
* *k-means.* `KMeans` has the two tables and the order of their calls; which
  centre is nearest is left open. `KMeansSeeds` has the three ways to the first
  centres with `rand()` free; where kmeans|| reads past the end of `X` (after it
  erased from it while counting), the outcome is `undefined`.
* *Logistic regression.* `GradientLoop` runs on `SSPTable` itself, since its point
  is what messages contain: `deltas` is one block of memory that every Add points
  into and the next iteration writes to. `memory` is what is in the block now,
  `pushed` what it held at the call, `altered` (history) where a server applied
  something else. `Learning` has batches, their keys and gradients.
* *Rapid reassignment.* `Reassignment` has both threads of a worker, the stores
  to the shared `JobMeta` one by one (between the two of `UpdateStartPt` a
  mini-batch has its new start and still the old `current_pt`), the status box, and the five kinds of messages.
  `unprocessed` counts the points of the mini-batches that were begun and not
  processed; `mishaps` (history) says what went wrong where.

## 3. Runs

| run | bounds | shows |
|---|---|---|
| `ssp_safety` | 2 workers, 2 servers with one key each, clocks 0 to 2, staleness 1, Gets of both keys or of one, Adds of both; symmetry in workers | answers are fresh enough and hold own Adds, no Get is parked wrongly, trackers are exact, channels tell the time, slices are complete, `BoundedStaleness` is implemented |
| `tables` | 2 workers, 2 servers with one key each; BSP with 2 iterations, SSP (staleness 0) and ASP with one and a last Get, whose Gets may leave a server out | no CHECK fails; BSP implements `BulkSynchrony`; ASP gives own Adds, and no others than were called; every Get returns on each |
| `bsp_optional_get` | the same, Gets left out | *violation*: the next Add meets CHECK(false) |
| `sparse_ssp` | 5 tasks, each with map and ring: 2 or 3 workers, 1 or 2 servers, 3 keys, 3 to 5 iterations, staleness 0 or 1, speculation 1 or 2 | no CHECK fails, no Get is lost, answers are fresh although given early |
| `sparse_ssp_early` | 2 workers, 1 server | *violation*: an early answer misses the Adds of a worker whose first Gets are late |
| `barriers` | both versions: 3 nodes, 3 barriers, 1 data message; symmetry in nodes | is a barrier, wakes every sleeper, `Stop` loses nothing; `comm2/`: no CHECK fails, Barrier flushes |
| `channel` | 2 nodes with 2 threads and 1, 2 calls of SyncAndGet per thread, 2 messages pushed, 6 barriers | a SyncAndGet returns what was pushed in the superstep before it, no queue is missing, all nodes stop |
| `engine_tasks` | 2 nodes, 2 tasks: Add, Clock, Get, then Add, Get; staleness 0 | no CHECK fails, the second task reads the Adds of the first, `StopEverything` returns on all nodes with every Add applied |
| `engine_late_clock` | 2 nodes, a task of Add and Clock, then one of a Get | *violation*: the Clock arrives after the reset and `CHECK(CheckThreadValid)` aborts |
| `hdfs_loading` | 2 processes with 2 threads, 3 hosts, a file of 4 or 5 bytes and one of a byte, blocks of 2 bytes, reads of one | every line is loaded once, the master stops when all is loaded, loading ends |
| `example_programs` | see below | sums over the tables are the sums, boosting does not make the error larger, nobody is left behind; records are passed on once; the tables of k-means are in step; shared `deltas` are altered only where no Get asked; no work is lost in reassignment, and who is stuck has a reason |
| `computations` | see below | nodes agree on ids, ranges and queues; slices are put back and every Get of an AppBlocker has its own answers; streams and messages are read as written; gradients and seeds are right |

Bounds of `example_programs`: training with 2 nodes of one worker, 1 or 2 records
on a node, 2 features, 2 ranks of 2 sketch bins, depth 1, 2 trees (the first
version: 1 tree); exchange of 3 to 5 records among 3 nodes, every distribution
with empty nodes too; k-means with 2 workers, 2 clusters, 2 iterations;
regression with 2 workers, 2 servers, 2 iterations, staleness 1, and batches
with keys of one server or both; reassignment between 2 nodes of one worker,
groups over nodes or within one, mini-batches of 4 points from point 6,
2 iterations, threshold 2.

Bounds of `computations`: ids on 2 nodes over 2 tasks with 0 to 3 workers on a
node, up to 2 tables initialised before them; starts of 2 processes with one
good and six bad node files and flags in and beyond their limits; Gets of any of
5 keys over 2 or 3 ranges, empty ones and ends on keys among them; two app
threads with 2 and 3 Gets over one or two tables and two servers; messages
of two threads on each of two nodes; streams of up to 6 tokens of the seven
types; data sets of 3 records in batches of 2; 2 to 4 points for 3 seeds.

Why the bounds are enough. Two workers are the smallest number with a slow and
a fast one, and two servers the smallest with different views; staleness 1 with
clocks 0 to 2 lets the fast worker Get inside its window, be parked at its edge
and be released by a Clock of the slow one that crosses its other messages. A
third worker adds nothing that the theorems of section 4 do not cover for every
number. For the barriers, three nodes are the fewest where the message of a
fast node can stand in for that of a slow one while a third looks on, and three
rounds the fewest with a previous and a next one. A channel has a node where the
last local thread leaves another one asleep and a node where it is alone; two
supersteps are one to be overtaken and one to overtake it. For loading, a file of
three blocks has one with neighbours on both sides, and its newlines end a block,
begin one, are next to each other or are missing; two threads share a socket
and two processes the master; the two placements have blocks with several
replicas, and ones at a host without a process. For the engine, two nodes are
enough for a message that one node sends and the other one is not ready for,
and two tasks for a reset between them. The tasks of a sparse table are chosen
for what they lead to: `LongTask` takes the ring round (versions 0 to 5 in five
slots), `PartialTask` has Clocks that are buffered and replayed, in `WideTask` a
Get has to wait for one worker and then for another, `StaleTask` has a window of
two versions, `AheadTask` two Gets sent ahead. In training, two trees of three
nodes reuse the keys of the table five times, and the data have a node whose
records all go one way; in the exchange three nodes are the fewest where one
gives to two or takes from two. In reassignment each of the two workers can be
the slow one, in turn, and as mini-batches start at point 6, the first one can be
seen with its current point, 0, before its start. Symmetry is used in safety
runs only.

Fairness. Server, helper and receiver threads loop on their queues for ever, so
each of their actions is weakly fair. In `tables` the lambdas of a BSP and of an
SSP table go on to their last Clock; nothing is assumed of the workers of an ASP
table, who may stop anywhere. In `channel` every main thread, receiver and
application thread that can go on does; nobody has to push a message, and
nobody is woken for nothing. The main thread of a node is assumed to go on in
Barrier. Load threads run to their end, and the master's socket takes
messages from every process in turn. Runs with deadlock checked allow only the
end of the task, or an abort, as a stop. For the barriers this says that every
call of Barrier can return, and a conjunct of `BarriersSound` that it does not
need luck; for sparse tables `GetsReturn` says it state by state, as every step
there brings the task nearer to its end. In the engine runs the system stops
for good at the end or on an abort, and `EveryNodeStops` takes the place of the
deadlock check. Rapid reassignment really can get stuck, and `StuckForAReason`
takes the place of the deadlock check for it: it names the ways.

Three disagreements of the code with its documentation, tests or own assertions
came up and are recorded as findings:

* `BSPModel::Add` rejects a worker that skipped its Get, which
  `kv_client_table.hpp:11` calls optional;
* a task that ends with a Clock, as `init_task` in `examples2/kmeans`, may abort
  the next one;
* a sparse table breaks its staleness bound at the start of a task. A Get
  beyond the bound is answered if no other Get conflicts with it, and the server
  cannot know of the Gets of a worker that has not started. Once the minimum has
  moved it does know: each worker sends its next Gets before the Clock that
  moves the minimum. `AnswersFreshOnceKnown` has exactly this condition,
  `AnswersFresh` of `sparse_ssp_early` is without it.

Other limits met on the way, first of the system itself. Gets on a BSP table have
to involve all servers, or a worker runs two Clocks ahead on one and CHECK_LE
aborts (known to the authors, `bsp_model.hpp:16`), so the BSP tables of `tables`
have Gets of all keys only. On a sparse table a worker may leave a server out of
a Get, but twice in a row its Clocks can come too early by two
(`sparse_ssp_model.cpp:20`), so `PartialTask` alternates. And a speculation of 0
leaves every worker waiting in its second Get; `SparseSSPAssumption` excludes it.

The tasks of `engine_tasks` end with a Get for the reason of the second finding:
its answers tell a worker that each server has handled all it sent before.
Without that Get no Barrier helps, as it overtakes the Sender's queue. The same
discipline saves `StopEverything`, which stops the mailbox before the Sender,
against `engine.hpp:57-61`: what is then still in the queue is lost.

What `barriers` shows besides: the barrier of `comm/` mixes up rounds, and
a Barrier may return with older messages still under way. It is a barrier all
the same, as a count can only be reached once all have called; and the last one
before `Stop` drains the sockets, since then all messages of all rounds have
been counted. That a Barrier flushes is true of `comm2/` only.

`hdfs_loading` holds with two exceptions that its properties name. A block
without a newline behind the first one of its file, such as the end of a file
whose last line is not ended, is loaded once more as a line of its own ("what if
not found", `lineinput.hpp:72`): the lines of `LoadingSound` allow exactly these
fragments. And a file of a single byte may be missed, as its first byte is taken
for a last one (`lineinput.hpp:48`), except when `next` comes to it in its middle.

`AppBlocker` looks up handles without its lock. What is registered by another
thread for the first time meanwhile moves the map under its eyes: `raced` says so,
and the process may end on an empty handle. `GetsAnswered` is about the rest.
`Startup` has two excuses: a sparse table without a recorder is refused by
`CreateTable` only, and `logistic_regression` makes as many ranges as a flag says
but does not tell `StartEverything` of it.

Of the examples:

* In the first version of the boosted trees, which has no dummy pull, a worker
  may read the sums of a node before the others have taken theirs out; TLC
  refutes `AllReduceExact` for it, and only that it ends is part of the run. (Its
  main program never runs the task, the call is a comment.)
* The candidates of a feature are searched upwards from the previous one; with
  three ranks or more this may leave the sketch (`gbdt_tree.cpp:380`), so
  `GBDTAssumption` has two. Errors of all workers of a process are added without a
  lock (`gbdt_example_hdfs.cpp:260`); the model has one worker per process there.
* In `kmeans_helper.hpp`, the distance of two points overwrites a feature of the
  first one with that of the second instead of subtracting it (16), a row is
  indexed beyond its end if there are more clusters than dimensions (40), and
  `random_init` seeds with the time before every draw (28), so each centre takes it
  a second, and with fewer records than clusters it never ends.
* The intercept's gradient of the SVM is not divided by the size of the batch
  (`objectives.hpp:205-214`), and the losses weigh intercept and regularisation
  differently from the gradients (161, 240); `GradientsRight` states what the
  gradients are, `GradientsDescend` what is true of them all the same.
  `SGDOptimizer::train` never calls Clock and never zeroes its deltas
  (`optimizers.hpp:58`, 68).
* A worker of the reassignment spins for ever when it asked one that had not
  started or has left, when it is released before it waits, or when its points
  have passed an end that was moved (`==` in `job_manager_rr.cpp:35`).

Floats are exact in the models; rounding, logarithms and square roots are left
out. A `Send` that fails in the middle of a message would leave its frames
unfinished on the socket (`comm2/mailbox.cpp:215`), and `zmq_msg_more` is asked of
a message that was closed (`comm/mailbox.cpp:244-245`): `Framing` has sends that
succeed, and the frame's own flag.

## 4. Proofs

Proved for every finite set of workers, servers, keys or nodes, and for every
number of iterations, barriers and messages:

| module | theorem | says |
|---|---|---|
| `SSPTableProofs` | `TypeCorrect`, `MinClockIsExact`, `ChannelsAlwaysTellTime`, `NoGetIsStranded`, `AnswersAlwaysFresh`, `AnswersAlwaysHoldOwnAdds`, `SlicesAlwaysComplete` | the properties `TypeOK`, `MinClockExact`, `ChannelsTellTime`, `NoStrandedGet`, `AnswersFreshEnough`, `AnswersHoldOwnAdds`, `SlicesComplete` of `ssp_safety` |
| | `PromiseKept` | `SSPTable` implements `BoundedStaleness` |
| | `InvariantHolds` | `IInv` of `SSPTable`, the inductive invariant |
| | `ASPTableIsSSPTable`, `ASPPromiseKept` | an `ASPTable` is an `SSPTable` that cannot exceed its staleness, and implements `BoundedStaleness` without a bound |
| `BSPTableProofs` | `BSPTypeCorrect` | types, whatever the lambda asks for |
| | `BSPNoCheckFails` | `TablesSound`: no CHECK of `BSPModel` fails |
| | `BSPAnswersAreExact`, `BSPPromiseKept` | every answer is the table between two iterations; `BSPTable` implements `BulkSynchrony` |
| | `BSPInvariantHolds` | `IInv` of `BSPTable` |
| `GradientProofs` | `GradientLoopRunsTable`, `GradientsFromFreshAnswers` | the training loop is a use of `SSPTable`, so its gradients are from answers within the window |
| | `AlteredOnlyWhenUnasked` | `AlteredOnlyUnasked`: writing `deltas` again alters only what no Get asked for |
| `CountBarrierProofs` | `CountBarrierTypeOK`, `CountBarrierNoLostWakeup`, `CountBarrierStopLosesNothing`, `CountBarrierIsBarrier` | `barriers` for `comm/`; `CountBarrier` implements `Rendezvous` |
| `ChannelProofs` | `VersionBarrierTypeOK`, `VersionBarrierNoCheckFails`, `VersionBarrierNoLostWakeup`, `VersionBarrierFlushes`, `VersionBarrierStopLosesNothing`, `VersionBarrierIsBarrier` | `barriers` for `comm2/` |
| | `ChannelNoCheckFails`, `ChannelSyncExact`, `ChannelIsBarrier` | `channel`: what was pushed in a superstep, and nothing else, is returned by the next `SyncAndGet` |
| `EngineProofs` | `EngineTasksSound`, `EngineVisible`, `EngineStops` | `TasksSound`, `EarlierTasksVisible`, `StopLosesNothing` of `engine_tasks` |
| | `EngineInvariant` | `IInv` of `Engine`, the inductive invariant |

Assumptions are those of the modules (`TableAssumption`, `StalenessAssumption`,
`MailboxAssumption`, `ChannelAssumption`, ...), with four hypotheses that stand in the theorems
themselves. `EveryGetAsksAll`: the lambda Gets in every iteration, from every
server, before it Adds. All of `BSPTableProofs` but the types needs it, since
without it a CHECK fails (`bsp_optional_get`, `bsp_model.hpp:16`); the run `tables`
has it. `LambdasEndWithGet`: the calls of a worker end with a
Get, if it calls at all, as those of the lambdas do that `engine_tasks` has. All of `EngineProofs`
needs it: what the initialisation of `examples2/kmeans` leaves behind aborts a node
(`engine_late_clock`). `BatchesAssumption`: a batch has finitely many
keys, which may be asked for and added to, and the last Get may ask for all keys. And `Staleness = MaxClock` with a buffer that stays empty, where an
`ASPTable`, which has neither, is seen as an `SSPTable`.

### Tables

None of the properties is inductive alone. The table modules end with the
strengthening, and the proofs build it in layers, each of which is closed under
`Next` given the ones before. `TableProofs` has what does not depend on the model.

* `ClockInv`: types, `MinClockExact`, `ChannelsTellTime`. The clock that a
  server has counted plus the Clocks under way is the clock of the worker. It
  bounds the clocks of the server, and with it the types.
* `AddInv`: servers are sent their own keys only; an Add that was called is
  applied, put aside or under way, and nothing else is.
* `GetInv`: where a Get can be. At each server it is under way, parked or
  answered, in one of these places at a time, and the last message of its
  worker; `AppBlocker` counts the servers where it still is; a parked Get waits
  for the minimum its worker's clock calls for.
* `AnswersInv`: an answer under way or collected holds all it has to and nothing
  that was not called, and the slices collected and outstanding are the Get.

The argument for freshness under SSP: a server answers when its minimum is within
`Staleness` of the asking worker's clock. By `MinClockExact` every worker's
progress there is at least that minimum, so by `ChannelsTellTime` every Add
still on its way is of an iteration at or after it, and by `AddInv` every older
one is applied. The answer stays good while it travels because its worker is
blocked, so its clock stands still. For the refinement the slices of one Get,
though answered at different moments, are added up: each holds what is owed for
its keys, and together they have all keys.

BSP has another layer between `GetInv` and `AddInv`, `PaceInv`: a worker is at most one
iteration ahead of the minimum of every server, not ahead at all once the server
has answered this iteration's Get, and its Adds and Clocks are of an iteration that
the server has begun (`Together`). That is what the three CHECKs test, so they
hold (`ChecksHold`), and it says that what is in `storage` is of the iterations
before the server's minimum and what is in `add_buffer` of the one that runs
(`AddsDated`). An answer is then given from a storage that holds exactly the
iterations before its worker's, and stays exact: nobody can Add to an earlier
iteration any more, as all have come to this one (`Reached`). An `ASPTable`
takes the theorems of an `SSPTable` over by a refinement of its own.

`GradientProofs` adds to a table's messages the memory they point into. The loop
Gets, trains, Adds and Clocks; between the Add of one iteration and the writes of
the next lies a Get, and a server that was asked has taken the Add off its channel
before it could answer. `LoopInv` dates blocks of memory and messages for this.

### Barriers and channels

`MailboxProofs` dates the messages on each socket by the Barrier of their sender:
they are in order, so the first one tells how many calls the receiver has `Heard`
of. What a receiver counts is then a cardinality. In `comm2/` `this_count` and
`next_count` are the numbers of nodes heard of once and twice more than this node
has left Barriers (`Counted`); as a node's own message is among them, the second
cannot be complete before the first. In `comm/` a count may be of messages of
different rounds: `CallsCounted` says only that `barrier_count` and the calls used
up so far are together the calls heard of. A Barrier returns when as many calls
were heard of as `left + 1` rounds have, and since no node is two calls ahead of
another (`NobodyAhead`) this is possible in one way, with every node having called.
`StopLosesNothing` follows in both: a receiver that exits has heard of every call,
and a socket is in order.

`ChannelProofs` dates everything in `Channel` by the number of Waits: how many a
thread has passed (`done`), how many its node has begun, how many Barriers the
node's mailbox is in. Two Waits make a superstep; what a thread pushes in one is
on the socket before its node's next Barrier, so, as that Barrier flushes, in the
queue of the receiving thread before the Wait returns there; and nothing of the
next superstep is pushed before all have popped, as a second Wait lies between.

### Engine

`EngineProofs` follows the messages of one worker to one server. They pass the
Sender's queue, a socket and the server's queue; `Asked` counts those of a kind on
this way, `Answered` the answers on the way back. Two lemmas (`ForwardConserves`,
`DeliverConserves`) say that the Sender and the receiver change neither, so that only
the calls of the worker and the turns of the server are left. `IInv` has these parts:

* `FlowInv`: a Get is the last message on the way from its worker to a server
  (`GetIsLast`), at most one is outstanding, on the way, parked or answered, and only
  while its worker is at work (`AsksOrders`). `PendingInv`: `pending` is the number
  of servers with one. With `TodoEndsWithGet` a worker that ends has no Get
  outstanding and none of its requests is on its way, since the last one would be
  a Get (`NothingAsked`).
* `BarrierInv`: `barrier_count` is the number of Barriers heard of less those
  used up, and no node is two ahead, as in `CountBarrierProofs`. The calls are told
  by task and place (`Begun`, `Over`): while a node works on a task, no other
  is before its start or past its end (`WorkingTogether`).
* `ResetInv`: as long as the node waits for it, one reset of its worker, or the
  answer to it, is on its way; from then on the tracker is that of the workers of
  the task. So a server that takes a request has a tracker with its sender
  (`RequestValid`): the sender is at work, so this node has been reset, and has
  not begun the next task.
* `StorageInv`: an Add that was called is in the storage or on its way.

`EngineTasksSound` is `FlowInv`, `BarrierInv` and `ResetInv` together.
`EngineVisible`: when a server answers a worker, the earlier tasks are over, so
nothing of them is on its way, and by `StorageInv` their Adds are there; answers keep
what they hold (`SeenInv`). `EngineStops` follows in the same way from the last
Barrier: a message that a node's threads could miss is of a worker at work, and there is none.
TLC finds `IInv` true in all states of `engine_tasks` as well, with the types that it cannot
enumerate (trackers, buffers) taken element by element.

### What is only model-checked

Liveness under fairness and statements with ENABLED (`GetReturns`, `AllEnd`,
`EveryNodeStops`, `LoadingEnds`, `StuckForAReason`) are out of the prover's reach.
What a recursive definition or a sum computes for every input (the codecs of
`BinStream`, slices put together, lines of a block, sums over a table in `GBDTTraining`) needs
induction over data, which the prover cannot do. `SparseSSPTable`, `HDFSLoading`,
`Reassignment`, `GBDTTraining`, `DataExchange`, `KMeans` and the modules of
`MCComputations` are model-checked only.

## 5. Not modelled, and what is left

Left out for good: the sockets' set-up, errors of libhdfs and lost connections
(the code aborts or goes on with garbage), timers, the wording of logs; the parsers
of text lines, the timing and demonstration programs of `examples2/`, the scripts,
and the copies that `examples/` has of programs in `examples2/`.

Left for later, in this order:

1. *Several tasks on a BSP or a sparse table*: `ResetWorker` starts the tracker
   anew and leaves buffers, and a recorder with the Gets that were sent ahead and
   never made. `Engine` has the reset of `SSPModel` only.
2. *Proofs* about sparse tables: that a server knows the Gets of every worker as
   far ahead as it looks, and freshness from it.
3. *Loading* of several directories at a time, and the prefetcher of the
   reassignment example.
