-------------------------------- MODULE Table ----------------------------------
(***************************************************************************)
(* A table, but for its consistency model: the worker side, the transport,  *)
(* and what the server threads of every model have in common.  SSPTable,    *)
(* BSPTable and ASPTable extend it with the handlers of their models.       *)
(*                                                                         *)
(* Data is abstracted to its provenance.  Val only supports addition, so    *)
(* the content of an Add is the record of who issued it, in which           *)
(* iteration, on which key; the value of a key is the set of Adds summed    *)
(* into it.                                                                *)
(*                                                                         *)
(* send_queue -> Sender -> Mailbox -> work_queue keeps the order of what    *)
(* one thread sends to one other thread and no more, so the transport is    *)
(* one FIFO per pair.  A call that pushes one message per server is one     *)
(* step: the moments between its pushes look like slow channels.           *)
(***************************************************************************)
EXTENDS ProgressTracker, Sequences, FiniteSets

CONSTANTS
    Workers,    \* app threads that use the table
    Servers,    \* server threads that hold a part of it
    Keys,       \* keys of the table
    Owner,      \* the server of each key (AbstractPartitionManager::Slice)
    GetKeys,    \* the key sets the lambda's Gets ask for
    AddKeys,    \* the key sets its Adds update
    MaxClock    \* bound: a worker runs iterations 0 .. MaxClock - 1

ASSUME TableAssumption ==
    /\ Workers # {}
    /\ IsFiniteSet(Servers)
    /\ Owner \in [Keys -> Servers]
    /\ GetKeys \subseteq SUBSET Keys /\ {} \notin GetKeys
    /\ AddKeys \subseteq SUBSET Keys /\ {} \notin AddKeys
    /\ MaxClock \in Nat

VARIABLES
    clock,      \* worker -> how often it called Clock()
    issued,     \* history: every Add that a worker called
    want,       \* worker -> keys of this iteration's Get, {} before it
    tracker,    \* worker -> AppBlocker::tracker_, expected and received answers
    recv_kvs,   \* worker -> KVTableBox::recv_kvs_, answers of the running Get
    vals,       \* worker -> what this iteration's Get returned
    toServer,   \* worker -> server -> requests under way
    toWorker    \* server -> worker -> answers under way

clientVars == <<clock, issued, want, tracker, recv_kvs, vals>>
kvVars == <<clientVars, toServer, toWorker>>

-----------------------------------------------------------------------------
Clocks == 0 .. MaxClock

\* One Add of one worker on one key: the unit of what a value consists of.
Increment == [worker : Workers, iter : Clocks, key : Keys]

\* A request on its way.  iter is history: no message carries the clock of its
\* sender, the server infers it from the Clock messages it has counted.
Request == [flag : {"kGet", "kAdd", "kClock"}, keys : SUBSET Keys, iter : Clocks]

\* What AbstractStorage::Get answers: the slice's keys and their values.
Answer == [keys : SUBSET Keys, adds : SUBSET Increment]

\* Slice: the servers that get a message, and the keys each one gets.
Involved(K) == {Owner[k] : k \in K}
SliceOf(K, s) == {k \in K : Owner[k] = s}

Waiting(w) == tracker[w].expected # tracker[w].current

KVInit ==
    /\ clock = [w \in Workers |-> 0]
    /\ issued = {}
    /\ want = [w \in Workers |-> {}]
    /\ tracker = [w \in Workers |-> [expected |-> 0, current |-> 0]]
    /\ recv_kvs = [w \in Workers |-> {}]
    /\ vals = [w \in Workers |-> {}]
    /\ toServer = [w \in Workers |-> [s \in Servers |-> <<>>]]
    /\ toWorker = [s \in Servers |-> [w \in Workers |-> <<>>]]

-----------------------------------------------------------------------------
\* KVTableBox::Send: worker w pushes its slice of K to every involved server.
SendUnordered(w, flag, K) ==  \* mutant of Send: overtakes what is under way
    toServer' = [toServer EXCEPT ![w] = [s \in Servers |->
        IF s \in Involved(K)
        THEN <<[flag |-> flag, keys |-> SliceOf(K, s), iter |-> clock[w]]>> \o @[s]
        ELSE @[s]]]
Send(w, flag, K) ==
    toServer' = [toServer EXCEPT ![w] = [s \in Servers |->
        IF s \in Involved(K)
        THEN Append(@[s], [flag |-> flag, keys |-> SliceOf(K, s), iter |-> clock[w]])
        ELSE @[s]]]

NumReqsLessOne(K) == Cardinality(Involved(K)) - 1  \* mutant of NumReqs
NumReqs(K) == Cardinality(Involved(K))

\* KVClientTable::Get up to WaitRequest: register the handle, count the slices,
\* send them.  One Get per iteration, between the Clocks or after the last one.
ClientGet(w, K) ==
    /\ ~Waiting(w)
    /\ want[w] = {}
    /\ want' = [want EXCEPT ![w] = K]
    /\ tracker' = [tracker EXCEPT ![w] =
                      [expected |-> NumReqs(K), current |-> 0]]
    /\ Send(w, "kGet", K)
    /\ UNCHANGED <<clock, issued, recv_kvs, vals, toWorker>>

\* KVClientTable::Add, without an answer.  One Add per iteration.
ClientAdd(w, K) ==
    /\ ~Waiting(w)
    /\ clock[w] < MaxClock
    /\ \A a \in issued : a.worker # w \/ a.iter # clock[w]
    /\ issued' = issued \cup {[worker |-> w, iter |-> clock[w], key |-> k] : k \in K}
    /\ Send(w, "kAdd", K)
    /\ UNCHANGED <<clock, want, tracker, recv_kvs, vals, toWorker>>

\* KVClientTable::Clock: every server is told, the caller never waits.
ClockedServersOfGet(w) == Involved(want[w])  \* mutant of ClockedServers
ClockedServers(w) == Servers

ClientClock(w) ==
    /\ ~Waiting(w)
    /\ clock[w] < MaxClock
    /\ clock' = [clock EXCEPT ![w] = @ + 1]
    /\ toServer' = [toServer EXCEPT ![w] = [s \in Servers |->
           IF s \in ClockedServers(w)
           THEN Append(@[s], [flag |-> "kClock", keys |-> {}, iter |-> clock[w]])
           ELSE @[s]]]
    /\ want' = [want EXCEPT ![w] = {}]
    /\ vals' = [vals EXCEPT ![w] = {}]
    /\ UNCHANGED <<issued, tracker, recv_kvs, toWorker>>

\* KVTableBox::HandleMsg keeps an answer; HandleFinish makes the Get's values.
HandleMsg(w, msg) == recv_kvs[w] \cup {msg}
HandleFinish(answers) == UNION {m.adds : m \in answers}

\* WorkerHelperThread::Main, AppBlocker::AddResponse: the last answer runs
\* HandleFinish before it releases the worker, which is blocked until then.
HelperResponse(s, w) ==
    /\ toWorker[s][w] # <<>>
    /\ LET got    == HandleMsg(w, Head(toWorker[s][w]))
           finish == tracker[w].expected = tracker[w].current + 1
       IN  /\ recv_kvs' = [recv_kvs EXCEPT ![w] = IF finish THEN {} ELSE got]
           /\ vals' = [vals EXCEPT ![w] = IF finish THEN HandleFinish(got) ELSE @]
    /\ tracker' = [tracker EXCEPT ![w].current = @ + 1]
    /\ toWorker' = [toWorker EXCEPT ![s][w] = Tail(@)]
    /\ UNCHANGED <<clock, issued, want, toServer>>

\* The worker's lambda has run its last iteration.
Finished(w) == clock[w] = MaxClock /\ ~Waiting(w)

-----------------------------------------------------------------------------
KVTypeOK ==
    /\ clock \in [Workers -> Clocks]
    /\ issued \in SUBSET Increment
    /\ want \in [Workers -> SUBSET Keys]
    /\ tracker \in [Workers -> [expected : Nat, current : Nat]]
    /\ recv_kvs \in [Workers -> SUBSET Answer]
    /\ vals \in [Workers -> SUBSET Increment]
    /\ toServer \in [Workers -> [Servers -> Seq(Request)]]
    /\ toWorker \in [Servers -> [Workers -> Seq(Answer)]]

-----------------------------------------------------------------------------
(* What the server threads of every model have in common (ServerThread::Main *)
(* and the members of SSPModel, BSPModel and ASPModel): one progress tracker  *)
(* and one storage each, a work queue that workers fill, a reply queue to     *)
(* their helpers.  The initial state is the one after Engine::InitTable:      *)
(* every server knows every worker, at clock 0.                             *)

VARIABLES
    progress_tracker,   \* server -> tracker of the workers' clocks
    storage             \* server -> Adds applied

\* A Get that a model has put aside.  Models keep them in vectors; as the
\* requests of one vector are of different workers, who wait on channels of
\* their own, a set of them will do.
Pending == [sender : Workers, keys : SUBSET Keys, iter : Clocks]

Progress(s, w) == progress_tracker[s].progresses[w]
MinClock(s) == progress_tracker[s].min_clock

ServerInit ==
    /\ progress_tracker = [s \in Servers |-> TrackerInit(Workers)]
    /\ storage = [s \in Servers |-> {}]

ServerTypeOK ==
    /\ progress_tracker \in [Servers -> [progresses : [Workers -> Clocks], min_clock : Clocks]]
    /\ storage \in [Servers -> SUBSET Increment]

-----------------------------------------------------------------------------
\* The work queue of server s holds a message of w with this flag next.
Received(s, w, flag) ==
    /\ toServer[w][s] # <<>>
    /\ Head(toServer[w][s]).flag = flag

Dequeue(s, w) == toServer' = [toServer EXCEPT ![w][s] = Tail(@)]

RequestOf(w, msg) == [sender |-> w, keys |-> msg.keys, iter |-> msg.iter]
Increments(w, msg) == {[worker |-> w, iter |-> msg.iter, key |-> k] : k \in msg.keys}

\* AbstractStorage::Get, from a storage that holds adds.
StorageGet(adds, keys) == [keys |-> keys, adds |-> {a \in adds : a.key \in keys}]

\* reply_queue_->Push(storage_->Get(req)) for every request of reqs
Reply(s, adds, reqs) ==
    toWorker' = [toWorker EXCEPT ![s] = [w \in Workers |->
        LET own == {r \in reqs : r.sender = w}
        IN  IF own = {} THEN @[w]
            ELSE Append(@[w], StorageGet(adds, (CHOOSE r \in own : TRUE).keys))]]

\* Nothing is under way.
Quiet == \A s \in Servers, w \in Workers : toServer[w][s] = <<>> /\ toWorker[s][w] = <<>>

-----------------------------------------------------------------------------
(* What holds of clocks and channels under every model                      *)

\* The cached min_clock_ of every server stays the true minimum of the clocks
\* it has counted, although it is only ever moved by one unique slowest worker
\* (ProgressTracker::AdvanceAndGetChangedMinClock).
MinClockExact == \A s \in Servers : MinimumCached(progress_tracker[s])

\* The clock of the sender after message m.
ClockAfter(m) == IF m.flag = "kClock" THEN m.iter + 1 ELSE m.iter

\* Channel q leads from clock p to clock c: each message starts where the one
\* before it ended.
TellsTime(q, p, c) ==
    /\ q = <<>> => p = c
    /\ q # <<>> => q[1].iter = p /\ ClockAfter(q[Len(q)]) = c
    /\ \A i \in 1 .. Len(q) - 1 : q[i + 1].iter = ClockAfter(q[i])
    /\ \A i, j \in 1 .. Len(q) : i < j => ClockAfter(q[i]) <= q[j].iter

\* What is on its way from w to s is the difference between the clock of w and
\* the progress that s has counted for it (ProgressTracker::progresses_).  So
\* a server that takes a Get off its queue has counted exactly as many Clocks
\* as the worker had called.
ChannelsTellTime ==
    \A w \in Workers, s \in Servers :
        TellsTime(toServer[w][s], Progress(s, w), clock[w])

Messages(q) == {q[i] : i \in 1 .. Len(q)}

\* A server is only sent the keys it owns.
SlicesOwned ==
    \A w \in Workers, s \in Servers : \A m \in Messages(toServer[w][s]) :
        \A k \in m.keys : Owner[k] = s

\* Two of the places where a Get of w can be at s; the third is a buffer.
Sent(w, s) == \E m \in Messages(toServer[w][s]) : m.flag = "kGet"
Answered(w, s) == toWorker[s][w] # <<>>
=============================================================================
