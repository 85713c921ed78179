---------------------------- MODULE SparseSSPTable ---------------------------
(***************************************************************************)
(* A table under sparse stale synchronous parallel consistency: workers say  *)
(* ahead of time which keys they will Get (SparseKVClientTable), and a       *)
(* server answers a Get that is beyond the staleness bound already when no   *)
(* Get of the iterations it would have to wait for has one of its keys       *)
(* (SparseSSPModel and the two recorders).                                 *)
(*                                                                         *)
(* The Get of iteration v is sent before the Clock of iteration v - 1 and    *)
(* answered when that Clock has been handled.  Values are sets of Adds and   *)
(* the transport is one FIFO per pair, as in Table.                         *)
(***************************************************************************)
EXTENDS ProgressTracker, Sequences, FiniteSets, SequencesExt

CONSTANTS
    Workers, Servers,
    Keys,             \* a set of numbers
    num_versions,     \* bound: Gets that a worker may send
    Tasks,            \* each has the parameters of the table, the servers of its keys,
                      \* and the keys_ of its workers, with as many Gets that are not
                      \* made at their end as they are sent ahead
    RecorderTypes     \* a set of "Map" and "Vector"

\* A speculation of 0 passes the CHECK of Setup_, but then only the first Get is
\* answered: the Clock that looks for the next one arrives before it.  The
\* application CHECKs for 1 at least (sparse_ssp_example.cpp:88).
ASSUME SparseSSPAssumption ==
    /\ IsFiniteSet(Workers) /\ IsFiniteSet(Servers)
    /\ Keys \subseteq Nat
    /\ \A t \in Tasks :
          /\ t.staleness \in Nat /\ t.speculation \in Nat \ {0}
          /\ t.owner \in [Keys -> Servers]
          /\ DOMAIN t.keys \subseteq Workers /\ DOMAIN t.keys # {}
          /\ \A w \in DOMAIN t.keys :
                /\ Len(t.keys[w]) \in t.speculation + 1 .. num_versions
                /\ \A i \in DOMAIN t.keys[w] : t.keys[w][i] \in SUBSET Keys \ {{}}
    /\ RecorderTypes \subseteq {"Map", "Vector"}

VARIABLES
    task, recorder_type,   \* chosen at the start
    \* worker -> ...
    get_count, add_count,
    tracker,          \* AppBlocker::tracker_
    recv_kvs,         \* the key sets of the answers received
    \* worker -> server -> requests, server -> worker -> answers under way
    toServer, toWorker,
    \* server -> ...
    progress_tracker, storage,
    buffer,           \* SparseSSPModel::buffer_: Clocks that are too fast
    recorder,
    aborted           \* has a CHECK failed?

clientVars == <<task, recorder_type, get_count, add_count, tracker, recv_kvs>>
modelVars == <<progress_tracker, buffer, recorder>>
vars == <<clientVars, toServer, toWorker, modelVars, storage, aborted>>

-----------------------------------------------------------------------------
\* Versions are iterations, counted from 0.
Versions == 0 .. num_versions - 1
staleness_ == task.staleness
speculation_ == task.speculation
Members == DOMAIN task.keys
iters(w) == IF w \in Members THEN Len(task.keys[w]) - speculation_ ELSE 0
KeysOf(w, version) == task.keys[w][version + 1]
iter(w) == get_count[w] - 1

Owner(k) == task.owner[k]
ServersOf(K) == {Owner(k) : k \in K}
SliceOf(K, s) == {k \in K : Owner(k) = s}
Waiting(w) == tracker[w].expected # tracker[w].current

\* VectorSparseSSPRecorder keeps a ring of versions, the other one a map.
tight_ring_size == staleness_ + speculation_ + 1  \* mutant
ring_size == staleness_ + 2 * speculation_ + 3
Slots == Versions \cup 0 .. ring_size - 1
Slot(version) == IF recorder_type = "Vector" THEN version % ring_size ELSE version

\* main_recorder_ counts the Gets recorded for a version and a key, and keeps
\* the Gets that wait for them; an entry of the map is one with a count.
NoRecord == [count |-> 0, waiting |-> {}]
EmptyRecorder ==
    [main |-> [i \in Slots |-> [k \in Keys |-> NoRecord]],
     future_keys |-> [w \in Workers |-> <<>>],
     future_msgs |-> [w \in Workers |-> <<>>],
     too_fast |-> {}]

Init ==
    /\ task \in Tasks
    /\ recorder_type \in RecorderTypes
    /\ get_count = [w \in Workers |-> 0]
    /\ add_count = [w \in Workers |-> 0]
    /\ tracker = [w \in Workers |-> [expected |-> 0, current |-> 0]]
    /\ recv_kvs = [w \in Workers |-> {}]
    /\ toServer = [w \in Workers |-> [s \in Servers |-> <<>>]]
    /\ toWorker = [s \in Servers |-> [w \in Workers |-> <<>>]]
    /\ progress_tracker = [s \in Servers |-> TrackerInit(Members)]
    /\ storage = [s \in Servers |-> {}]
    /\ buffer = [s \in Servers |-> <<>>]
    /\ recorder = [s \in Servers |-> EmptyRecorder]
    /\ aborted = FALSE

-----------------------------------------------------------------------------
(* SparseKVClientTable *)

\* What Send_ pushes for server s: nothing when no key is there.
Slice(flag, s, version, K) ==
    IF s \in ServersOf(K)
    THEN <<[flag |-> flag, version |-> version, keys |-> SliceOf(K, s)]>>
    ELSE <<>>

ClockMessage(version) == [flag |-> "kClock", version |-> version, keys |-> {}]

\* Get_: the first one sends the Gets of iterations 0 to speculation_, a later
\* one the Clock of the last iteration and one Get ahead.
Requests(w, s) ==
    LET Ahead(v) == Slice("kGet", s, v, KeysOf(w, v))
    IN  IF get_count[w] = 0
        THEN FlattenSeq([i \in 1 .. speculation_ + 1 |-> Ahead(i - 1)])
        ELSE <<ClockMessage(get_count[w] - 1)>> \o Ahead(get_count[w] + speculation_)

ClientGet(w) ==
    /\ ~aborted /\ ~Waiting(w)
    /\ get_count[w] = add_count[w]
    /\ get_count[w] < iters(w)
    /\ get_count' = [get_count EXCEPT ![w] = @ + 1]
    /\ tracker' = [tracker EXCEPT ![w] =
           [expected |-> Cardinality(ServersOf(KeysOf(w, get_count[w]))), current |-> 0]]
    /\ toServer' = [toServer EXCEPT ![w] = [s \in Servers |->
           IF s \in ServersOf(Keys) THEN @[s] \o Requests(w, s) ELSE @[s]]]
    /\ UNCHANGED <<task, recorder_type, add_count, recv_kvs, toWorker, modelVars, storage, aborted>>

\* Add, of the keys of the Get before it.
ClientAdd(w) ==
    /\ ~aborted /\ ~Waiting(w)
    /\ get_count[w] = add_count[w] + 1
    /\ add_count' = [add_count EXCEPT ![w] = @ + 1]
    /\ toServer' = [toServer EXCEPT ![w] = [s \in Servers |->
           @[s] \o Slice("kAdd", s, iter(w), KeysOf(w, iter(w)))]]
    /\ UNCHANGED <<task, recorder_type, get_count, tracker, recv_kvs, toWorker, modelVars, storage, aborted>>

\* The helper thread: the receive handle, and with the last answer the finish
\* handle, which CHECKs that no keys are missing.
HelperResponse(s, w) ==
    LET got    == recv_kvs[w] \cup {Head(toWorker[s][w]).keys}
        finish == tracker[w].expected = tracker[w].current + 1
    IN  /\ ~aborted
        /\ toWorker[s][w] # <<>>
        /\ toWorker' = [toWorker EXCEPT ![s][w] = Tail(@)]
        /\ tracker' = [tracker EXCEPT ![w].current = @ + 1]
        /\ recv_kvs' = [recv_kvs EXCEPT ![w] = IF finish THEN {} ELSE got]
        /\ aborted' = (finish /\ UNION got # KeysOf(w, iter(w)))
        /\ UNCHANGED <<task, recorder_type, get_count, add_count, toServer, modelVars, storage>>

-----------------------------------------------------------------------------
(* The recorders.  A Get is [sender, version, keys].                        *)

Entry(r, version, k) == r.main[Slot(version)][k]

\* HasConflict: who waits for whom, from version begin on.
ConflictsButLast(r, get, begin) ==  \* mutant of Conflicts
    {c \in (begin .. get.version - staleness_ - 2) \X get.keys : Entry(r, c[1], c[2]).count > 0}
Conflicts(r, get, begin) ==
    {c \in (begin .. get.version - staleness_ - 1) \X get.keys : Entry(r, c[1], c[2]).count > 0}

\* The last version with a conflict, and the first key there.
Forwarded(r, get, begin) ==
    CHOOSE c \in Conflicts(r, get, begin) : \A d \in Conflicts(r, get, begin) :
        d[1] < c[1] \/ (d[1] = c[1] /\ c[2] <= d[2])

\* Gets with a conflict wait at it, the others are answered.  The result of this
\* and the next operators: the recorder after it, and what is to be answered.
Judge(r, gets, min_clock) ==
    LET blocked == {g \in gets : Conflicts(r, g, min_clock) # {}}
        At(i, k) == {g \in blocked :
                        LET c == Forwarded(r, g, min_clock) IN Slot(c[1]) = i /\ c[2] = k}
    IN  [recorder |-> [r EXCEPT !.main = [i \in Slots |-> [k \in Keys |->
                          [@[i][k] EXCEPT !.waiting = @ \cup At(i, k)]]]],
         answers |-> gets \ blocked]

\* RemoveRecordAndGetNonConflictMsgs
Unrecord(r, version, keys, min_clock) ==
    LET gone     == {k \in keys : Entry(r, version, k).count = 1}
        released == UNION {Entry(r, version, k).waiting : k \in gone}
        Less(k)  == IF k \in gone THEN NoRecord
                    ELSE [Entry(r, version, k) EXCEPT !.count = @ - 1]
    IN  Judge([r EXCEPT !.main[Slot(version)] =
                  [k \in Keys |-> IF k \in keys THEN Less(k) ELSE @[k]]],
              released, min_clock)

\* First half of GetNonConflictMsgs: the Get of the iteration that has ended.
EndOfGet(r, w, progress, min_clock) ==
    LET queue == r.future_keys[w]
    IN  IF queue # <<>> /\ Head(queue).version = progress - 1
        THEN Unrecord([r EXCEPT !.future_keys[w] = Tail(@)],
                      progress - 1, Head(queue).keys, min_clock)
        ELSE [recorder |-> r, answers |-> {}]

\* Second half: the worker's own Get of the iteration that begins.
OwnGetIsNext(r, w, progress) ==
    r.future_msgs[w] # <<>> /\ Head(r.future_msgs[w]).version = progress

OwnGet(r, w, progress, min_clock) ==
    LET get    == Head(r.future_msgs[w])
        popped == [r EXCEPT !.future_msgs[w] = Tail(@)]
    IN  IF ~OwnGetIsNext(r, w, progress) THEN [recorder |-> r, answers |-> {}]
        ELSE IF get.version <= min_clock + staleness_
        THEN [recorder |-> popped, answers |-> {get}]
        ELSE IF get.version <= min_clock + staleness_ + speculation_
        THEN Judge(popped, {get}, min_clock)
        ELSE [recorder |-> [popped EXCEPT !.too_fast = @ \cup {get}], answers |-> {}]

\* HandleTooFastBuffer
TooFastGets(r, min_clock) == Judge([r EXCEPT !.too_fast = {}], r.too_fast, min_clock)

\* RemoveRecord erases a version of the map, and what waits there; a version of
\* the ring stays as it is.
RemoveRecord(r, version) ==
    IF recorder_type = "Map"
    THEN [r EXCEPT !.main[version] = [k \in Keys |-> NoRecord]]
    ELSE r

\* AddRecord; the Get of version 0 has been answered already.
AddRecord(r, get) ==
    [r EXCEPT !.future_keys[get.sender] = Append(@, [version |-> get.version, keys |-> get.keys]),
              !.main[Slot(get.version)] =
                  [k \in Keys |-> IF k \in get.keys THEN [@[k] EXCEPT !.count = @ + 1] ELSE @[k]],
              !.future_msgs[get.sender] = IF get.version = 0 THEN @ ELSE Append(@, get)]

\* CHECK and DCHECKs of the recorders.
WindowHolds(r, w, progress, min_clock) ==
    OwnGetIsNext(r, w, progress) =>
        progress \in min_clock .. min_clock + staleness_ + speculation_ + 1
RecordExists(r, w, progress) ==
    LET queue == r.future_keys[w]
    IN  queue # <<>> /\ Head(queue).version = progress - 1 =>
            \A k \in Head(queue).keys : Entry(r, progress - 1, k).count > 0
QueueHasRoom(r, w) == Len(r.future_keys[w]) < speculation_ + 1

-----------------------------------------------------------------------------
(* SparseSSPModel *)

MoreThanTooFast(pt, version) ==  \* mutant of TooFast
    version > staleness_ + speculation_ + pt.min_clock + 1
TooFast(pt, version) == version >= staleness_ + speculation_ + pt.min_clock + 1

\* Clock, but for the replay: m is [pt, recorder, buffer, answers, ok].
ClockOnce(m, clock) ==
    LET w         == clock.sender
        pt        == Advance(m.pt, w)
        updated   == ChangedMinClock(m.pt, w)
        progress  == pt.progresses[w]
        ended     == EndOfGet(m.recorder, w, progress, pt.min_clock)
        own       == OwnGet(ended.recorder, w, progress, pt.min_clock)
        late      == TooFastGets(RemoveRecord(own.recorder, updated - 1), updated)
    IN  IF TooFast(m.pt, clock.version)
        THEN [m EXCEPT !.buffer = Append(@, clock),
                       !.ok = @ /\ clock.version = staleness_ + speculation_ + m.pt.min_clock + 1]
        ELSE [m EXCEPT !.pt = pt,
                       !.recorder = IF updated # -1 THEN late.recorder ELSE own.recorder,
                       !.answers = @ \cup ended.answers \cup own.answers
                                     \cup (IF updated # -1 THEN late.answers ELSE {}),
                       !.ok = @ /\ RecordExists(m.recorder, w, progress)
                                /\ WindowHolds(ended.recorder, w, progress, pt.min_clock)]

\* A moved minimum replays the Clocks in the buffer.  A replay that moves it again
\* or puts a Clock back would change the vector that is being replayed.
Replay(m, clock) ==
    LET replayed == ClockOnce(m, clock)
    IN  [replayed EXCEPT !.ok = @ /\ ~TooFast(m.pt, clock.version)
                                  /\ replayed.pt.min_clock = m.pt.min_clock]

Clock(m, clock) ==
    LET once == ClockOnce(m, clock)
    IN  IF once.pt.min_clock = m.pt.min_clock THEN once
        ELSE [FoldLeft(Replay, once, once.buffer) EXCEPT !.buffer = <<>>]

-----------------------------------------------------------------------------
(* The servers *)

Received(s, w, flag) ==
    /\ ~aborted
    /\ toServer[w][s] # <<>> /\ Head(toServer[w][s]).flag = flag
    /\ toServer' = [toServer EXCEPT ![w][s] = Tail(@)]

\* reply_queue_->Push(storage_->Get(msg)) for every Get to be answered.
Reply(s, gets) ==
    toWorker' = [toWorker EXCEPT ![s] = [w \in Workers |->
        @[w] \o SetToSeq({[version |-> g.version, keys |-> g.keys,
                           adds |-> {a \in storage[s] : a.key \in g.keys}] :
                              g \in {g \in gets : g.sender = w}})]]

ServerClock(s, w) ==
    LET clock == [sender |-> w, version |-> Head(toServer[w][s]).version]
        after == Clock([pt |-> progress_tracker[s], recorder |-> recorder[s],
                        buffer |-> buffer[s], answers |-> {}, ok |-> TRUE], clock)
    IN  /\ Received(s, w, "kClock")
        /\ progress_tracker' = [progress_tracker EXCEPT ![s] = after.pt]
        /\ recorder' = [recorder EXCEPT ![s] = after.recorder]
        /\ buffer' = [buffer EXCEPT ![s] = after.buffer]
        /\ Reply(s, after.answers)
        /\ aborted' = ~after.ok
        /\ UNCHANGED <<clientVars, storage>>

ServerGet(s, w) ==
    LET msg == Head(toServer[w][s])
        get == [sender |-> w, version |-> msg.version, keys |-> msg.keys]
    IN  /\ Received(s, w, "kGet")
        /\ Reply(s, IF get.version = 0 THEN {get} ELSE {})
        /\ recorder' = [recorder EXCEPT ![s] = AddRecord(@, get)]
        /\ aborted' = ~QueueHasRoom(recorder[s], w)
        /\ UNCHANGED <<clientVars, progress_tracker, buffer, storage>>

\* Add is applied at once, and CHECKed to be of the worker's iteration.
ServerAdd(s, w) ==
    LET msg == Head(toServer[w][s])
    IN  /\ Received(s, w, "kAdd")
        /\ storage' = [storage EXCEPT ![s] = @ \cup
               {[worker |-> w, iter |-> msg.version, key |-> k] : k \in msg.keys}]
        /\ aborted' = (msg.version # progress_tracker[s].progresses[w])
        /\ UNCHANGED <<clientVars, toWorker, modelVars>>

-----------------------------------------------------------------------------
Quiet == \A s \in Servers, w \in Workers : toServer[w][s] = <<>> /\ toWorker[s][w] = <<>>

\* The task is over: a stutter, so that any other stop is a deadlock.
TaskDone ==
    /\ \A w \in Workers : add_count[w] = iters(w)
    /\ Quiet
    /\ UNCHANGED vars

Client(w) == ClientGet(w) \/ ClientAdd(w)
Server(s, w) == ServerClock(s, w) \/ ServerGet(s, w) \/ ServerAdd(s, w)

Next ==
    \/ \E w \in Workers : Client(w)
    \/ \E s \in Servers, w \in Workers : Server(s, w) \/ HelperResponse(s, w)
    \/ TaskDone

Spec == Init /\ [][Next]_vars

-----------------------------------------------------------------------------
(* Properties *)

Gets == [sender : Workers, version : Versions, keys : SUBSET Keys]

\* Types.  A count is the number of workers at most, and at most one answer of a
\* server to a worker is under way.
TypeOK ==
    /\ \A w \in Workers :
          /\ get_count[w] \in 0 .. iters(w)
          /\ add_count[w] \in {get_count[w] - 1, get_count[w]}
          /\ tracker[w].current \in 0 .. tracker[w].expected
    /\ \A s \in Servers :
          LET r == recorder[s]
          IN  /\ r.too_fast \subseteq Gets
              /\ \A i \in Slots, k \in Keys :
                    /\ r.main[i][k].count \in 0 .. Cardinality(Workers)
                    /\ r.main[i][k].waiting \subseteq Gets
              /\ \A w \in Workers : Len(toWorker[s][w]) <= 1

\* No CHECK fails: Clocks are one too fast at most and their replay moves nothing,
\* Adds are of the worker's iteration, Gets are in the window, records that are
\* removed are there, no queue overflows, and no slice is missing.
NoCheckFails == ~aborted

AllAdds == UNION {{[worker |-> w, iter |-> i, key |-> k] : k \in KeysOf(w, i)} :
                      <<w, i>> \in {p \in Workers \X Versions : p[2] < iters(p[1])}}

\* An answer to the Get of iteration v is fresh when it holds all Adds to its keys
\* of iterations before v - staleness_, and all of the worker's own.
Fresh(w, answer) ==
    \A a \in AllAdds :
        (/\ a.key \in answer.keys
         /\ a.iter < answer.version - staleness_ \/ (a.worker = w /\ a.iter < answer.version))
        => a \in answer.adds

\* Does the server know what each worker Gets before its first Clock?
FirstGetsKnown(s) ==
    \A w \in Members :
        /\ get_count[w] > 0
        /\ \A i \in DOMAIN toServer[w][s] :
              LET m == toServer[w][s][i] IN m.flag = "kGet" => m.version >= speculation_

\* Bounded staleness in spite of speculation: a server that knows the first Gets
\* gives fresh answers only (SparseSSPModel::Clock, HasConflict).
AnswersFreshOnceKnown ==
    [][\A s \in Servers, w \in Workers :
          FirstGetsKnown(s) /\ Len(toWorker'[s][w]) > Len(toWorker[s][w])
          => Fresh(w, Last(toWorker'[s][w]))]_vars

\* The same of all answers; the tests have it that no Get is answered before its
\* server knows the others (sparse_ssp_model_test.cpp:382).  It is false: a slow
\* worker's first Gets may arrive later than the answer leaves.
AnswersFresh ==
    \A s \in Servers, w \in Workers : \A i \in DOMAIN toWorker[s][w] : Fresh(w, toWorker[s][w][i])

\* Every Get returns: when nothing is under way and nobody can go on, nobody waits.
\* So no Get is lost in a record that is erased, nor waits for one that is never
\* removed, in the map or in the ring.
GetsReturn ==
    Quiet /\ (\A w \in Workers : Waiting(w) \/ add_count[w] = iters(w))
    => \A w \in Workers : ~Waiting(w)
=============================================================================
