------------------------------ MODULE SSPTable -------------------------------
(***************************************************************************)
(* A table under stale synchronous parallel consistency: the server        *)
(* threads running SSPModel, with a PendingBuffer each.                     *)
(***************************************************************************)
EXTENDS Table

CONSTANT Staleness   \* staleness_ of the table

ASSUME StalenessAssumption == Staleness \in Nat

VARIABLE buffer   \* server -> clock -> Gets that wait for this minimum

serverVars == <<progress_tracker, buffer, storage>>
vars == <<kvVars, serverVars>>

Init ==
    /\ KVInit
    /\ ServerInit
    /\ buffer = [s \in Servers |-> [c \in Clocks |-> {}]]

-----------------------------------------------------------------------------
\* PendingBuffer::Push and ::Pop
Push(s, c, req) == buffer' = [buffer EXCEPT ![s][c] = @ \cup {req}]
Pop(s, c) == buffer' = [buffer EXCEPT ![s][c] = {}]

\* SSPModel::Clock: when the minimum moves, the Gets that waited for it go out.
ServerClock(s, w) ==
    /\ Received(s, w, "kClock")
    /\ Dequeue(s, w)
    /\ progress_tracker' = [progress_tracker EXCEPT ![s] = Advance(@, w)]
    /\ LET updated_min_clock == ChangedMinClock(progress_tracker[s], w)
       IN  IF updated_min_clock # -1
           THEN /\ Reply(s, storage[s], buffer[s][updated_min_clock])
                /\ Pop(s, updated_min_clock)
           ELSE UNCHANGED <<toWorker, buffer>>
    /\ UNCHANGED <<clientVars, storage>>

\* SSPModel::Add: applied at once, whatever the clocks.
ServerAdd(s, w) ==
    /\ Received(s, w, "kAdd")
    /\ Dequeue(s, w)
    /\ storage' = [storage EXCEPT ![s] = @ \cup Increments(w, Head(toServer[w][s]))]
    /\ UNCHANGED <<clientVars, toWorker, progress_tracker, buffer>>

\* SSPModel::Get: a worker more than Staleness ahead of the slowest one waits
\* in the buffer for the minimum that brings it in range.
TooFarAheadByOne(s, w) == Progress(s, w) > MinClock(s) + Staleness + 1  \* mutant
TooFarAhead(s, w) == Progress(s, w) > MinClock(s) + Staleness

WaitsForOwnClock(s, w) == Progress(s, w)  \* mutant
WaitsFor(s, w) == Progress(s, w) - Staleness

ServerGet(s, w) ==
    /\ Received(s, w, "kGet")
    /\ Dequeue(s, w)
    /\ LET req == RequestOf(w, Head(toServer[w][s]))
       IN  IF TooFarAhead(s, w)
           THEN /\ Push(s, WaitsFor(s, w), req)
                /\ UNCHANGED toWorker
           ELSE /\ Reply(s, storage[s], {req})
                /\ UNCHANGED buffer
    /\ UNCHANGED <<clientVars, progress_tracker, storage>>

-----------------------------------------------------------------------------
Client(w) ==
    \/ \E K \in GetKeys : ClientGet(w, K) /\ UNCHANGED serverVars
    \/ \E K \in AddKeys : ClientAdd(w, K) /\ UNCHANGED serverVars
    \/ ClientClock(w) /\ UNCHANGED serverVars

Server(s, w) == ServerClock(s, w) \/ ServerAdd(s, w) \/ ServerGet(s, w)

Helper(s, w) == HelperResponse(s, w) /\ UNCHANGED serverVars

\* The task is over: a stutter, so that any other stop is a deadlock.
TaskDone == (\A w \in Workers : Finished(w)) /\ Quiet /\ UNCHANGED vars

Next ==
    \/ \E w \in Workers : Client(w)
    \/ \E s \in Servers, w \in Workers : Server(s, w) \/ Helper(s, w)
    \/ TaskDone

Spec == Init /\ [][Next]_vars

\* Server and helper threads pop their queues for ever; a worker's lambda runs
\* its iterations to the end (it may skip its Get and its Add, not its Clock).
Fairness ==
    /\ \A w \in Workers : WF_vars(ClientClock(w) /\ UNCHANGED serverVars)
    /\ \A s \in Servers, w \in Workers : WF_vars(Server(s, w)) /\ WF_vars(Helper(s, w))

FairSpec == Spec /\ Fairness

-----------------------------------------------------------------------------
TypeOK ==
    /\ KVTypeOK
    /\ ServerTypeOK
    /\ buffer \in [Servers -> [Clocks -> SUBSET Pending]]

\* The stale-synchronous-parallel promise: every answer on its way to a worker
\* at clock c holds all Adds, of all workers, that were called more than
\* Staleness iterations before c, although the request, the Adds and the Clocks
\* crossed on different channels (SSPModel::Get, SSPModel::Clock).
AnswersFreshEnough ==
    \A s \in Servers, w \in Workers : \A i \in 1 .. Len(toWorker[s][w]) :
        LET m == toWorker[s][w][i]
        IN  \A a \in issued : (a.key \in m.keys /\ a.iter + Staleness < clock[w]) => a \in m.adds

\* A worker sees all its own Adds, also those of the staleness window and of
\* the running iteration: they were sent on the channel its Get used.
AnswersHoldOwnAdds ==
    \A s \in Servers, w \in Workers : \A i \in 1 .. Len(toWorker[s][w]) :
        LET m == toWorker[s][w][i]
        IN  \A a \in issued : (a.key \in m.keys /\ a.worker = w) => a \in m.adds

\* A buffered Get waits for a minimum that is still to come, and exactly the
\* one its worker's clock calls for: nothing is parked under a clock that
\* PendingBuffer::Pop has passed already.
NoStrandedGet ==
    \A s \in Servers, c \in Clocks : \A r \in buffer[s][c] :
        /\ c > MinClock(s)
        /\ c + Staleness = clock[r.sender]
        /\ Waiting(r.sender)

\* The CHECKs of KVTableBox::HandleFinish: when the last expected answer is
\* there, the slices received make up exactly the keys asked for.
SlicesComplete ==
    \A s \in Servers, w \in Workers :
        (toWorker[s][w] # <<>> /\ tracker[w].expected = tracker[w].current + 1) =>
            UNION {m.keys : m \in recv_kvs[w] \cup {Head(toWorker[s][w])}} = want[w]

\* Every Get returns: no worker is left blocked in WaitRequest by a request
\* that the buffer of some server never gives back.
GetReturns == \A w \in Workers : Waiting(w) ~> ~Waiting(w)

-----------------------------------------------------------------------------
Promise == INSTANCE BoundedStaleness WITH
               waiting <- [w \in Workers |-> Waiting(w)]

\* The message-passing table keeps the promise of BoundedStaleness: every
\* step of workers, servers and helpers is a step or a stutter of it, and the
\* value that KVTableBox::HandleFinish assembles from the slices of several
\* servers, read at different moments, is one that it allows.
KeepsPromise == Promise!Spec

-----------------------------------------------------------------------------
(* The inductive invariant behind these properties, with the parts of it that *)
(* Table has for every model: where the requests of a worker are.      *)

\* An Add that was called is applied, or on its way ...
AddsAccountedFor ==
    \A a \in issued :
        \/ a \in storage[Owner[a.key]]
        \/ \E m \in Messages(toServer[a.worker][Owner[a.key]]) :
              m.flag = "kAdd" /\ m.iter = a.iter /\ a.key \in m.keys

\* ... and nothing else is.
AddsCalled ==
    /\ \A w \in Workers, s \in Servers : \A m \in Messages(toServer[w][s]) :
          m.flag = "kAdd" =>
              \A k \in m.keys : [worker |-> w, iter |-> m.iter, key |-> k] \in issued
    /\ \A s \in Servers : storage[s] \subseteq issued

\* The third place where a Get of w can be at s.
Parked(w, s) == \E c \in Clocks : \E r \in buffer[s][c] : r.sender = w
Outstanding(w) == {s \in Servers : Sent(w, s) \/ Parked(w, s) \/ Answered(w, s)}

\* A Get is in one place per server, is the last thing its worker sent, and
\* asks for the slice of the keys wanted.
Located(w, s) ==
    /\ \A i \in 1 .. Len(toServer[w][s]) - 1 : toServer[w][s][i].flag # "kGet"
    /\ \A m \in Messages(toServer[w][s]) : m.flag = "kGet" => m.keys = SliceOf(want[w], s)
    /\ Sent(w, s) => ~Parked(w, s) /\ ~Answered(w, s)
    /\ Parked(w, s) => toServer[w][s] = <<>> /\ ~Answered(w, s)
    /\ Answered(w, s) => toServer[w][s] = <<>> /\ Len(toWorker[s][w]) = 1

GetsLocated == \A w \in Workers, s \in Servers : Located(w, s)

\* AppBlocker counts the places a worker's Get still is at.
ResponsesCounted ==
    \A w \in Workers : tracker[w].expected = tracker[w].current + Cardinality(Outstanding(w))

\* A buffered Get waits for the minimum its worker's clock calls for.
GetsParked ==
    \A s \in Servers, c \in Clocks : \A r \in buffer[s][c] :
        /\ c > MinClock(s)
        /\ c + Staleness = clock[r.sender]
        /\ r.keys = SliceOf(want[r.sender], s)

\* m is an answer that w may get at its clock.
GoodAnswer(m, w) ==
    /\ m.adds \subseteq issued
    /\ \A a \in m.adds : a.key \in m.keys
    /\ \A a \in issued : a.key \in m.keys =>
          /\ a.worker = w => a \in m.adds
          /\ a.iter + Staleness < clock[w] => a \in m.adds

\* Once one server has answered, no worker is Staleness behind any more.
InRange(w) == \A v \in Workers : clock[w] <= clock[v] + Staleness

AnswersGood ==
    /\ \A s \in Servers, w \in Workers : \A m \in Messages(toWorker[s][w]) :
          GoodAnswer(m, w) /\ InRange(w) /\ m.keys = SliceOf(want[w], s)
    /\ \A w \in Workers : \A m \in recv_kvs[w] :
          GoodAnswer(m, w) /\ InRange(w) /\ m.keys \subseteq want[w]
    /\ \A w \in Workers : ~Waiting(w) => recv_kvs[w] = {}

\* Every server that a waiting worker asked still owes its slice or has given it.
AnswersComplete ==
    \A w \in Workers : Waiting(w) =>
        \A s \in Involved(want[w]) \ Outstanding(w) :
            \E m \in recv_kvs[w] : m.keys = SliceOf(want[w], s)

IInv ==
    /\ TypeOK
    /\ MinClockExact
    /\ ChannelsTellTime
    /\ SlicesOwned
    /\ AddsAccountedFor
    /\ AddsCalled
    /\ GetsLocated
    /\ ResponsesCounted
    /\ GetsParked
    /\ AnswersGood
    /\ AnswersComplete
=============================================================================
