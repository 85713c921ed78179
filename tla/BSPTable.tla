------------------------------ MODULE BSPTable -------------------------------
(***************************************************************************)
(* A table under bulk synchronous consistency: the server threads running    *)
(* BSPModel.  A CHECK of BSPModel that fails aborts the process; aborted      *)
(* says in which handler.                                                  *)
(***************************************************************************)
EXTENDS Table

\* Does the lambda Get in every iteration, before its Add and its Clock?
\* KVClientTable does not ask for it.
CONSTANT GetFirst

ASSUME GetFirstAssumption == GetFirst \in BOOLEAN

VARIABLES
    get_buffer,   \* server -> Gets that wait for the next minimum
    add_buffer,   \* server -> Adds of the iteration that is not over
    aborted       \* "no", or the handler whose CHECK failed

buffers == <<get_buffer, add_buffer>>
serverVars == <<progress_tracker, storage, buffers, aborted>>
vars == <<kvVars, serverVars>>

Init ==
    /\ KVInit
    /\ ServerInit
    /\ get_buffer = [s \in Servers |-> {}]
    /\ add_buffer = [s \in Servers |-> {}]
    /\ aborted = "no"

-----------------------------------------------------------------------------
\* What the Gets that were put aside read: the Adds are applied first.
StorageBefore(s) == storage[s]  \* mutant of StorageAfter
StorageAfter(s) == storage[s] \cup add_buffer[s]

\* BSPModel::Clock: the progress is checked after the tracker has advanced;
\* a minimum that moves ends the iteration.
ServerClock(s, w) ==
    /\ Received(s, w, "kClock")
    /\ Dequeue(s, w)
    /\ progress_tracker' = [progress_tracker EXCEPT ![s] = Advance(@, w)]
    /\ LET advanced == Advance(progress_tracker[s], w)
           overrun == advanced.progresses[w] > advanced.min_clock + 1
           updated == ChangedMinClock(progress_tracker[s], w) # -1
       IN  /\ aborted' = IF overrun THEN "Clock" ELSE "no"
           /\ IF updated /\ ~overrun
              THEN /\ storage' = [storage EXCEPT ![s] = @ \cup add_buffer[s]]
                   /\ add_buffer' = [add_buffer EXCEPT ![s] = {}]
                   /\ Reply(s, StorageAfter(s), get_buffer[s])
                   /\ get_buffer' = [get_buffer EXCEPT ![s] = {}]
              ELSE UNCHANGED <<storage, buffers, toWorker>>
    /\ UNCHANGED clientVars

\* BSPModel::Add: only a worker of the running iteration may add.
ServerAdd(s, w) ==
    /\ Received(s, w, "kAdd")
    /\ Dequeue(s, w)
    /\ IF Progress(s, w) = MinClock(s)
       THEN /\ add_buffer' = [add_buffer EXCEPT ![s] =
                                 @ \cup Increments(w, Head(toServer[w][s]))]
            /\ UNCHANGED aborted
       ELSE /\ aborted' = "Add"
            /\ UNCHANGED add_buffer
    /\ UNCHANGED <<clientVars, toWorker, progress_tracker, storage, get_buffer>>

\* BSPModel::Get: one iteration ahead waits, the running iteration is answered.
OneAhead(s, w) == Progress(s, w) = MinClock(s) + 1

ServerGet(s, w) ==
    /\ Received(s, w, "kGet")
    /\ Dequeue(s, w)
    /\ LET req == RequestOf(w, Head(toServer[w][s]))
       IN  IF OneAhead(s, w)
           THEN /\ get_buffer' = [get_buffer EXCEPT ![s] = @ \cup {req}]
                /\ UNCHANGED <<toWorker, aborted>>
           ELSE IF Progress(s, w) = MinClock(s)
                THEN /\ Reply(s, storage[s], {req})
                     /\ UNCHANGED <<get_buffer, aborted>>
                ELSE /\ aborted' = "Get"
                     /\ UNCHANGED <<toWorker, get_buffer>>
    /\ UNCHANGED <<clientVars, progress_tracker, storage, add_buffer>>

-----------------------------------------------------------------------------
HasGot(w) == GetFirst => want[w] # {}

Client(w) ==
    \/ \E K \in GetKeys : ClientGet(w, K) /\ UNCHANGED serverVars
    \/ \E K \in AddKeys : HasGot(w) /\ ClientAdd(w, K) /\ UNCHANGED serverVars
    \/ HasGot(w) /\ ClientClock(w) /\ UNCHANGED serverVars

Server(s, w) == ServerClock(s, w) \/ ServerAdd(s, w) \/ ServerGet(s, w)

Helper(s, w) == HelperResponse(s, w) /\ UNCHANGED serverVars

Running == aborted = "no"

\* The task is over, or the process has died.
TaskDone ==
    /\ Running => Quiet /\ \A w \in Workers : Finished(w)
    /\ UNCHANGED vars

Next ==
    \/ \E w \in Workers : Running /\ Client(w)
    \/ \E s \in Servers, w \in Workers : Running /\ (Server(s, w) \/ Helper(s, w))
    \/ TaskDone

Spec == Init /\ [][Next]_vars

\* Server and helper threads pop their queues for ever; the lambda goes on to
\* its last Clock.
FairSpec ==
    /\ Spec
    /\ \A w \in Workers : WF_vars(Running /\ Client(w))
    /\ \A s \in Servers, w \in Workers :
          WF_vars(Running /\ Server(s, w)) /\ WF_vars(Running /\ Helper(s, w))

-----------------------------------------------------------------------------
TypeOK ==
    /\ KVTypeOK
    /\ ServerTypeOK
    /\ get_buffer \in [Servers -> SUBSET Pending]
    /\ add_buffer \in [Servers -> SUBSET Increment]
    /\ aborted \in {"no", "Clock", "Add", "Get"}

\* No CHECK of BSPModel fails while every iteration Gets from every server,
\* although each server judges by the Clocks that have reached it.
NoCheckFails == aborted = "no"

TablesSound == TypeOK /\ NoCheckFails

\* A server's answer is the table at the end of the iteration before the
\* worker's: every Add of an earlier one, none of this or a later one, although
\* other workers may have moved on and sent theirs (add_buffer_).
AnswersExact ==
    \A s \in Servers, w \in Workers : \A i \in 1 .. Len(toWorker[s][w]) :
        LET m == toWorker[s][w][i]
        IN  m.adds = {a \in issued : a.key \in m.keys /\ a.iter < clock[w]}

\* Nobody stays blocked in get_buffer_: the slowest worker's Clock always comes.
GetReturns == \A w \in Workers : Waiting(w) ~> ~Waiting(w)

Promise == INSTANCE BulkSynchrony WITH
               waiting <- [w \in Workers |-> Waiting(w)]

\* Slices read at different servers at different moments make up one snapshot
\* between two iterations.
KeepsPromise == Promise!Spec

\* The life of a table in kv_client_table.hpp: the Get of an iteration is
\* optional, the Add after it is accepted all the same.
GetIsOptional == aborted # "Add"

-----------------------------------------------------------------------------
(* The inductive invariant behind these properties, when every iteration Gets *)
(* from every server.  Table has the parts of it that hold in every model.     *)

EveryGetAsksAll == GetFirst /\ \A K \in GetKeys : Involved(K) = Servers

\* The third place where a Get of w can be at s.
Parked(w, s) == \E r \in get_buffer[s] : r.sender = w
Outstanding(w) == {s \in Servers : Sent(w, s) \/ Parked(w, s) \/ Answered(w, s)}

\* A Get is in one place per server, is the last thing its worker sent, and
\* asks for the slice of the keys wanted.
Located(w, s) ==
    /\ \A i \in 1 .. Len(toServer[w][s]) - 1 : toServer[w][s][i].flag # "kGet"
    /\ \A m \in Messages(toServer[w][s]) : m.flag = "kGet" => m.keys = SliceOf(want[w], s)
    /\ Sent(w, s) => ~Parked(w, s) /\ ~Answered(w, s)
    /\ Parked(w, s) => toServer[w][s] = <<>> /\ ~Answered(w, s)
    /\ Answered(w, s) => toServer[w][s] = <<>> /\ Len(toWorker[s][w]) = 1

GetsLocated == \A w \in Workers, s \in Servers : Located(w, s)

\* AppBlocker counts the places a worker's Get still is at.
ResponsesCounted ==
    \A w \in Workers : tracker[w].expected = tracker[w].current + Cardinality(Outstanding(w))

\* A buffered Get is one iteration ahead of its server.
GetsParked ==
    \A s \in Servers : \A r \in get_buffer[s] :
        /\ clock[r.sender] = MinClock(s) + 1
        /\ r.keys = SliceOf(want[r.sender], s)

\* A Get that s has answered, or has nothing to do with any more, is of an
\* iteration that s has begun; so no worker is more than one iteration ahead of
\* any server, and what it adds and clocks there is of an iteration begun.
Together ==
    \A w \in Workers, s \in Servers :
        /\ clock[w] <= MinClock(s) + 1
        /\ want[w] # {} /\ ~Sent(w, s) /\ ~Parked(w, s) => clock[w] <= MinClock(s)
        /\ \A m \in Messages(toServer[w][s]) : m.flag # "kGet" => m.iter <= MinClock(s)
        /\ Sent(w, s) \/ Parked(w, s) \/ Answered(w, s) => want[w] # {}

\* An Add that was called is applied, put aside, or on its way ...
AddsAccountedFor ==
    \A a \in issued :
        \/ a \in storage[Owner[a.key]] \cup add_buffer[Owner[a.key]]
        \/ \E m \in Messages(toServer[a.worker][Owner[a.key]]) :
              m.flag = "kAdd" /\ m.iter = a.iter /\ a.key \in m.keys

\* ... and nothing else is.
AddsCalled ==
    /\ \A w \in Workers, s \in Servers : \A m \in Messages(toServer[w][s]) :
          m.flag = "kAdd" =>
              \A k \in m.keys : [worker |-> w, iter |-> m.iter, key |-> k] \in issued
    /\ \A s \in Servers : storage[s] \cup add_buffer[s] \subseteq issued

\* What is applied is of the iterations that are over, what is put aside of the
\* one that runs.
AddsDated ==
    \A s \in Servers : /\ \A a \in storage[s] : a.iter < MinClock(s)
                      /\ \A a \in add_buffer[s] : a.iter = MinClock(s)

\* m is the answer that w has to get at its clock.
ExactAnswer(m, w) == m.adds = {a \in issued : a.key \in m.keys /\ a.iter < clock[w]}

\* Once one server has answered, everybody has come to the worker's iteration.
Reached(w) == \A v \in Workers : clock[v] >= clock[w]

AnswersGood ==
    /\ \A s \in Servers, w \in Workers : \A m \in Messages(toWorker[s][w]) :
          ExactAnswer(m, w) /\ Reached(w) /\ m.keys = SliceOf(want[w], s)
    /\ \A w \in Workers : \A m \in recv_kvs[w] :
          ExactAnswer(m, w) /\ Reached(w) /\ m.keys \subseteq want[w]
    /\ \A w \in Workers : ~Waiting(w) => recv_kvs[w] = {}

\* Every server that a waiting worker asked still owes its slice or has given it.
AnswersComplete ==
    \A w \in Workers : Waiting(w) =>
        \A s \in Involved(want[w]) \ Outstanding(w) :
            \E m \in recv_kvs[w] : m.keys = SliceOf(want[w], s)

IInv ==
    /\ TypeOK
    /\ MinClockExact
    /\ ChannelsTellTime
    /\ SlicesOwned
    /\ GetsLocated
    /\ ResponsesCounted
    /\ GetsParked
    /\ Together
    /\ NoCheckFails
    /\ AddsAccountedFor
    /\ AddsCalled
    /\ AddsDated
    /\ AnswersGood
    /\ AnswersComplete
=============================================================================
