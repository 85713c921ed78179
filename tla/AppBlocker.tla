----------------------------- MODULE AppBlocker ------------------------------
(***************************************************************************)
(* worker/app_blocker.cpp by the steps of its lock: app threads of a node      *)
(* register their handles and wait for their Gets; the worker helper thread    *)
(* counts the answers of all of them and runs the handles, without the lock.   *)
(* SimpleRangePartitionManager::Slice cuts the keys of a Get at the ends of    *)
(* the servers' ranges, every server answers with its slice, and               *)
(* KVTableBox::HandleFinish puts the answers, which come in any order,         *)
(* together by their first keys.                                             *)
(*                                                                         *)
(* A section under mu_ is one step, but for the two that insert into the maps  *)
(* of handles: there an unlocked look-up may meet a half-made map, which finds *)
(* its handle or does not (then the call of an empty handle ends the process). *)
(***************************************************************************)
EXTENDS Integers, SequencesExt

CONSTANTS
    AppThreads,
    Lambdas,    \* what the threads may do: thread -> sequence of Creates and Gets
    RangeEnds,  \* the ends of the servers' ranges, from the first one's begin on
    Nobody

Create(m) == [op |-> "create", model |-> m]
Get(m, keys) == [op |-> "get", model |-> m, keys |-> keys]
SimpleGet(m, keys) == [op |-> "simple get", model |-> m, keys |-> keys]

Ascending(q) == \A i \in 2 .. Len(q) : q[i - 1] < q[i]

\* A table of the AppBlocker is created before its first Get; a Get has keys, in
\* ascending order, some of them maybe beyond the ranges.
AppBlockerAssumption ==
    /\ \A lambdas \in Lambdas : \A t \in AppThreads : \A i \in DOMAIN lambdas[t] :
          LET call == lambdas[t][i]
          IN  /\ call.op = "get" => \E j \in 1 .. i - 1 : lambdas[t][j] = Create(call.model)
              /\ call.op # "create" =>
                    call.keys \in Seq(Nat) \ {<<>>} /\ Ascending(call.keys)
    /\ RangeEnds \subseteq Seq(Nat)
    /\ \A ends \in RangeEnds : \A i \in 2 .. Len(ends) : ends[i - 1] <= ends[i]

VARIABLES
    lambdas,
    ends,                \* range i of server i is ends[i] .. ends[i + 1] - 1
    at,                  \* thread -> the call it makes, or makes next
    place,               \* thread -> where it is in this call
    mu_,                 \* who holds mu_ over more than a step
    recv_handle_,        \* <<thread, model>> with a handle
    recv_finish_handle_, \* <<thread, model>> -> call whose variables it refers to
    tracker_,            \* <<thread, model>> -> expected and current responses
    answers,             \* answers on their way
    work_queue_,         \* of the helper thread
    helper,              \* where the helper thread is in AddResponse
    recv_kvs_,           \* <<thread, model>> -> slices, in the order of arrival
    vals,                \* thread -> what its last Get has returned
    raced, aborted       \* has a look-up met a half-made map? found nothing?

given == <<lambdas, ends>>
maps == <<recv_handle_, recv_finish_handle_>>
blockerVars == <<given, at, place, mu_, maps, tracker_, answers, work_queue_, helper,
                 recv_kvs_, vals, raced, aborted>>

Call(t) == lambdas[t][at[t]]
Here(t) == <<t, Call(t).model>>
Idle == [stage |-> "idle"]

BlockerInit ==
    /\ lambdas \in Lambdas /\ ends \in RangeEnds
    /\ at = [t \in AppThreads |-> 1]
    /\ place = [t \in AppThreads |-> "running"]
    /\ mu_ = Nobody
    /\ recv_handle_ = {} /\ recv_finish_handle_ = <<>> /\ tracker_ = <<>>
    /\ answers = {} /\ work_queue_ = <<>> /\ helper = Idle
    /\ recv_kvs_ = <<>>
    /\ vals = [t \in AppThreads |-> <<>>]
    /\ raced = FALSE /\ aborted = FALSE
-----------------------------------------------------------------------------
NumServers == Len(ends) - 1

\* std::lower_bound: the first key not below bound.
LowerBound(keys, bound) ==
    CHOOSE i \in 1 .. Len(keys) + 1 :
        /\ \A j \in 1 .. i - 1 : keys[j] < bound
        /\ i <= Len(keys) => keys[i] >= bound

Split(keys, i) == LowerBound(keys, ends[i + 1])

\* Slice: what each server is sent, if any.
SliceFor(keys, i) == SubSeq(keys, Split(keys, i - 1), Split(keys, i) - 1)
Slices(keys) == {SliceFor(keys, i) : i \in 1 .. NumServers} \ {<<>>}

\* HandleFinish: the values in the order of the slices' first keys; a value is
\* written as the key it belongs to.  Its CHECKs want every slice to be a stretch
\* of the keys, and all keys.
AsArrived(kvs) == FlattenSeq(kvs)  \* mutant of Assembled: does not sort
Assembled(kvs) == FlattenSeq(SortSeq(kvs, LAMBDA a, b : Head(a) < Head(b)))
Whole(keys, kvs) ==
    /\ \A i \in DOMAIN kvs :
          LowerBound(keys, Last(kvs[i]) + 1) - LowerBound(keys, Head(kvs[i])) = Len(kvs[i])
    /\ Len(FlattenSeq(kvs)) = Len(keys)
-----------------------------------------------------------------------------
Set(f, x, y) == [z \in DOMAIN f \cup {x} |-> IF z = x THEN y ELSE f[z]]
Goes(t, from, to) == place[t] = from /\ place' = [place EXCEPT ![t] = to]
Calls(t, op) == at[t] <= Len(lambdas[t]) /\ Call(t).op = op
Next_(t) == at' = [at EXCEPT ![t] = @ + 1]

\* Both registrations take the lock, and give it back with the map changed.
Lock(t, op, to) == Calls(t, op) /\ mu_ = Nobody /\ mu_' = t /\ Goes(t, "running", to)

BeginRegister(t) ==
    /\ Lock(t, "create", "creating") \/ Lock(t, "get", "registering")
    /\ UNCHANGED <<given, at, maps, tracker_, answers, work_queue_, helper, recv_kvs_, vals,
                   raced, aborted>>

\* The table's box comes with an empty recv_kvs_.
RegisterRecvHandle(t) ==
    /\ Goes(t, "creating", "running")
    /\ recv_handle_' = recv_handle_ \cup {Here(t)}
    /\ recv_kvs_' = Set(recv_kvs_, Here(t), <<>>)
    /\ mu_' = Nobody
    /\ Next_(t)
    /\ UNCHANGED <<given, recv_finish_handle_, tracker_, answers, work_queue_, helper, vals,
                   raced, aborted>>

RegisterRecvFinishHandle(t) ==
    /\ Goes(t, "registering", "registered")
    /\ recv_finish_handle_' = Set(recv_finish_handle_, Here(t), at[t])
    /\ mu_' = Nobody
    /\ UNCHANGED <<given, at, recv_handle_, tracker_, answers, work_queue_, helper, recv_kvs_,
                   vals, raced, aborted>>

SanityCheck(t) == Here(t) \in recv_handle_ /\ Here(t) \in DOMAIN recv_finish_handle_

Expects(t) == [expected |-> Cardinality(Slices(Call(t).keys)), current |-> 0]
NewRequest(t) ==
    /\ Goes(t, "registered", "requested") /\ mu_ = Nobody
    /\ aborted' = ~SanityCheck(t)
    /\ tracker_' = Set(tracker_, Here(t), Expects(t))
    /\ UNCHANGED <<given, at, mu_, maps, answers, work_queue_, helper, recv_kvs_, vals, raced>>

\* KVTableBox::Send; the answers come from several servers, in any order.
AnswersTo(t) == {[to |-> Here(t), slice |-> s] : s \in Slices(Call(t).keys)}
Send(t) ==
    /\ Goes(t, "requested", "checking")
    /\ answers' = answers \cup AnswersTo(t)
    /\ UNCHANGED <<given, at, mu_, maps, tracker_, work_queue_, helper, recv_kvs_, vals, raced,
                   aborted>>

Arrive ==
    /\ \E a \in answers :
          /\ Call(a.to[1]).op = "get"
          /\ work_queue_' = Append(work_queue_, a)
          /\ answers' = answers \ {a}
    /\ UNCHANGED <<given, at, place, mu_, maps, tracker_, helper, recv_kvs_, vals, raced, aborted>>

\* The test in cond_.wait, before it sleeps and whenever it has been woken.
Complete(k) == tracker_[k].expected = tracker_[k].current
WaitRequest(t) ==
    /\ place[t] = "checking" /\ mu_ = Nobody
    /\ IF Complete(Here(t)) THEN Goes(t, "checking", "running") /\ Next_(t)
                            ELSE Goes(t, "checking", "asleep") /\ UNCHANGED at
    /\ aborted' = ~SanityCheck(t)
    /\ UNCHANGED <<given, mu_, maps, tracker_, answers, work_queue_, helper, recv_kvs_, vals,
                   raced>>

WakeForNothing(t) ==
    /\ Goes(t, "asleep", "checking")
    /\ UNCHANGED <<given, at, mu_, maps, tracker_, answers, work_queue_, helper, recv_kvs_, vals,
                   raced, aborted>>
-----------------------------------------------------------------------------
\* AddResponse: is this the last answer? (under the lock)
BeginResponse ==
    /\ helper = Idle /\ work_queue_ # <<>> /\ mu_ = Nobody
    /\ LET a == Head(work_queue_)
       IN  helper' = [stage |-> "handle", to |-> a.to, slice |-> a.slice,
                      finish |-> tracker_[a.to].expected = tracker_[a.to].current + 1]
    /\ work_queue_' = Tail(work_queue_)
    /\ UNCHANGED <<given, at, place, mu_, maps, tracker_, answers, recv_kvs_, vals, raced, aborted>>

\* A look-up without the lock races with the first insertion of another thread
\* into the same map; a later one changes the map of that thread only.
Registers(t, step, map) == place[t] = step /\ \A k \in map : k[1] # t
Found(step, map, checks) ==
    LET fails == helper.to \notin map \/ ~checks
    IN  IF \E t \in AppThreads : Registers(t, step, map)
        THEN raced' = TRUE /\ aborted' \in {TRUE, fails}
        ELSE aborted' = fails /\ UNCHANGED raced

HandleMsg ==
    /\ helper.stage = "handle"
    /\ Found("creating", recv_handle_, TRUE)
    /\ recv_kvs_' = [recv_kvs_ EXCEPT ![helper.to] = Append(@, helper.slice)]
    /\ helper' = [helper EXCEPT !.stage = IF helper.finish THEN "finish" ELSE "count"]
    /\ UNCHANGED <<given, at, place, mu_, maps, tracker_, answers, work_queue_, vals>>

\* HandleFinish writes where the Get that registered it wants its values.
KeysOfTheGet(k) == lambdas[k[1]][recv_finish_handle_[k]].keys
HandleFinish ==
    /\ helper.stage = "finish"
    /\ Found("registering", DOMAIN recv_finish_handle_,
             Whole(KeysOfTheGet(helper.to), recv_kvs_[helper.to]))
    /\ vals' = [vals EXCEPT ![helper.to[1]] = Assembled(recv_kvs_[helper.to])]
    /\ recv_kvs_' = [recv_kvs_ EXCEPT ![helper.to] = <<>>]
    /\ helper' = [helper EXCEPT !.stage = "count"]
    /\ UNCHANGED <<given, at, place, mu_, maps, tracker_, answers, work_queue_>>

\* The answer is counted, under the lock again; the last one wakes everybody.
CountResponse ==
    /\ helper.stage = "count" /\ mu_ = Nobody
    /\ tracker_' = [tracker_ EXCEPT ![helper.to].current = @ + 1]
    /\ place' = [t \in AppThreads |-> IF helper.finish /\ place[t] = "asleep" THEN "checking"
                                                                          ELSE place[t]]
    /\ helper' = Idle
    /\ UNCHANGED <<given, at, mu_, maps, answers, work_queue_, recv_kvs_, vals, raced, aborted>>

-----------------------------------------------------------------------------
(* SimpleKVTable: a worker that takes the answers from a queue of its own.    *)
BeginSimpleGet(t) ==
    /\ Calls(t, "simple get") /\ Goes(t, "running", "receiving")
    /\ tracker_' = Set(tracker_, Here(t), Expects(t))
    /\ recv_kvs_' = IF Here(t) \in DOMAIN recv_kvs_ THEN recv_kvs_
                                              ELSE Set(recv_kvs_, Here(t), <<>>)
    /\ answers' = answers \cup AnswersTo(t)
    /\ UNCHANGED <<given, at, mu_, maps, work_queue_, helper, vals, raced, aborted>>

SimpleReceive(t) ==
    /\ place[t] = "receiving"
    /\ \E a \in answers :
          LET kvs  == Append(recv_kvs_[a.to], a.slice)
              last == tracker_[a.to].expected = tracker_[a.to].current + 1
          IN  /\ a.to = Here(t) /\ answers' = answers \ {a}
              /\ tracker_' = [tracker_ EXCEPT ![a.to].current = @ + 1]
              /\ recv_kvs_' = [recv_kvs_ EXCEPT ![a.to] = IF last THEN <<>> ELSE kvs]
              /\ vals' = [vals EXCEPT ![t] = IF last THEN Assembled(kvs) ELSE @]
              /\ aborted' = (last /\ ~Whole(Call(t).keys, kvs))
    /\ UNCHANGED <<given, at, place, mu_, maps, work_queue_, helper, raced>>

EndSimpleGet(t) ==
    /\ place[t] = "receiving" /\ Complete(Here(t))
    /\ Goes(t, "receiving", "running") /\ Next_(t)
    /\ UNCHANGED <<given, mu_, maps, tracker_, answers, work_queue_, helper, recv_kvs_, vals,
                   raced, aborted>>
-----------------------------------------------------------------------------
AppThread(t) ==
    \/ BeginRegister(t) \/ RegisterRecvHandle(t) \/ RegisterRecvFinishHandle(t)
    \/ NewRequest(t) \/ Send(t) \/ WaitRequest(t) \/ WakeForNothing(t)
    \/ BeginSimpleGet(t) \/ SimpleReceive(t) \/ EndSimpleGet(t)
AddResponse == BeginResponse \/ HandleMsg \/ HandleFinish \/ CountResponse

AllReturned == \A t \in AppThreads : at[t] > Len(lambdas[t])

BlockerNext ==
    \/ ~aborted /\ ((\E t \in AppThreads : AppThread(t)) \/ Arrive \/ AddResponse)
    \/ (aborted \/ AllReturned) /\ UNCHANGED blockerVars

BlockerSpec == BlockerInit /\ [][BlockerNext]_blockerVars
-----------------------------------------------------------------------------
Covered(keys) == keys[1] >= Head(ends) /\ Last(keys) < Last(ends)

\* Every server is asked for keys of its own range alone.
SlicesInRange ==
    \A t \in AppThreads : at[t] <= Len(lambdas[t]) /\ Call(t).op # "create" =>
        \A i \in 1 .. NumServers :
            LET slice == SliceFor(Call(t).keys, i)
            IN  \A j \in 1 .. Len(slice) : slice[j] >= ends[i] /\ slice[j] < ends[i + 1]

\* A Get that has returned got the value of its i-th key at the i-th place, in
\* whatever order the servers have answered; or it asked for keys beyond the
\* ranges only, and so no server.  If some of its keys lie beyond, they are
\* dropped, and the CHECK on lost servers in HandleFinish ends the process.
GetsHaveReturned(t) ==
    at[t] > 1 /\ place[t] = "running" /\ lambdas[t][at[t] - 1].op # "create" =>
        LET keys == lambdas[t][at[t] - 1].keys
        IN  IF Covered(keys) THEN vals[t] = keys ELSE Slices(keys) = {}
OnlyForLostServers ==
    aborted => \E t \in AppThreads :
        /\ place[t] = "receiving" \/ (helper.stage = "count" /\ helper.finish /\ helper.to[1] = t)
        /\ ~Covered(Call(t).keys)

\* As long as no look-up races with a first registration: a handle runs while
\* the Get that registered it, to whose variables it refers, is still waiting;
\* a Get that has returned got the values it asked for, none of an earlier Get;
\* nobody sleeps on a request that is complete; and every look-up finds its
\* handle (AddResponse counts in a second section of the lock, WaitRequest tests
\* in a third).
HandlesHaveTheirGet ==
    helper.stage \in {"handle", "finish"} =>
        LET t == helper.to[1]
        IN  /\ place[t] \in {"checking", "asleep"} /\ helper.to = Here(t)
            /\ recv_finish_handle_[helper.to] = at[t]
GetsAnswered ==
    ~raced =>
        /\ HandlesHaveTheirGet
        /\ \A t \in AppThreads : GetsHaveReturned(t)
        /\ \A t \in AppThreads : place[t] = "asleep" => ~Complete(Here(t))
        /\ OnlyForLostServers
=============================================================================
