--------------------------- MODULE BSPTableProofs ----------------------------
(***************************************************************************)
(* What is proved of a BSPTable for any number of workers, servers and keys,  *)
(* when the lambda Gets in every iteration, from every server: no CHECK of    *)
(* BSPModel fails, every answer is the table between two iterations, and the  *)
(* table implements BulkSynchrony.  The layers of the invariant: clocks,      *)
(* places of the Gets, Adds, answers.                                       *)
(***************************************************************************)
EXTENDS BSPTable, TableProofs

-----------------------------------------------------------------------------
(* First part of the invariant: types, exact minima, channels that tell time *)

ClockInv == TypeOK /\ MinClockExact /\ ChannelsTellTime

\* It is TimeInv, which TableProofs has for every model, and typed buffers.
LEMMA TypedParts == TypeOK => KVTypeOK /\ ServerTypeOK
BY DEF TypeOK
LEMMA ClockParts == ClockInv => TimeInv /\ TypeOK /\ KVTypeOK /\ ServerTypeOK
BY DEF ClockInv, TypeOK, TimeInv

LEMMA ClockInvInit == Init => ClockInv
<1> SUFFICES ASSUME Init PROVE ClockInv
  OBVIOUS
<1>1. TimeInv
  BY TimeInvInit DEF Init
<1>2. QED
  BY <1>1 DEF Init, ClockInv, TimeInv, TypeOK

LEMMA ClockInvCall ==
    ASSUME ClockInv, NEW w \in Workers, Client(w)
    PROVE  ClockInv'
<1>1. UNCHANGED serverVars
  BY DEF Client
<1>2. TimeInv'
  BY <1>1, ClockParts, TimeInvGet, TimeInvAdd, TimeInvClock DEF Client, serverVars
<1>3. QED
  BY <1>1, <1>2 DEF ClockInv, TimeInv, TypeOK, serverVars, buffers

LEMMA ClockInvHelper ==
    ASSUME ClockInv, NEW s \in Servers, NEW w \in Workers, Helper(s, w)
    PROVE  ClockInv'
<1>1. TimeInv'
  BY ClockParts, TimeInvHelper DEF Helper, serverVars
<1>2. QED
  BY <1>1 DEF ClockInv, TimeInv, TypeOK, Helper, serverVars, buffers

LEMMA ClockInvServerAdd ==
    ASSUME ClockInv, NEW s \in Servers, NEW w \in Workers, ServerAdd(s, w)
    PROVE  ClockInv'
<1> DEFINE m == Head(toServer[w][s])
<1>0. /\ TypeOK /\ KVTypeOK /\ ServerTypeOK /\ TimeInv
      /\ toServer[w][s] # <<>> /\ m.flag = "kAdd" /\ Dequeue(s, w)
      /\ UNCHANGED <<clientVars, toWorker, progress_tracker, storage, get_buffer>>
  BY ClockParts DEF ServerAdd, Received
<1>1. Increments(w, m) \in SUBSET Increment
  <2>1. m \in Request
    BY <1>0, Dequeued
  <2>2. \A k \in m.keys : [worker |-> w, iter |-> m.iter, key |-> k] \in Increment
    BY <2>1 DEF Request, Increment
  <2>3. QED
    BY <2>2 DEF Increments
<1>2. add_buffer' \in [Servers -> SUBSET Increment] /\ aborted' \in {"no", "Clock", "Add", "Get"}
  BY <1>0, <1>1 DEF ServerAdd, TypeOK
<1>3. TimeInv'
  BY <1>0, TimeInvServer DEF KVTypeOK, ServerTypeOK
<1>4. QED
  BY <1>0, <1>2, <1>3 DEF ClockInv, TimeInv, TypeOK

LEMMA ClockInvServerGet ==
    ASSUME ClockInv, NEW s \in Servers, NEW w \in Workers, ServerGet(s, w)
    PROVE  ClockInv'
<1> DEFINE m == Head(toServer[w][s])
           req == RequestOf(w, m)
           reqs == {req}
<1>0. /\ TypeOK /\ KVTypeOK /\ ServerTypeOK /\ TimeInv
      /\ toServer[w][s] # <<>> /\ m.flag = "kGet" /\ Dequeue(s, w)
      /\ UNCHANGED <<clientVars, progress_tracker, storage, add_buffer>>
  BY ClockParts DEF ServerGet, Received
<1>1. req \in Pending
  BY <1>0, Dequeued DEF Request, Pending, RequestOf
<1>2. reqs \in SUBSET Pending
  BY <1>1
<1> HIDE DEF reqs
<1>3. /\ \/ UNCHANGED toWorker
         \/ Reply(s, storage[s], reqs)
      /\ \/ UNCHANGED get_buffer
         \/ get_buffer' = [get_buffer EXCEPT ![s] = @ \cup reqs]
      /\ aborted' = aborted \/ aborted' = "Get"
  BY DEF ServerGet, reqs
<1>4. toWorker' \in [Servers -> [Workers -> Seq(Answer)]]
  <2>1. storage[s] \in SUBSET Increment
    BY <1>0 DEF ServerTypeOK
  <2>2. QED
    BY <1>0, <1>2, <1>3, <2>1, ReplyType DEF KVTypeOK
<1>5. /\ get_buffer' \in [Servers -> SUBSET Pending]
      /\ aborted' \in {"no", "Clock", "Add", "Get"}
  BY <1>0, <1>2, <1>3 DEF TypeOK
<1>6. TimeInv'
  BY <1>0, <1>4, TimeInvServer DEF ServerTypeOK
<1>7. QED
  BY <1>0, <1>5, <1>6 DEF ClockInv, TimeInv, TypeOK

LEMMA ClockInvServerClock ==
    ASSUME ClockInv, NEW s \in Servers, NEW w \in Workers, ServerClock(s, w)
    PROVE  ClockInv'
<1> DEFINE m == Head(toServer[w][s])
<1>0. /\ TypeOK /\ KVTypeOK /\ ServerTypeOK /\ TimeInv
      /\ toServer[w][s] # <<>> /\ m.flag = "kClock" /\ Dequeue(s, w)
      /\ progress_tracker' = [progress_tracker EXCEPT ![s] = Advance(@, w)]
      /\ UNCHANGED clientVars
  BY ClockParts DEF ServerClock, Received
<1>1. \/ UNCHANGED <<storage, get_buffer, add_buffer, toWorker>>
      \/ /\ storage' = [storage EXCEPT ![s] = @ \cup add_buffer[s]]
         /\ add_buffer' = [add_buffer EXCEPT ![s] = {}]
         /\ Reply(s, StorageAfter(s), get_buffer[s])
         /\ get_buffer' = [get_buffer EXCEPT ![s] = {}]
  BY DEF ServerClock, buffers
<1>2. StorageAfter(s) \in SUBSET Increment /\ get_buffer[s] \in SUBSET Pending
  BY <1>0 DEF StorageAfter, TypeOK, ServerTypeOK
<1>3. toWorker' \in [Servers -> [Workers -> Seq(Answer)]]
  BY <1>0, <1>1, <1>2, ReplyType DEF KVTypeOK
<1>4. /\ storage' \in [Servers -> SUBSET Increment]
      /\ get_buffer' \in [Servers -> SUBSET Pending]
      /\ add_buffer' \in [Servers -> SUBSET Increment]
  BY <1>0, <1>1 DEF TypeOK, ServerTypeOK
<1>5. aborted' \in {"no", "Clock"}
  BY DEF ServerClock
<1>6. TimeInv'
  BY <1>0, <1>3, <1>4, TimeInvServer
<1>7. QED
  BY <1>4, <1>5, <1>6 DEF ClockInv, TimeInv, TypeOK

LEMMA ClockInvNext == ClockInv /\ [Next]_vars => ClockInv'
<1> SUFFICES ASSUME ClockInv, [Next]_vars PROVE ClockInv'
  OBVIOUS
<1>1. ASSUME NEW w \in Workers, Client(w) PROVE ClockInv'
  BY <1>1, ClockInvCall
<1>2. ASSUME NEW s \in Servers, NEW w \in Workers, Server(s, w) PROVE ClockInv'
  BY <1>2, ClockInvServerClock, ClockInvServerAdd, ClockInvServerGet DEF Server
<1>3. ASSUME NEW s \in Servers, NEW w \in Workers, Helper(s, w) PROVE ClockInv'
  BY <1>3, ClockInvHelper
<1>4. CASE UNCHANGED vars
  BY <1>4 DEF vars, kvVars, clientVars, serverVars, buffers, ClockInv, TypeOK, ServerTypeOK, KVTypeOK,
              MinClockExact, ChannelsTellTime, Progress
<1>5. QED
  BY <1>1, <1>2, <1>3, <1>4 DEF Next, TaskDone

-----------------------------------------------------------------------------
(* Second part: where the Gets are.  The lemmas are those of SSPTableProofs,  *)
(* with a buffer that is emptied as a whole.                                *)

GetInv == GetsLocated /\ ResponsesCounted

Located3(w, s) == Sent(w, s) \/ Parked(w, s) \/ Answered(w, s)

LEMMA OutstandingFinite ==
    ASSUME NEW w
    PROVE  IsFiniteSet(Outstanding(w)) /\ Cardinality(Outstanding(w)) \in Nat
<1>1. Outstanding(w) \subseteq Servers
  BY DEF Outstanding
<1>2. QED
  BY <1>1, TableAssumption, FS_Subset, FS_CardinalityType

\* AppBlocker's counters are level exactly when nothing is outstanding.
LEMMA WaitingIsOutstanding ==
    ASSUME TypeOK, ResponsesCounted, NEW w \in Workers
    PROVE  Waiting(w) <=> Outstanding(w) # {}
<1>1. tracker[w].expected \in Nat /\ tracker[w].current \in Nat
  BY DEF TypeOK, ServerTypeOK, KVTypeOK
<1>2. Waiting(w) <=> Cardinality(Outstanding(w)) # 0
  BY <1>1, OutstandingFinite DEF ResponsesCounted, Waiting
<1>3. QED
  BY <1>2, OutstandingFinite, FS_EmptySet

LEMMA IdleHasNothing ==
    ASSUME TypeOK, ResponsesCounted, NEW w \in Workers, ~Waiting(w), NEW s \in Servers
    PROVE  ~Sent(w, s) /\ ~Parked(w, s) /\ ~Answered(w, s)
BY WaitingIsOutstanding DEF Outstanding

LEMMA LocatedUnchanged ==
    ASSUME NEW w \in Workers, NEW s \in Servers, Located(w, s),
           toServer'[w][s] = toServer[w][s], toWorker'[s][w] = toWorker[s][w],
           want'[w] = want[w], Parked(w, s)' <=> Parked(w, s)
    PROVE  /\ Located(w, s)'
           /\ Sent(w, s)' <=> Sent(w, s)
           /\ Answered(w, s)' <=> Answered(w, s)
BY DEF Located, Sent, Answered

LEMMA GetInvInit == Init => GetInv
<1> SUFFICES ASSUME Init PROVE GetInv
  OBVIOUS
<1>1. ASSUME NEW w \in Workers, NEW s \in Servers
      PROVE  /\ toServer[w][s] = <<>> /\ toWorker[s][w] = <<>>
             /\ Messages(toServer[w][s]) = {}
             /\ Len(toServer[w][s]) = 0
  BY EmptySeq DEF Init, ServerInit, KVInit, Messages
<1>2. \A s \in Servers : get_buffer[s] = {}
  BY DEF Init, ServerInit
<1>3. \A w \in Workers, s \in Servers : ~Sent(w, s) /\ ~Parked(w, s) /\ ~Answered(w, s)
  BY <1>1, <1>2 DEF Sent, Parked, Answered
<1>4. GetsLocated
  BY <1>1, <1>3 DEF GetsLocated, Located
<1>5. ResponsesCounted
  <2>1. \A w \in Workers : Outstanding(w) = {}
    BY <1>3 DEF Outstanding
  <2>2. \A w \in Workers : tracker[w].expected = 0 /\ tracker[w].current = 0
    BY DEF Init, ServerInit, KVInit
  <2>3. \A w \in Workers : Cardinality(Outstanding(w)) = 0
    BY <2>1, FS_EmptySet
  <2>4. QED
    BY <2>2, <2>3 DEF ResponsesCounted
<1>6. QED
  BY <1>4, <1>5 DEF GetInv

LEMMA GetInvGet ==
    ASSUME TypeOK, GetInv, NEW w \in Workers, NEW K \in GetKeys,
           ClientGet(w, K), UNCHANGED serverVars
    PROVE  GetInv'
<1> DEFINE m(s) == Slice(w, "kGet", K, s)
<1>0. /\ K \in SUBSET Keys /\ Send(w, "kGet", K) /\ ~Waiting(w)
      /\ want' = [want EXCEPT ![w] = K]
      /\ tracker' = [tracker EXCEPT ![w] = [expected |-> Cardinality(Involved(K)), current |-> 0]]
      /\ UNCHANGED <<clock, toWorker, get_buffer, progress_tracker>>
  BY TableAssumption DEF ClientGet, NumReqs, serverVars, buffers
<1>1. want'[w] = K /\ \A v \in Workers : v # w => want'[v] = want[v]
  BY <1>0 DEF TypeOK, ServerTypeOK, KVTypeOK
<1>2. \A v \in Workers, s \in Servers : /\ Parked(v, s)' <=> Parked(v, s)
                                        /\ Answered(v, s)' <=> Answered(v, s)
  BY <1>0 DEF Parked, Answered
<1>3. ASSUME NEW s \in Servers
      PROVE  ~Sent(w, s) /\ ~Parked(w, s) /\ ~Answered(w, s)
  BY <1>0, IdleHasNothing DEF GetInv
<1>4. ASSUME NEW s \in Servers
      PROVE  Located(w, s)' /\ (Sent(w, s)' <=> s \in Involved(K))
  <2> DEFINE q == toServer[w][s]
  <2>1. \A x \in Messages(q) : x.flag # "kGet"
    BY <1>3 DEF Sent
  <2>2. CASE s \in Involved(K)
    <3>1. /\ q \in Seq(Request) /\ m(s) \in Request
          /\ toServer'[w][s] = Append(q, m(s))
          /\ Messages(toServer'[w][s]) = Messages(q) \cup {m(s)}
      <4>1. KVTypeOK /\ q \in Seq(Request)
        BY DEF TypeOK, KVTypeOK
      <4>2. QED
        BY <1>0, <2>2, <4>1, SendEffect
    <3>2. m(s).flag = "kGet" /\ m(s).keys = SliceOf(K, s)
      BY DEF Slice
    <3>3. /\ Len(toServer'[w][s]) = Len(q) + 1 /\ Len(q) \in Nat
          /\ \A i \in 1 .. Len(q) : toServer'[w][s][i] = q[i] /\ q[i] \in Messages(q)
      BY <3>1, PushOne DEF Messages
    <3>4. \A i \in 1 .. Len(toServer'[w][s]) - 1 : toServer'[w][s][i].flag # "kGet"
      BY <2>1, <3>3
    <3>5. Sent(w, s)'
      BY <3>1, <3>2 DEF Sent
    <3>6. \A x \in Messages(toServer'[w][s]) : x.flag = "kGet" => x.keys = SliceOf(want'[w], s)
      BY <1>1, <2>1, <3>1, <3>2
    <3>7. QED
      BY <1>2, <1>3, <2>2, <3>4, <3>5, <3>6 DEF Located
  <2>3. CASE s \notin Involved(K)
    <3>1. toServer'[w][s] = q
      BY <1>0, <2>3, SendEffect, TypedParts
    <3>2. ~Sent(w, s)'
      BY <1>3, <3>1 DEF Sent
    <3>3. Located(w, s)
      BY DEF GetInv, GetsLocated
    <3>4. QED
      BY <1>2, <1>3, <2>1, <2>3, <3>1, <3>2, <3>3 DEF Located
  <2>4. QED
    BY <2>2, <2>3
<1>5. ASSUME NEW v \in Workers, v # w, NEW s \in Servers
      PROVE  Located(v, s)' /\ (Sent(v, s)' <=> Sent(v, s))
  <2>1. toServer'[v][s] = toServer[v][s] /\ toWorker'[s][v] = toWorker[s][v] /\ want'[v] = want[v]
    BY <1>0, <1>1, <1>5, SendEffect, TypedParts
  <2>2. Located(v, s)
    BY DEF GetInv, GetsLocated
  <2>3. QED
    BY <1>2, <2>1, <2>2, LocatedUnchanged
<1>6. GetsLocated'
  BY <1>4, <1>5 DEF GetsLocated
<1>7. ResponsesCounted'
  <2> SUFFICES ASSUME NEW v \in Workers
               PROVE  tracker'[v].expected = tracker'[v].current + Cardinality(Outstanding(v)')
    BY DEF ResponsesCounted
  <2>1. CASE v = w
    <3>1. Outstanding(w)' = Involved(K)
      <4>1. Involved(K) \subseteq Servers
        BY <1>0, TableAssumption DEF Involved
      <4>2. \A s \in Servers : (Sent(w, s)' \/ Parked(w, s)' \/ Answered(w, s)') <=> s \in Involved(K)
        BY <1>2, <1>3, <1>4
      <4>3. QED
        BY <4>1, <4>2 DEF Outstanding
    <3>2. tracker'[w] = [expected |-> Cardinality(Involved(K)), current |-> 0]
      BY <1>0 DEF TypeOK, ServerTypeOK, KVTypeOK
    <3>3. Cardinality(Involved(K)) \in Nat
      BY <3>1, <1>0, TableAssumption, FS_Subset, FS_CardinalityType DEF Involved
    <3>4. QED
      BY <2>1, <3>1, <3>2, <3>3
  <2>2. CASE v # w
    <3>1. Outstanding(v)' = Outstanding(v)
      BY <1>2, <1>5, <2>2 DEF Outstanding
    <3>2. tracker'[v] = tracker[v]
      BY <1>0, <2>2 DEF TypeOK, ServerTypeOK, KVTypeOK
    <3>3. QED
      BY <3>1, <3>2 DEF GetInv, ResponsesCounted
  <2>3. QED
    BY <2>1, <2>2
<1>8. QED
  BY <1>6, <1>7 DEF GetInv

\* A worker without an open Get sends something that is no Get: an Add to
\* some servers, a Clock to all.
LEMMA GetInvOtherCall ==
    ASSUME TypeOK, GetInv, NEW w \in Workers, ~Waiting(w),
           UNCHANGED <<toWorker, get_buffer, progress_tracker, tracker>>,
           \A v \in Workers : v # w => want'[v] = want[v] /\ clock'[v] = clock[v],
           \A v \in Workers, s \in Servers :
               \/ toServer'[v][s] = toServer[v][s]
               \/ /\ v = w
                  /\ \E m \in Request : m.flag # "kGet" /\ toServer'[v][s] = Append(toServer[v][s], m)
    PROVE  GetInv'
<1>1. \A v \in Workers, s \in Servers : /\ Parked(v, s)' <=> Parked(v, s)
                                        /\ Answered(v, s)' <=> Answered(v, s)
  BY DEF Parked, Answered
<1>2. ASSUME NEW s \in Servers
      PROVE  ~Sent(w, s) /\ ~Parked(w, s) /\ ~Answered(w, s)
  BY IdleHasNothing DEF GetInv
<1>3. ASSUME NEW s \in Servers
      PROVE  Located(w, s)' /\ ~Sent(w, s)'
  <2> DEFINE q == toServer[w][s]
  <2>1. \A x \in Messages(q) : x.flag # "kGet"
    BY <1>2 DEF Sent
  <2>2. CASE toServer'[w][s] = q
    <3>1. \A i \in 1 .. Len(q) - 1 : q[i].flag # "kGet"
      BY DEF GetInv, GetsLocated, Located
    <3>2. QED
      BY <1>1, <1>2, <2>1, <2>2, <3>1 DEF Located, Sent
  <2>3. CASE \E m \in Request : m.flag # "kGet" /\ toServer'[w][s] = Append(q, m)
    <3>1. PICK m \in Request : m.flag # "kGet" /\ toServer'[w][s] = Append(q, m)
      BY <2>3
    <3>2. q \in Seq(Request)
      BY DEF TypeOK, ServerTypeOK, KVTypeOK
    <3>3. Messages(toServer'[w][s]) = Messages(q) \cup {m}
      BY <3>1, <3>2, MessagesPush
    <3>4. /\ Len(toServer'[w][s]) = Len(q) + 1 /\ Len(q) \in Nat
          /\ \A i \in 1 .. Len(q) : toServer'[w][s][i] = q[i] /\ q[i] \in Messages(q)
      BY <3>1, <3>2, PushOne DEF Messages
    <3>5. \A i \in 1 .. Len(toServer'[w][s]) - 1 : toServer'[w][s][i].flag # "kGet"
      BY <2>1, <3>4
    <3>6. \A x \in Messages(toServer'[w][s]) : x.flag # "kGet"
      BY <2>1, <3>1, <3>3
    <3>7. ~Sent(w, s)'
      BY <3>6 DEF Sent
    <3>8. QED
      BY <1>1, <1>2, <3>5, <3>6, <3>7 DEF Located
  <2>4. QED
    BY <2>2, <2>3
<1>4. ASSUME NEW v \in Workers, v # w, NEW s \in Servers
      PROVE  Located(v, s)' /\ (Sent(v, s)' <=> Sent(v, s))
  <2>1. toServer'[v][s] = toServer[v][s] /\ toWorker'[s][v] = toWorker[s][v] /\ want'[v] = want[v]
    BY <1>4
  <2>2. Located(v, s)
    BY DEF GetInv, GetsLocated
  <2>3. QED
    BY <1>1, <2>1, <2>2, LocatedUnchanged
<1>5. GetsLocated'
  BY <1>3, <1>4 DEF GetsLocated
<1>6. ResponsesCounted'
  <2>1. ASSUME NEW v \in Workers PROVE Outstanding(v)' = Outstanding(v)
    BY <1>1, <1>2, <1>3, <1>4 DEF Outstanding
  <2>2. QED
    BY <2>1 DEF GetInv, ResponsesCounted
<1>7. QED
  BY <1>5, <1>6 DEF GetInv

LEMMA GetInvAdd ==
    ASSUME TypeOK, GetInv, NEW w \in Workers, NEW K \in AddKeys,
           ClientAdd(w, K), UNCHANGED serverVars
    PROVE  GetInv'
<1>1. /\ K \in SUBSET Keys /\ Send(w, "kAdd", K) /\ ~Waiting(w)
      /\ UNCHANGED <<clock, want, toWorker, get_buffer, progress_tracker, tracker>>
  BY TableAssumption DEF ClientAdd, serverVars, buffers
<1>2. ASSUME NEW v \in Workers, NEW s \in Servers
      PROVE  \/ toServer'[v][s] = toServer[v][s]
             \/ /\ v = w
                /\ \E m \in Request : m.flag # "kGet" /\ toServer'[v][s] = Append(toServer[v][s], m)
  <2>1. Slice(w, "kAdd", K, s).flag # "kGet"
    BY DEF Slice
  <2>2. /\ Slice(w, "kAdd", K, s) \in Request
        /\ s \in Involved(K) => toServer'[w][s] = Append(toServer[w][s], Slice(w, "kAdd", K, s))
        /\ s \notin Involved(K) => toServer'[w][s] = toServer[w][s]
        /\ v # w => toServer'[v][s] = toServer[v][s]
    BY <1>1, SendEffect, TypedParts
  <2>3. QED
    BY <2>1, <2>2
<1>3. QED
  BY <1>1, <1>2, GetInvOtherCall

LEMMA GetInvClock ==
    ASSUME TypeOK, GetInv, NEW w \in Workers, ClientClock(w), UNCHANGED serverVars
    PROVE  GetInv'
<1>1. /\ ~Waiting(w)
      /\ UNCHANGED <<toWorker, get_buffer, progress_tracker, tracker>>
      /\ \A v \in Workers : v # w => want'[v] = want[v] /\ clock'[v] = clock[v]
  BY DEF ClientClock, serverVars, buffers, TypeOK, ServerTypeOK, KVTypeOK
<1>2. ASSUME NEW v \in Workers, NEW s \in Servers
      PROVE  \/ toServer'[v][s] = toServer[v][s]
             \/ /\ v = w
                /\ \E m \in Request : m.flag # "kGet" /\ toServer'[v][s] = Append(toServer[v][s], m)
  <2> DEFINE m == [flag |-> "kClock", keys |-> {}, iter |-> clock[w]]
  <2>1. m.flag # "kGet"
    OBVIOUS
  <2>2. /\ m \in Request /\ toServer'[w][s] = Append(toServer[w][s], m)
        /\ v # w => toServer'[v][s] = toServer[v][s]
    BY ClockEffect, TypedParts
  <2> HIDE DEF m
  <2>3. QED
    BY <2>1, <2>2
<1>3. QED
  BY <1>1, <1>2, GetInvOtherCall

LEMMA GetInvHelper ==
    ASSUME TypeOK, GetInv, NEW s \in Servers, NEW w \in Workers, Helper(s, w)
    PROVE  GetInv'
<1>0. /\ toWorker[s][w] # <<>>
      /\ toWorker' = [toWorker EXCEPT ![s][w] = Tail(@)]
      /\ tracker' = [tracker EXCEPT ![w].current = @ + 1]
      /\ UNCHANGED <<clock, want, toServer, get_buffer, progress_tracker>>
  BY DEF Helper, HelperResponse, HandleFinish, HandleMsg, serverVars, buffers
<1>1. \A v \in Workers, x \in Servers : /\ Parked(v, x)' <=> Parked(v, x)
                                        /\ Sent(v, x)' <=> Sent(v, x)
  BY <1>0 DEF Parked, Sent
<1>2. Answered(w, s) /\ ~Parked(w, s) /\ ~Sent(w, s) /\ Len(toWorker[s][w]) = 1
  BY <1>0 DEF GetInv, GetsLocated, Located, Answered
<1>3. toWorker'[s][w] = <<>>
  <2>1. toWorker[s][w] \in Seq(Answer)
    BY DEF TypeOK, ServerTypeOK, KVTypeOK
  <2>2. Tail(toWorker[s][w]) \in Seq(Answer) /\ Len(Tail(toWorker[s][w])) = 0
    BY <1>0, <1>2, <2>1, HeadTailProperties
  <2>3. Tail(toWorker[s][w]) = <<>>
    BY <2>2, EmptySeq
  <2>4. QED
    BY <1>0, <2>3 DEF TypeOK, ServerTypeOK, KVTypeOK
<1>4. \A v \in Workers, x \in Servers : (v # w \/ x # s) => toWorker'[x][v] = toWorker[x][v]
  BY <1>0 DEF TypeOK, ServerTypeOK, KVTypeOK
<1>5. ASSUME NEW v \in Workers, NEW x \in Servers PROVE Located(v, x)'
  <2>1. Located(v, x)
    BY DEF GetInv, GetsLocated
  <2>2. CASE v = w /\ x = s
    <3>1. ~Answered(v, x)'
      BY <1>3, <2>2 DEF Answered
    <3>2. QED
      BY <1>0, <1>1, <2>1, <3>1 DEF Located
  <2>3. CASE v # w \/ x # s
    BY <1>0, <1>1, <1>4, <2>1, <2>3, LocatedUnchanged
  <2>4. QED
    BY <2>2, <2>3
<1>6. ResponsesCounted'
  <2> SUFFICES ASSUME NEW v \in Workers
               PROVE  tracker'[v].expected = tracker'[v].current + Cardinality(Outstanding(v)')
    BY DEF ResponsesCounted
  <2>0. tracker[v].expected = tracker[v].current + Cardinality(Outstanding(v))
    BY DEF GetInv, ResponsesCounted
  <2>1. CASE v = w
    <3>1. Outstanding(w)' = Outstanding(w) \ {s}
      <4>1. ~Sent(w, s)' /\ ~Parked(w, s)' /\ ~Answered(w, s)'
        BY <1>1, <1>2, <1>3 DEF Answered
      <4>2. \A x \in Servers : x # s => (Answered(w, x)' <=> Answered(w, x))
        BY <1>4 DEF Answered
      <4>3. QED
        BY <1>1, <4>1, <4>2 DEF Outstanding
    <3>2. s \in Outstanding(w)
      BY <1>2 DEF Outstanding
    <3>3. Cardinality(Outstanding(w)') = Cardinality(Outstanding(w)) - 1
      BY <3>1, <3>2, OutstandingFinite, FS_RemoveElement
    <3>4. /\ tracker'[w].expected = tracker[w].expected
          /\ tracker'[w].current = tracker[w].current + 1
          /\ tracker[w].current \in Nat
      BY <1>0 DEF TypeOK, ServerTypeOK, KVTypeOK
    <3>5. Cardinality(Outstanding(w)) \in Nat
      BY OutstandingFinite
    <3>6. QED
      BY <2>0, <2>1, <3>3, <3>4, <3>5
  <2>2. CASE v # w
    <3>1. Outstanding(v)' = Outstanding(v)
      BY <1>1, <1>4, <2>2 DEF Outstanding, Answered
    <3>2. tracker'[v] = tracker[v]
      BY <1>0, <2>2 DEF TypeOK, ServerTypeOK, KVTypeOK
    <3>3. QED
      BY <2>0, <3>1, <3>2
  <2>3. QED
    BY <2>1, <2>2
<1>7. QED
  BY <1>5, <1>6 DEF GetInv, GetsLocated

\* The places of a Get may change in a server's step, not how many there are.
LEMMA CountUnchanged ==
    ASSUME ResponsesCounted, UNCHANGED tracker,
           \A v \in Workers, x \in Servers : Located3(v, x)' <=> Located3(v, x)
    PROVE  ResponsesCounted'
<1>1. ASSUME NEW v \in Workers PROVE Outstanding(v)' = Outstanding(v)
  BY DEF Outstanding, Located3
<1>2. QED
  BY <1>1 DEF ResponsesCounted

\* The channel behind a message: shorter by one, the rest in its place.
LEMMA TailLocated ==
    ASSUME ClockInv, NEW s \in Servers, NEW w \in Workers, Located(w, s),
           toServer[w][s] # <<>>, Dequeue(s, w)
    PROVE  /\ \A i \in 1 .. Len(toServer'[w][s]) - 1 : toServer'[w][s][i].flag # "kGet"
           /\ Head(toServer[w][s]).flag = "kGet" => toServer'[w][s] = <<>>
           /\ Messages(toServer[w][s]) = Messages(toServer'[w][s]) \cup {Head(toServer[w][s])}
           /\ ~Parked(w, s) /\ ~Answered(w, s)
<1> DEFINE q == toServer[w][s]
<1>0. TypeOK /\ KVTypeOK
  BY DEF ClockInv, TypeOK, ServerTypeOK
<1>1. q \in Seq(Request) /\ toServer'[w][s] = Tail(q)
  BY <1>0 DEF Dequeue, KVTypeOK
<1>2. /\ Head(q) = q[1] /\ Tail(q) \in Seq(Request)
      /\ Len(q) \in Nat \ {0} /\ Len(Tail(q)) = Len(q) - 1
      /\ \A i \in 1 .. Len(q) - 1 : Tail(q)[i] = q[i + 1]
  BY <1>1, PopOne
<1>3. \A i \in 1 .. Len(q) - 1 : q[i].flag # "kGet"
  BY DEF Located
<1>4. \A i \in 1 .. Len(Tail(q)) - 1 : Tail(q)[i].flag # "kGet"
  <2> TAKE i \in 1 .. Len(Tail(q)) - 1
  <2>1. i + 1 \in 1 .. Len(q) - 1 /\ i \in 1 .. Len(q) - 1
    BY <1>2
  <2>2. QED
    BY <1>2, <1>3, <2>1
<1>5. q[1].flag = "kGet" => Tail(q) = <<>>
  <2> SUFFICES ASSUME q[1].flag = "kGet" PROVE Tail(q) = <<>>
    OBVIOUS
  <2>1. ~(1 \in 1 .. Len(q) - 1)
    BY <1>3
  <2>2. Len(q) = 1
    <3> DEFINE n == Len(q)
    <3>1. n \in Nat \ {0} /\ ~(1 \in 1 .. n - 1)
      BY <1>2, <2>1
    <3> HIDE DEF n
    <3>2. n = 1
      BY <3>1
    <3>3. QED
      BY <3>2 DEF n
  <2>3. Len(Tail(q)) = 0
    BY <1>2, <2>2
  <2>4. QED
    BY <1>2, <2>3, EmptySeq
<1>6. ~Parked(w, s) /\ ~Answered(w, s)
  BY DEF Located
<1>7. QED
  BY <1>0, <1>1, <1>2, <1>4, <1>5, <1>6, DequeueEffect, TypedParts

LEMMA GetInvServerAdd ==
    ASSUME ClockInv, GetInv, NEW s \in Servers, NEW w \in Workers, ServerAdd(s, w)
    PROVE  GetInv' /\ \A v \in Workers, x \in Servers : Located3(v, x)' <=> Located3(v, x)
<1> DEFINE h == Head(toServer[w][s])
<1>0. /\ toServer[w][s] # <<>> /\ h.flag = "kAdd" /\ Dequeue(s, w)
      /\ UNCHANGED <<clock, want, tracker, toWorker, get_buffer>>
      /\ TypeOK
  BY DEF ServerAdd, Received, clientVars, ClockInv
<1>1. \A v \in Workers, x \in Servers : /\ Parked(v, x)' <=> Parked(v, x)
                                        /\ Answered(v, x)' <=> Answered(v, x)
  BY <1>0 DEF Parked, Answered
<1>2. \A v \in Workers, x \in Servers : (v # w \/ x # s) => toServer'[v][x] = toServer[v][x]
  BY <1>0, DequeueEffect, TypedParts
<1>3. /\ \A i \in 1 .. Len(toServer'[w][s]) - 1 : toServer'[w][s][i].flag # "kGet"
      /\ Messages(toServer[w][s]) = Messages(toServer'[w][s]) \cup {h}
      /\ ~Parked(w, s) /\ ~Answered(w, s)
  BY <1>0, TailLocated DEF GetInv, GetsLocated
<1>4. Sent(w, s)' <=> Sent(w, s)
  BY <1>0, <1>3 DEF Sent
<1>5. ASSUME NEW v \in Workers, NEW x \in Servers
      PROVE  Located(v, x)' /\ (Located3(v, x)' <=> Located3(v, x))
  <2>1. Located(v, x)
    BY DEF GetInv, GetsLocated
  <2>2. CASE v = w /\ x = s
    <3>1. \A m \in Messages(toServer'[w][s]) : m.flag = "kGet" => m.keys = SliceOf(want'[w], s)
      BY <1>0, <1>3, <2>1, <2>2 DEF Located
    <3>2. QED
      BY <1>1, <1>3, <1>4, <2>2, <3>1 DEF Located, Located3
  <2>3. CASE v # w \/ x # s
    <3>1. Located(v, x)' /\ (Sent(v, x)' <=> Sent(v, x))
      BY <1>0, <1>1, <1>2, <2>1, <2>3, LocatedUnchanged
    <3>2. QED
      BY <1>1, <3>1 DEF Located3
  <2>4. QED
    BY <2>2, <2>3
<1>6. ResponsesCounted'
  BY <1>0, <1>5, CountUnchanged DEF GetInv
<1>7. QED
  BY <1>5, <1>6 DEF GetInv, GetsLocated

\* What a server does with the Get at the head of a channel, which is the last
\* message in it: the worker's clock is the progress that the server judges by.
LEMMA GetTaken ==
    ASSUME ClockInv, GetInv, NEW s \in Servers, NEW w \in Workers, ServerGet(s, w)
    PROVE  LET h == Head(toServer[w][s])
               req == RequestOf(w, h)
           IN  /\ toServer'[w][s] = <<>> /\ Messages(toServer'[w][s]) = {}
               /\ Messages(toServer[w][s]) = {h} /\ h.flag = "kGet" /\ h \in Request
               /\ \A v \in Workers, x \in Servers :
                     (v # w \/ x # s) => toServer'[v][x] = toServer[v][x]
               /\ ~Parked(w, s) /\ ~Answered(w, s) /\ Sent(w, s)
               /\ req \in Pending /\ req.sender = w /\ req.keys = SliceOf(want[w], s)
               /\ clock[w] = Progress(s, w)
<1> DEFINE h == Head(toServer[w][s])
           req == RequestOf(w, h)
<1>0. /\ toServer[w][s] # <<>> /\ h.flag = "kGet" /\ Dequeue(s, w)
      /\ TypeOK /\ KVTypeOK
  BY ClockParts DEF ServerGet, Received
<1>1. /\ h \in Request
      /\ \A v \in Workers, x \in Servers : (v # w \/ x # s) => toServer'[v][x] = toServer[v][x]
  BY <1>0, DequeueEffect
<1>2. /\ toServer'[w][s] = <<>>
      /\ Messages(toServer[w][s]) = Messages(toServer'[w][s]) \cup {h}
      /\ ~Parked(w, s) /\ ~Answered(w, s)
  BY <1>0, TailLocated DEF GetInv, GetsLocated
<1>3. Messages(toServer'[w][s]) = {}
  BY <1>2, EmptySeq DEF Messages
<1>4. Sent(w, s)
  BY <1>0, <1>2 DEF Sent
<1>5. h.keys = SliceOf(want[w], s)
  BY <1>0, <1>2 DEF GetInv, GetsLocated, Located
<1>6. req \in Pending /\ req.sender = w /\ req.keys = SliceOf(want[w], s)
  BY <1>1, <1>5 DEF RequestOf, Request, Pending
<1>7. clock[w] = Progress(s, w)
  <2>1. h.iter = Progress(s, w) /\ TellsTime(toServer'[w][s], ClockAfter(h), clock[w])
    <3>1. TimeInv
      BY ClockParts
    <3>2. h.iter = Progress(s, w) /\ TellsTime(Tail(toServer[w][s]), ClockAfter(h), clock[w])
          /\ toServer'[w][s] = Tail(toServer[w][s])
      BY <1>0, <3>1, Dequeued
    <3>3. QED
      BY <3>2
  <2>2. ClockAfter(h) = Progress(s, w)
    BY <1>0, <2>1 DEF ClockAfter
  <2>3. QED
    BY <1>2, <2>1, <2>2 DEF TellsTime
<1> HIDE DEF h, req
<1>8. QED
  BY <1>0, <1>1, <1>2, <1>3, <1>4, <1>6, <1>7 DEF h, req

LEMMA GetInvServerGet ==
    ASSUME ClockInv, GetInv, NEW s \in Servers, NEW w \in Workers, ServerGet(s, w), aborted' = "no"
    PROVE  GetInv' /\ \A v \in Workers, x \in Servers : Located3(v, x)' <=> Located3(v, x)
<1> DEFINE req == RequestOf(w, Head(toServer[w][s]))
<1>0. /\ UNCHANGED <<clock, want, tracker>>
      /\ TypeOK /\ KVTypeOK
  BY ClockParts DEF ServerGet, clientVars
<1>1. /\ toServer'[w][s] = <<>> /\ Messages(toServer'[w][s]) = {}
      /\ \A v \in Workers, x \in Servers : (v # w \/ x # s) => toServer'[v][x] = toServer[v][x]
      /\ ~Parked(w, s) /\ ~Answered(w, s) /\ Sent(w, s)
      /\ req \in Pending /\ req.sender = w
  BY GetTaken
<1>2. Len(toServer'[w][s]) = 0 /\ ~Sent(w, s)'
  BY <1>1, EmptySeq DEF Sent
<1>3. \A i \in 1 .. Len(toServer'[w][s]) - 1 : toServer'[w][s][i].flag # "kGet"
  BY <1>2
<1>4. \/ OneAhead(s, w) /\ get_buffer' = [get_buffer EXCEPT ![s] = @ \cup {req}] /\ toWorker' = toWorker
      \/ Reply(s, storage[s], {req}) /\ get_buffer' = get_buffer
  BY DEF ServerGet
<1> HIDE DEF req
<1>5. CASE get_buffer' = [get_buffer EXCEPT ![s] = @ \cup {req}] /\ toWorker' = toWorker
  <2>1. /\ get_buffer'[s] = get_buffer[s] \cup {req}
        /\ \A x \in Servers : x # s => get_buffer'[x] = get_buffer[x]
    BY <1>0, <1>5 DEF TypeOK
  <2>2. Parked(w, s)' /\ ~Answered(w, s)'
    BY <1>1, <1>5, <2>1 DEF Parked, Answered
  <2>3. ASSUME NEW v \in Workers, NEW x \in Servers, v # w \/ x # s
        PROVE  Parked(v, x)' <=> Parked(v, x)
    BY <1>1, <2>1, <2>3 DEF Parked
  <2>4. ASSUME NEW v \in Workers, NEW x \in Servers
        PROVE  Located(v, x)' /\ (Located3(v, x)' <=> Located3(v, x))
    <3>1. Located(v, x)
      BY DEF GetInv, GetsLocated
    <3>2. CASE v = w /\ x = s
      BY <1>1, <1>2, <1>3, <2>2, <3>2 DEF Located, Located3
    <3>3. CASE v # w \/ x # s
      <4>1. Located(v, x)' /\ (Sent(v, x)' <=> Sent(v, x)) /\ (Answered(v, x)' <=> Answered(v, x))
        BY <1>0, <1>1, <1>5, <2>3, <3>1, <3>3, LocatedUnchanged
      <4>2. QED
        BY <2>3, <3>3, <4>1 DEF Located3
    <3>4. QED
      BY <3>2, <3>3
  <2>5. ResponsesCounted'
    BY <1>0, <2>4, CountUnchanged DEF GetInv
  <2>6. QED
    BY <2>4, <2>5 DEF GetInv, GetsLocated
<1>6. CASE Reply(s, storage[s], {req}) /\ get_buffer' = get_buffer
  <2> DEFINE reqs == {req}
  <2>1. reqs \in SUBSET Pending /\ Reply(s, storage[s], reqs)
    BY <1>1, <1>6
  <2>2. req \in reqs /\ \A r \in reqs : r.sender = w /\ r = req
    BY <1>1
  <2> HIDE DEF reqs
  <2>3. /\ toWorker'[s][w] = Append(toWorker[s][w], StorageGet(storage[s], req.keys))
        /\ \A v \in Workers, x \in Servers : (v # w \/ x # s) => toWorker'[x][v] = toWorker[x][v]
    <3>1. /\ (\E r \in reqs : r.sender = w) =>
                \E r \in reqs : /\ r.sender = w
                               /\ toWorker'[s][w] = Append(toWorker[s][w], StorageGet(storage[s], r.keys))
          /\ \A v \in Workers : (\A r \in reqs : r.sender # v) => toWorker'[s][v] = toWorker[s][v]
          /\ \A x \in Servers : x # s => toWorker'[x] = toWorker[x]
      BY <1>0, <2>1, ReplyEffect
    <3>2. QED
      BY <2>2, <3>1
  <2>4. toWorker'[s][w] # <<>> /\ Len(toWorker'[s][w]) = 1
    <3>1. toWorker[s][w] = <<>>
      BY <1>1 DEF Answered
    <3>2. StorageGet(storage[s], req.keys) \in Answer
      BY <1>0, <1>1 DEF StorageGet, Answer, Pending, TypeOK, ServerTypeOK
    <3>3. <<>> \in Seq(Answer) /\ Len(<<>>) = 0
      BY EmptySeq
    <3>4. QED
      BY <2>3, <3>1, <3>2, <3>3, AppendProperties
  <2>5. Answered(w, s)' /\ \A v \in Workers, x \in Servers : Parked(v, x)' <=> Parked(v, x)
    BY <1>6, <2>4 DEF Parked, Answered
  <2>6. ASSUME NEW v \in Workers, NEW x \in Servers
        PROVE  Located(v, x)' /\ (Located3(v, x)' <=> Located3(v, x))
    <3>1. Located(v, x)
      BY DEF GetInv, GetsLocated
    <3>2. CASE v = w /\ x = s
      BY <1>1, <1>2, <1>3, <2>4, <2>5, <3>2 DEF Located, Located3
    <3>3. CASE v # w \/ x # s
      <4>1. Located(v, x)' /\ (Sent(v, x)' <=> Sent(v, x)) /\ (Answered(v, x)' <=> Answered(v, x))
        BY <1>0, <1>1, <2>3, <2>5, <3>1, <3>3, LocatedUnchanged
      <4>2. QED
        BY <2>5, <3>3, <4>1 DEF Located3
    <3>4. QED
      BY <3>2, <3>3
  <2>7. ResponsesCounted'
    BY <1>0, <2>6, CountUnchanged DEF GetInv
  <2>8. QED
    BY <2>6, <2>7 DEF GetInv, GetsLocated
<1>7. QED
  BY <1>4, <1>5, <1>6

\* What a Clock does that fails no CHECK: nothing but the Clock counted, or the
\* iteration is over and the buffers are emptied.
LEMMA ClockTaken ==
    ASSUME ClockInv, NEW s \in Servers, NEW w \in Workers, ServerClock(s, w), aborted' = "no"
    PROVE  /\ \A x \in Servers : x # s => MinClock(x)' = MinClock(x)
           /\ MinClock(s) \in Nat
           /\ \/ /\ MinClock(s)' = MinClock(s)
                 /\ UNCHANGED <<storage, get_buffer, add_buffer, toWorker>>
              \/ /\ MinClock(s)' = MinClock(s) + 1
                 /\ storage' = [storage EXCEPT ![s] = @ \cup add_buffer[s]]
                 /\ add_buffer' = [add_buffer EXCEPT ![s] = {}]
                 /\ Reply(s, StorageAfter(s), get_buffer[s])
                 /\ get_buffer' = [get_buffer EXCEPT ![s] = {}]
<1> DEFINE pt == progress_tracker[s]
           c0 == ChangedMinClock(pt, w)
<1>0. /\ ServerTypeOK
      /\ progress_tracker' = [progress_tracker EXCEPT ![s] = Advance(pt, w)]
  BY ClockParts DEF ServerClock
<1>1. /\ progress_tracker'[s] = Advance(pt, w)
      /\ \A x \in Servers : x # s => progress_tracker'[x] = progress_tracker[x]
      /\ pt.min_clock \in Nat
  BY <1>0, TableAssumption DEF ServerTypeOK, Clocks
<1>2. /\ \A x \in Servers : x # s => MinClock(x)' = MinClock(x)
      /\ MinClock(s) \in Nat
      /\ c0 # -1 => MinClock(s)' = MinClock(s) + 1
      /\ c0 = -1 => MinClock(s)' = MinClock(s)
  BY <1>0, <1>1, AdvanceMoves DEF MinClock
<1>3. \/ /\ c0 = -1
         /\ UNCHANGED <<storage, get_buffer, add_buffer, toWorker>>
      \/ /\ c0 # -1
         /\ storage' = [storage EXCEPT ![s] = @ \cup add_buffer[s]]
         /\ add_buffer' = [add_buffer EXCEPT ![s] = {}]
         /\ Reply(s, StorageAfter(s), get_buffer[s])
         /\ get_buffer' = [get_buffer EXCEPT ![s] = {}]
  <2> DEFINE overrun == Advance(pt, w).progresses[w] > Advance(pt, w).min_clock + 1
  <2>1. ~overrun
    BY DEF ServerClock
  <2> HIDE DEF overrun
  <2>2. CASE c0 = -1
    BY <2>2 DEF ServerClock, buffers
  <2>3. CASE c0 # -1
    BY <2>1, <2>3 DEF ServerClock, overrun
  <2>4. QED
    BY <2>2, <2>3
<1> HIDE DEF c0
<1>4. QED
  BY <1>2, <1>3

LEMMA GetInvServerClock ==
    ASSUME ClockInv, GetInv, NEW s \in Servers, NEW w \in Workers, ServerClock(s, w), aborted' = "no"
    PROVE  GetInv' /\ \A v \in Workers, x \in Servers : Located3(v, x)' <=> Located3(v, x)
<1> DEFINE h == Head(toServer[w][s])
<1>0. /\ toServer[w][s] # <<>> /\ h.flag = "kClock" /\ Dequeue(s, w)
      /\ UNCHANGED <<clock, want, tracker>>
      /\ TypeOK /\ KVTypeOK
  BY ClockParts DEF ServerClock, Received, clientVars
<1>1. \A v \in Workers, x \in Servers : (v # w \/ x # s) => toServer'[v][x] = toServer[v][x]
  BY <1>0, DequeueEffect
<1>2. /\ \A i \in 1 .. Len(toServer'[w][s]) - 1 : toServer'[w][s][i].flag # "kGet"
      /\ Messages(toServer[w][s]) = Messages(toServer'[w][s]) \cup {h}
      /\ ~Parked(w, s) /\ ~Answered(w, s)
  BY <1>0, TailLocated DEF GetInv, GetsLocated
<1>3. Sent(w, s)' <=> Sent(w, s)
  BY <1>0, <1>2 DEF Sent
<1>4. \/ UNCHANGED <<get_buffer, toWorker>>
      \/ /\ Reply(s, StorageAfter(s), get_buffer[s])
         /\ get_buffer' = [get_buffer EXCEPT ![s] = {}]
  BY ClockTaken
<1>5. ASSUME NEW v \in Workers, NEW x \in Servers,
             Parked(v, x)' <=> Parked(v, x), toWorker'[x][v] = toWorker[x][v]
      PROVE  Located(v, x)' /\ (Located3(v, x)' <=> Located3(v, x))
  <2>1. Located(v, x) /\ (Answered(v, x)' <=> Answered(v, x))
    BY <1>5 DEF GetInv, GetsLocated, Answered
  <2>2. CASE v = w /\ x = s
    <3>1. \A m \in Messages(toServer'[w][s]) : m.flag = "kGet" => m.keys = SliceOf(want'[w], s)
      BY <1>0, <1>2, <2>1, <2>2 DEF Located
    <3>2. QED
      BY <1>2, <1>3, <1>5, <2>1, <2>2, <3>1 DEF Located, Located3
  <2>3. CASE v # w \/ x # s
    <3>1. Located(v, x)' /\ (Sent(v, x)' <=> Sent(v, x))
      BY <1>0, <1>1, <1>5, <2>1, <2>3, LocatedUnchanged
    <3>2. QED
      BY <1>5, <2>1, <3>1 DEF Located3
  <2>4. QED
    BY <2>2, <2>3
<1>6. ASSUME NEW v \in Workers, NEW x \in Servers
      PROVE  Located(v, x)' /\ (Located3(v, x)' <=> Located3(v, x))
  <2>1. CASE UNCHANGED <<get_buffer, toWorker>>
    BY <1>5, <2>1 DEF Parked
  <2>2. CASE /\ Reply(s, StorageAfter(s), get_buffer[s])
             /\ get_buffer' = [get_buffer EXCEPT ![s] = {}]
    <3> DEFINE reqs == get_buffer[s]
               adds == StorageAfter(s)
    <3>1. /\ reqs \in SUBSET Pending /\ Reply(s, adds, reqs)
          /\ adds \in SUBSET Increment
      BY <1>0, <2>2 DEF TypeOK, ServerTypeOK, StorageAfter
    <3> HIDE DEF reqs, adds
    <3>2. /\ \A y \in Workers :
                (\E r \in reqs : r.sender = y) =>
                    \E r \in reqs : toWorker'[s][y] = Append(toWorker[s][y], StorageGet(adds, r.keys))
          /\ \A y \in Workers :
                (\A r \in reqs : r.sender # y) => toWorker'[s][y] = toWorker[s][y]
          /\ \A y \in Servers : y # s => toWorker'[y] = toWorker[y]
      BY <1>0, <3>1, ReplyEffect
    <3>3. get_buffer'[s] = {} /\ \A y \in Servers : y # s => get_buffer'[y] = get_buffer[y]
      BY <1>0, <2>2 DEF TypeOK
    <3>4. CASE x # s \/ \A r \in reqs : r.sender # v
      <4>1. toWorker'[x][v] = toWorker[x][v]
        BY <3>2, <3>4
      <4>2. Parked(v, x)' <=> Parked(v, x)
        BY <3>3, <3>4 DEF Parked, reqs
      <4>3. QED
        BY <1>5, <4>1, <4>2
    <3>5. CASE x = s /\ \E r \in reqs : r.sender = v
      <4>1. Parked(v, s) /\ Located(v, s)
        BY <3>5 DEF Parked, reqs, GetInv, GetsLocated
      <4>2. toServer[v][s] = <<>> /\ toWorker[s][v] = <<>> /\ v # w
        BY <1>2, <4>1 DEF Located, Answered
      <4>3. toServer'[v][s] = <<>> /\ Messages(toServer'[v][s]) = {} /\ Len(toServer'[v][s]) = 0
        BY <1>1, <4>2, EmptySeq DEF Messages
      <4>4. PICK y \in reqs : toWorker'[s][v] = Append(<<>>, StorageGet(adds, y.keys))
        BY <3>2, <3>5, <4>2
      <4>5. StorageGet(adds, y.keys) \in Answer
        BY <3>1 DEF StorageGet, Answer, Pending
      <4>6. <<>> \in Seq(Answer) /\ Len(<<>>) = 0
        BY EmptySeq
      <4>7. toWorker'[s][v] # <<>> /\ Len(toWorker'[s][v]) = 1
        BY <4>4, <4>5, <4>6, AppendProperties
      <4>8. ~Parked(v, s)'
        BY <3>3 DEF Parked
      <4>9. ~Sent(v, s)' /\ Answered(v, s)'
        BY <4>3, <4>7 DEF Sent, Answered
      <4>10. QED
        BY <3>5, <4>1, <4>3, <4>7, <4>8, <4>9 DEF Located, Located3
    <3>6. QED
      BY <3>4, <3>5
  <2>3. QED
    BY <1>4, <2>1, <2>2
<1>7. ResponsesCounted'
  BY <1>0, <1>6, CountUnchanged DEF GetInv
<1>8. QED
  BY <1>6, <1>7 DEF GetInv, GetsLocated

-----------------------------------------------------------------------------
(* Third part: all iterations keep together, so no CHECK fails               *)

PaceInv == GetsParked /\ Together

\* Whatever a server takes off a queue, its tracker is in the state that the
\* handler wants (the CHECKs of BSPModel::Clock, ::Add and ::Get).
LEMMA ChecksHold ==
    ASSUME ClockInv, GetInv, PaceInv, aborted = "no",
           NEW s \in Servers, NEW w \in Workers, Server(s, w)
    PROVE  aborted' = "no"
<1> DEFINE h == Head(toServer[w][s])
<1>0. /\ TypeOK /\ KVTypeOK /\ ServerTypeOK /\ TimeInv
      /\ MinClock(s) \in Int /\ Progress(s, w) \in Int /\ clock[w] \in Int
      /\ MinClock(s) <= Progress(s, w)
  <2>1. TypeOK /\ KVTypeOK /\ ServerTypeOK /\ TimeInv
    BY ClockParts
  <2>2. MinClock(s) \in Int /\ Progress(s, w) \in Int /\ clock[w] \in Int
    BY <2>1, TableAssumption DEF KVTypeOK, ServerTypeOK, MinClock, Progress, Clocks
  <2>3. MinClock(s) <= Progress(s, w)
    BY <2>1, <2>2 DEF TimeInv, MinClockExact, MinimumCached, MinClock, Progress, ServerTypeOK
  <2>4. QED
    BY <2>1, <2>2, <2>3
<1>1. ASSUME toServer[w][s] # <<>>, h.flag # "kGet", Dequeue(s, w)
      PROVE  Progress(s, w) <= MinClock(s)
  <2>1. h \in Messages(toServer[w][s])
    BY <1>0, <1>1, DequeueEffect
  <2>2. h.iter = Progress(s, w)
    BY <1>0, <1>1, Dequeued
  <2>3. QED
    BY <1>1, <2>1, <2>2 DEF PaceInv, Together
<1>2. CASE ServerClock(s, w)
  <2>1. Progress(s, w) <= MinClock(s)
    BY <1>1, <1>2 DEF ServerClock, Received
  <2> DEFINE advanced == Advance(progress_tracker[s], w)
  <2>2. /\ advanced.progresses[w] = Progress(s, w) + 1
        /\ advanced.min_clock \in Int
        /\ advanced.min_clock >= MinClock(s)
    <3>1. progress_tracker[s] \in [progresses : [Workers -> Clocks], min_clock : Clocks]
      BY <1>0 DEF ServerTypeOK
    <3>2. QED
      BY <1>0, <3>1 DEF Advance, MinClock, Progress
  <2>3. ~(advanced.progresses[w] > advanced.min_clock + 1)
    BY <1>0, <2>1, <2>2
  <2>4. QED
    BY <1>2, <2>3 DEF ServerClock
<1>3. CASE ServerAdd(s, w)
  <2>1. Progress(s, w) = MinClock(s)
    BY <1>0, <1>1, <1>3 DEF ServerAdd, Received
  <2>2. QED
    BY <1>3, <2>1 DEF ServerAdd
<1>4. CASE ServerGet(s, w)
  <2>1. clock[w] = Progress(s, w) /\ clock[w] <= MinClock(s) + 1
    BY <1>4, GetTaken DEF PaceInv, Together
  <2>2. OneAhead(s, w) \/ Progress(s, w) = MinClock(s)
    BY <1>0, <2>1 DEF OneAhead
  <2>3. QED
    BY <1>4, <2>2 DEF ServerGet
<1>5. QED
  BY <1>2, <1>3, <1>4 DEF Server

LEMMA PaceInvInit == Init => PaceInv
<1> SUFFICES ASSUME Init PROVE PaceInv
  OBVIOUS
<1>1. ASSUME NEW w \in Workers, NEW s \in Servers
      PROVE  /\ Messages(toServer[w][s]) = {} /\ toWorker[s][w] = <<>>
             /\ get_buffer[s] = {} /\ clock[w] = 0 /\ MinClock(s) = 0 /\ want[w] = {}
  BY EmptySeq DEF Init, ServerInit, KVInit, Messages, MinClock, TrackerInit
<1>2. GetsParked
  BY <1>1, TableAssumption DEF GetsParked, Init
<1>3. \A w \in Workers, s \in Servers : ~Sent(w, s) /\ ~Parked(w, s) /\ ~Answered(w, s)
  BY <1>1 DEF Sent, Parked, Answered
<1>4. Together
  BY <1>1, <1>3 DEF Together
<1>5. QED
  BY <1>2, <1>4 DEF PaceInv

\* A worker that has got its values has them from every server, all of which
\* have begun its iteration.
LEMMA IdleKeepsTogether ==
    ASSUME TypeOK, GetInv, PaceInv, NEW w \in Workers, ~Waiting(w), want[w] # {}
    PROVE  \A s \in Servers : clock[w] <= MinClock(s)
BY IdleHasNothing DEF GetInv, PaceInv, Together

\* The Gets put aside are of others than a worker that calls.
LEMMA IdleNotParked ==
    ASSUME TypeOK, GetInv, NEW w \in Workers, ~Waiting(w)
    PROVE  \A s \in Servers : \A r \in get_buffer[s] : r.sender \in Workers /\ r.sender # w
<1> SUFFICES ASSUME NEW s \in Servers, NEW r \in get_buffer[s]
             PROVE  r.sender \in Workers /\ r.sender # w
  OBVIOUS
<1>1. r.sender \in Workers
  BY DEF TypeOK, Pending
<1>2. ~Parked(w, s)
  BY IdleHasNothing DEF GetInv
<1>3. QED
  BY <1>1, <1>2 DEF Parked

\* The new Get is on its way to every server.
LEMMA PaceInvGet ==
    ASSUME EveryGetAsksAll, TypeOK, GetInv, PaceInv, NEW w \in Workers, NEW K \in GetKeys,
           ClientGet(w, K), UNCHANGED serverVars
    PROVE  PaceInv'
<1>0. /\ K \in SUBSET Keys /\ K # {} /\ Send(w, "kGet", K) /\ ~Waiting(w)
      /\ want' = [want EXCEPT ![w] = K]
      /\ UNCHANGED <<clock, toWorker, get_buffer, progress_tracker>>
      /\ KVTypeOK /\ Involved(K) = Servers
  BY TableAssumption, TypedParts DEF ClientGet, serverVars, buffers, EveryGetAsksAll
<1>1. want'[w] = K /\ \A v \in Workers : v # w => want'[v] = want[v]
  BY <1>0 DEF KVTypeOK
<1>2. ASSUME NEW v \in Workers, NEW s \in Servers
      PROVE  /\ MinClock(s)' = MinClock(s)
             /\ Parked(v, s)' <=> Parked(v, s)
             /\ Answered(v, s)' <=> Answered(v, s)
  BY <1>0 DEF Parked, Answered, MinClock
<1>3. GetsParked'
  BY <1>0, <1>1, <1>2, IdleNotParked DEF PaceInv, GetsParked
<1>4. ASSUME NEW s \in Servers
      PROVE  /\ Sent(w, s)'
             /\ \A m \in Messages(toServer'[w][s]) :
                   m.flag # "kGet" => m \in Messages(toServer[w][s])
             /\ \A v \in Workers : v # w => toServer'[v][s] = toServer[v][s]
  <2> DEFINE m == Slice(w, "kGet", K, s)
  <2>1. m.flag = "kGet"
    BY DEF Slice
  <2>2. /\ Messages(toServer'[w][s]) = Messages(toServer[w][s]) \cup {m}
        /\ \A v \in Workers : v # w => toServer'[v][s] = toServer[v][s]
    BY <1>0, SendEffect
  <2> HIDE DEF m
  <2>3. QED
    BY <2>1, <2>2 DEF Sent
<1>5. ASSUME NEW v \in Workers, NEW s \in Servers
      PROVE  /\ clock[v] <= MinClock(s) + 1
             /\ want'[v] # {} /\ ~Sent(v, s)' /\ ~Parked(v, s)' => clock[v] <= MinClock(s)
             /\ \A m \in Messages(toServer'[v][s]) : m.flag # "kGet" => m.iter <= MinClock(s)
             /\ Sent(v, s)' \/ Parked(v, s)' \/ Answered(v, s)' => want'[v] # {}
  <2>1. CASE v = w
    BY <1>0, <1>1, <1>4, <2>1 DEF PaceInv, Together
  <2>2. CASE v # w
    <3>1. toServer'[v][s] = toServer[v][s] /\ want'[v] = want[v]
      BY <1>1, <1>4, <2>2
    <3>2. Sent(v, s)' <=> Sent(v, s)
      BY <3>1 DEF Sent
    <3>3. QED
      BY <1>2, <3>1, <3>2 DEF PaceInv, Together
  <2>3. QED
    BY <2>1, <2>2
<1>6. Together'
  BY <1>0, <1>2, <1>5 DEF Together
<1>7. QED
  BY <1>3, <1>6 DEF PaceInv

\* An Add or a Clock after the Get of its iteration: it is of an iteration that
\* every server has begun.
LEMMA PaceInvOtherCall ==
    ASSUME TypeOK, GetInv, PaceInv, NEW w \in Workers, ~Waiting(w), want[w] # {},
           UNCHANGED <<toWorker, serverVars>>,
           clock'[w] \in {clock[w], clock[w] + 1}, clock[w] \in Int,
           \A s \in Servers : MinClock(s) \in Int,
           clock'[w] = clock[w] + 1 => want'[w] = {},
           \A v \in Workers : v # w => want'[v] = want[v] /\ clock'[v] = clock[v],
           \A v \in Workers, s \in Servers :
               \/ toServer'[v][s] = toServer[v][s]
               \/ /\ v = w
                  /\ \E m \in Request :
                        /\ m.flag # "kGet" /\ m.iter = clock[w]
                        /\ Messages(toServer'[w][s]) = Messages(toServer[w][s]) \cup {m}
    PROVE  PaceInv'
<1>0. UNCHANGED <<get_buffer, progress_tracker>>
  BY DEF serverVars, buffers
<1>1. \A v \in Workers, s \in Servers : /\ MinClock(s)' = MinClock(s)
                                        /\ Parked(v, s)' <=> Parked(v, s)
                                        /\ Answered(v, s)' <=> Answered(v, s)
  BY <1>0 DEF Parked, Answered, MinClock
<1>2. GetsParked'
  BY <1>0, <1>1, IdleNotParked DEF PaceInv, GetsParked
<1>3. ASSUME NEW v \in Workers, NEW s \in Servers
      PROVE  /\ clock'[v] <= MinClock(s) + 1
             /\ want'[v] # {} /\ ~Sent(v, s)' /\ ~Parked(v, s)' => clock'[v] <= MinClock(s)
             /\ \A m \in Messages(toServer'[v][s]) : m.flag # "kGet" => m.iter <= MinClock(s)
             /\ Sent(v, s)' \/ Parked(v, s)' \/ Answered(v, s)' => want'[v] # {}
  <2>1. CASE v = w
    <3>1. clock[w] <= MinClock(s) /\ ~Sent(w, s) /\ ~Parked(w, s) /\ ~Answered(w, s)
      BY IdleKeepsTogether, IdleHasNothing DEF GetInv
    <3>2. \A m \in Messages(toServer[w][s]) : m.flag # "kGet" /\ m.iter <= MinClock(s)
      BY <3>1 DEF PaceInv, Together, Sent
    <3>3. \A m \in Messages(toServer'[w][s]) : m.flag # "kGet" /\ m.iter <= MinClock(s)
      BY <2>1, <3>1, <3>2
    <3>4. ~Sent(w, s)' /\ ~Parked(w, s)' /\ ~Answered(w, s)'
      BY <1>1, <3>1, <3>3 DEF Sent
    <3>5. clock'[w] <= MinClock(s) + 1 /\ (want'[w] # {} => clock'[w] <= MinClock(s))
      BY <3>1
    <3>6. QED
      BY <2>1, <3>3, <3>4, <3>5
  <2>2. CASE v # w
    <3>1. toServer'[v][s] = toServer[v][s] /\ want'[v] = want[v] /\ clock'[v] = clock[v]
      BY <2>2
    <3>2. Sent(v, s)' <=> Sent(v, s)
      BY <3>1 DEF Sent
    <3>3. QED
      BY <1>1, <3>1, <3>2 DEF PaceInv, Together
  <2>3. QED
    BY <2>1, <2>2
<1>4. Together'
  BY <1>1, <1>3 DEF Together
<1>5. QED
  BY <1>2, <1>4 DEF PaceInv

LEMMA PaceInvAdd ==
    ASSUME TypeOK, GetInv, PaceInv, NEW w \in Workers, NEW K \in AddKeys, want[w] # {},
           ClientAdd(w, K), UNCHANGED serverVars
    PROVE  PaceInv'
<1>0. /\ KVTypeOK /\ ServerTypeOK
      /\ K \in SUBSET Keys /\ Send(w, "kAdd", K) /\ ~Waiting(w)
      /\ UNCHANGED <<clock, want, toWorker, serverVars>>
  BY TableAssumption, TypedParts DEF ClientAdd
<1>1. clock[w] \in Int /\ \A s \in Servers : MinClock(s) \in Int
  BY <1>0, TableAssumption DEF KVTypeOK, ServerTypeOK, MinClock, Clocks
<1>2. ASSUME NEW v \in Workers, NEW s \in Servers
      PROVE  \/ toServer'[v][s] = toServer[v][s]
             \/ /\ v = w
                /\ \E m \in Request :
                      /\ m.flag # "kGet" /\ m.iter = clock[w]
                      /\ Messages(toServer'[w][s]) = Messages(toServer[w][s]) \cup {m}
  <2> DEFINE m == Slice(w, "kAdd", K, s)
  <2>1. m.flag # "kGet" /\ m.iter = clock[w]
    BY DEF Slice
  <2>2. /\ m \in Request
        /\ s \in Involved(K) => Messages(toServer'[w][s]) = Messages(toServer[w][s]) \cup {m}
        /\ s \notin Involved(K) => toServer'[w][s] = toServer[w][s]
        /\ v # w => toServer'[v][s] = toServer[v][s]
    BY <1>0, SendEffect
  <2> HIDE DEF m
  <2>3. QED
    BY <2>1, <2>2
<1>3. /\ clock'[w] \in {clock[w], clock[w] + 1}
      /\ clock'[w] = clock[w] + 1 => want'[w] = {}
      /\ \A v \in Workers : v # w => want'[v] = want[v] /\ clock'[v] = clock[v]
      /\ UNCHANGED <<toWorker, serverVars>>
  BY <1>0, <1>1
<1>4. QED
  BY <1>0, <1>1, <1>2, <1>3, PaceInvOtherCall

LEMMA PaceInvClock ==
    ASSUME TypeOK, GetInv, PaceInv, NEW w \in Workers, want[w] # {},
           ClientClock(w), UNCHANGED serverVars
    PROVE  PaceInv'
<1>0. /\ KVTypeOK /\ ServerTypeOK /\ ~Waiting(w)
      /\ clock' = [clock EXCEPT ![w] = @ + 1] /\ want' = [want EXCEPT ![w] = {}]
      /\ UNCHANGED <<toWorker, serverVars>>
  BY TypedParts DEF ClientClock
<1>1. /\ clock[w] \in Int /\ \A s \in Servers : MinClock(s) \in Int
      /\ clock'[w] = clock[w] + 1 /\ want'[w] = {}
      /\ \A v \in Workers : v # w => want'[v] = want[v] /\ clock'[v] = clock[v]
  BY <1>0, TableAssumption DEF KVTypeOK, ServerTypeOK, MinClock, Clocks
<1>2. ASSUME NEW v \in Workers, NEW s \in Servers
      PROVE  \/ toServer'[v][s] = toServer[v][s]
             \/ /\ v = w
                /\ \E m \in Request :
                      /\ m.flag # "kGet" /\ m.iter = clock[w]
                      /\ Messages(toServer'[w][s]) = Messages(toServer[w][s]) \cup {m}
  <2> DEFINE m == [flag |-> "kClock", keys |-> {}, iter |-> clock[w]]
  <2>1. m.flag # "kGet" /\ m.iter = clock[w]
    OBVIOUS
  <2>2. /\ m \in Request
        /\ Messages(toServer'[w][s]) = Messages(toServer[w][s]) \cup {m}
        /\ v # w => toServer'[v][s] = toServer[v][s]
    BY <1>0, ClockEffect
  <2> HIDE DEF m
  <2>3. QED
    BY <2>1, <2>2
<1>3. QED
  BY <1>0, <1>1, <1>2, PaceInvOtherCall

\* Where a Get is may change in a server's or a helper's step, when it leaves
\* the channel and the buffers it is of an iteration begun.
LEMMA TogetherStep ==
    ASSUME Together, UNCHANGED <<clock, want>>,
           \A v \in Workers : clock[v] \in Int,
           \A v \in Workers, x \in Servers : \A m \in Messages(toServer[v][x]) : m.iter \in Int,
           \A v \in Workers, x \in Servers : Messages(toServer'[v][x]) \subseteq Messages(toServer[v][x]),
           \A x \in Servers : /\ MinClock(x) \in Int /\ MinClock(x)' \in Int
                              /\ MinClock(x)' >= MinClock(x),
           \A v \in Workers, x \in Servers : Located3(v, x)' => Located3(v, x),
           \A v \in Workers, x \in Servers :
               Sent(v, x) \/ Parked(v, x) =>
                   Sent(v, x)' \/ Parked(v, x)' \/ clock[v] <= MinClock(x)'
    PROVE  Together'
<1>1. ASSUME NEW v \in Workers, NEW x \in Servers
      PROVE  /\ clock[v] <= MinClock(x)' + 1
             /\ want[v] # {} /\ ~Sent(v, x)' /\ ~Parked(v, x)' => clock[v] <= MinClock(x)'
             /\ \A m \in Messages(toServer'[v][x]) : m.flag # "kGet" => m.iter <= MinClock(x)'
             /\ Sent(v, x)' \/ Parked(v, x)' \/ Answered(v, x)' => want[v] # {}
  <2>1. /\ clock[v] \in Int /\ MinClock(x) \in Int /\ MinClock(x)' \in Int
        /\ MinClock(x)' >= MinClock(x) /\ clock[v] <= MinClock(x) + 1
    BY DEF Together
  <2>2. want[v] # {} /\ ~Sent(v, x)' /\ ~Parked(v, x)' => clock[v] <= MinClock(x)'
    <3>1. CASE Sent(v, x) \/ Parked(v, x)
      BY <3>1
    <3>2. CASE ~Sent(v, x) /\ ~Parked(v, x)
      BY <2>1, <3>2 DEF Together
    <3>3. QED
      BY <3>1, <3>2
  <2>3. \A m \in Messages(toServer'[v][x]) : m.flag # "kGet" => m.iter <= MinClock(x)'
    <3> SUFFICES ASSUME NEW m \in Messages(toServer'[v][x]), m.flag # "kGet"
                 PROVE  m.iter <= MinClock(x)'
      OBVIOUS
    <3>1. m \in Messages(toServer[v][x]) /\ m.iter \in Int
      OBVIOUS
    <3>2. m.iter <= MinClock(x)
      BY <3>1 DEF Together
    <3>3. QED
      BY <2>1, <3>1, <3>2
  <2>4. Sent(v, x)' \/ Parked(v, x)' \/ Answered(v, x)' => want[v] # {}
    BY DEF Located3, Together
  <2>5. QED
    BY <2>1, <2>2, <2>3, <2>4
<1>2. QED
  BY <1>1 DEF Together

\* The typed parts of that.
LEMMA PaceTypes ==
    ASSUME KVTypeOK, ServerTypeOK
    PROVE  /\ \A v \in Workers : clock[v] \in Int
           /\ \A v \in Workers, x \in Servers : \A m \in Messages(toServer[v][x]) : m.iter \in Int
           /\ \A x \in Servers : MinClock(x) \in Int
<1>1. /\ \A v \in Workers : clock[v] \in Int
      /\ \A x \in Servers : MinClock(x) \in Int
  BY TableAssumption DEF KVTypeOK, ServerTypeOK, MinClock, Clocks
<1>2. ASSUME NEW v \in Workers, NEW x \in Servers, NEW m \in Messages(toServer[v][x])
      PROVE  m.iter \in Int
  <2>1. m \in Request
    BY MessagesType DEF KVTypeOK
  <2>2. QED
    BY <2>1, TableAssumption DEF Request, Clocks
<1>3. QED
  BY <1>1, <1>2

LEMMA PaceInvHelper ==
    ASSUME ClockInv, GetInv, PaceInv, NEW s \in Servers, NEW w \in Workers, Helper(s, w)
    PROVE  PaceInv'
<1>0. /\ toWorker[s][w] # <<>>
      /\ toWorker' = [toWorker EXCEPT ![s][w] = Tail(@)]
      /\ UNCHANGED <<clock, want, toServer, get_buffer, progress_tracker>>
      /\ KVTypeOK /\ ServerTypeOK
  BY ClockParts DEF Helper, HelperResponse, HandleFinish, HandleMsg, serverVars, buffers
<1>1. \A v \in Workers, x \in Servers : /\ Parked(v, x)' <=> Parked(v, x)
                                        /\ Sent(v, x)' <=> Sent(v, x)
                                        /\ MinClock(x)' = MinClock(x)
  BY <1>0 DEF Parked, Sent, MinClock
<1>2. ASSUME NEW v \in Workers, NEW x \in Servers, Answered(v, x)'
      PROVE  Answered(v, x)
  <2>1. CASE v = w /\ x = s
    BY <1>0, <2>1 DEF Answered
  <2>2. CASE v # w \/ x # s
    BY <1>0, <1>2, <2>2 DEF Answered, KVTypeOK
  <2>3. QED
    BY <2>1, <2>2
<1>3. GetsParked'
  BY <1>0, <1>1 DEF PaceInv, GetsParked
<1>4. \A v \in Workers, x \in Servers :
          /\ Sent(v, x)' \/ Parked(v, x)' \/ Answered(v, x)'
                 => Sent(v, x) \/ Parked(v, x) \/ Answered(v, x)
          /\ Messages(toServer'[v][x]) = Messages(toServer[v][x])
  BY <1>0, <1>1, <1>2
<1>5. Together'
  BY <1>0, <1>1, <1>4 DEF PaceInv, Together
<1>6. QED
  BY <1>3, <1>5 DEF PaceInv

LEMMA PaceInvServerAdd ==
    ASSUME ClockInv, GetInv, PaceInv, NEW s \in Servers, NEW w \in Workers, ServerAdd(s, w)
    PROVE  PaceInv'
<1> DEFINE h == Head(toServer[w][s])
<1>0. /\ toServer[w][s] # <<>> /\ h.flag = "kAdd" /\ Dequeue(s, w)
      /\ UNCHANGED <<clock, want, get_buffer, progress_tracker>>
      /\ KVTypeOK /\ ServerTypeOK
  BY ClockParts DEF ServerAdd, Received, clientVars
<1>1. /\ Messages(toServer[w][s]) = Messages(toServer'[w][s]) \cup {h}
      /\ \A v \in Workers, x \in Servers : (v # w \/ x # s) => toServer'[v][x] = toServer[v][x]
  BY <1>0, DequeueEffect
<1>2. \A v \in Workers, x \in Servers : /\ Parked(v, x)' <=> Parked(v, x)
                                        /\ Sent(v, x)' <=> Sent(v, x)
                                        /\ Messages(toServer'[v][x]) \subseteq Messages(toServer[v][x])
  BY <1>0, <1>1 DEF Parked, Sent
<1>3. \A x \in Servers : MinClock(x)' = MinClock(x)
  BY <1>0 DEF MinClock
<1>4. GetsParked'
  BY <1>0, <1>3 DEF PaceInv, GetsParked
<1>5. \A v \in Workers, x \in Servers : Located3(v, x)' <=> Located3(v, x)
  BY GetInvServerAdd
<1>6. Together'
  <2>1. \A x \in Servers : /\ MinClock(x) \in Int /\ MinClock(x)' \in Int
                           /\ MinClock(x)' >= MinClock(x)
    BY <1>0, <1>3, PaceTypes
  <2>2. \A v \in Workers, x \in Servers :
           Sent(v, x) \/ Parked(v, x) =>
               Sent(v, x)' \/ Parked(v, x)' \/ clock[v] <= MinClock(x)'
    BY <1>2
  <2>3. QED
    BY <1>0, <1>2, <1>5, <2>1, <2>2, PaceTypes, TogetherStep DEF PaceInv
<1>7. QED
  BY <1>4, <1>6 DEF PaceInv

LEMMA PaceInvServerGet ==
    ASSUME ClockInv, GetInv, PaceInv, NEW s \in Servers, NEW w \in Workers,
           ServerGet(s, w), aborted' = "no"
    PROVE  PaceInv'
<1> DEFINE h == Head(toServer[w][s])
           req == RequestOf(w, h)
<1>0. /\ UNCHANGED <<clock, want, progress_tracker>>
      /\ TypeOK /\ KVTypeOK /\ ServerTypeOK /\ aborted # "Get"
  BY ClockParts DEF ServerGet, clientVars, TypeOK
<1>1. /\ Messages(toServer'[w][s]) = {}
      /\ \A v \in Workers, x \in Servers : (v # w \/ x # s) => toServer'[v][x] = toServer[v][x]
      /\ req.sender = w /\ req.keys = SliceOf(want[w], s)
      /\ clock[w] = Progress(s, w)
  BY GetTaken
<1>2. \A x \in Servers : MinClock(x)' = MinClock(x)
  BY <1>0 DEF MinClock
<1>3. \/ /\ clock[w] = MinClock(s) + 1
         /\ get_buffer' = [get_buffer EXCEPT ![s] = @ \cup {req}]
      \/ /\ clock[w] = MinClock(s)
         /\ get_buffer' = get_buffer
  BY <1>1 DEF ServerGet, OneAhead
<1> HIDE DEF req
<1>4. /\ \A x \in Servers : \A r \in get_buffer'[x] :
             \/ r \in get_buffer[x]
             \/ x = s /\ r = req /\ clock[w] = MinClock(s) + 1
      /\ \A v \in Workers, x \in Servers : Parked(v, x) => Parked(v, x)'
      /\ Parked(w, s)' \/ clock[w] = MinClock(s)
  BY <1>0, <1>1, <1>3 DEF TypeOK, Parked
<1>5. GetsParked'
  BY <1>0, <1>1, <1>2, <1>4 DEF PaceInv, GetsParked
<1>6. \A v \in Workers, x \in Servers : Located3(v, x)' <=> Located3(v, x)
  BY GetInvServerGet
<1>7. \A v \in Workers, x \in Servers : Messages(toServer'[v][x]) \subseteq Messages(toServer[v][x])
  BY <1>1
<1>8. \A v \in Workers, x \in Servers :
          Sent(v, x) \/ Parked(v, x) =>
              Sent(v, x)' \/ Parked(v, x)' \/ clock[v] <= MinClock(x)'
  <2> SUFFICES ASSUME NEW v \in Workers, NEW x \in Servers, Sent(v, x) \/ Parked(v, x)
               PROVE  Sent(v, x)' \/ Parked(v, x)' \/ clock[v] <= MinClock(x)'
    OBVIOUS
  <2>1. CASE v = w /\ x = s
    <3>1. clock[w] \in Int /\ MinClock(s) \in Int
      BY <1>0, PaceTypes
    <3>2. QED
      BY <1>2, <1>4, <2>1, <3>1
  <2>2. CASE v # w \/ x # s
    BY <1>1, <1>4, <2>2 DEF Sent
  <2>3. QED
    BY <2>1, <2>2
<1>9. Together'
  BY <1>0, <1>2, <1>6, <1>7, <1>8, PaceTypes, TogetherStep DEF PaceInv
<1>10. QED
  BY <1>5, <1>9 DEF PaceInv

LEMMA PaceInvServerClock ==
    ASSUME ClockInv, GetInv, PaceInv, NEW s \in Servers, NEW w \in Workers,
           ServerClock(s, w), aborted' = "no"
    PROVE  PaceInv'
<1> DEFINE h == Head(toServer[w][s])
<1>0. /\ toServer[w][s] # <<>> /\ h.flag = "kClock" /\ Dequeue(s, w)
      /\ UNCHANGED <<clock, want>>
      /\ TypeOK /\ KVTypeOK /\ ServerTypeOK
  BY ClockParts DEF ServerClock, Received, clientVars
<1>1. /\ Messages(toServer[w][s]) = Messages(toServer'[w][s]) \cup {h}
      /\ \A v \in Workers, x \in Servers : (v # w \/ x # s) => toServer'[v][x] = toServer[v][x]
  BY <1>0, DequeueEffect
<1>2. \A v \in Workers, x \in Servers : /\ Sent(v, x)' <=> Sent(v, x)
                                        /\ Messages(toServer'[v][x]) \subseteq Messages(toServer[v][x])
  BY <1>0, <1>1 DEF Sent
<1>3. /\ \A x \in Servers : x # s => MinClock(x)' = MinClock(x)
      /\ \/ MinClock(s)' = MinClock(s) /\ get_buffer' = get_buffer
         \/ MinClock(s)' = MinClock(s) + 1 /\ get_buffer' = [get_buffer EXCEPT ![s] = {}]
  BY ClockTaken
<1>4. \A x \in Servers : /\ MinClock(x) \in Int /\ MinClock(x)' \in Int
                         /\ MinClock(x)' >= MinClock(x)
  BY <1>0, <1>3, PaceTypes
<1>5. \A x \in Servers : \/ get_buffer'[x] = get_buffer[x] /\ MinClock(x)' = MinClock(x)
                         \/ get_buffer'[x] = {} /\ MinClock(x)' = MinClock(x) + 1
  BY <1>0, <1>3 DEF TypeOK
<1>6. GetsParked'
  BY <1>0, <1>5 DEF PaceInv, GetsParked
<1>7. \A v \in Workers, x \in Servers : Located3(v, x)' <=> Located3(v, x)
  BY GetInvServerClock
<1>8. ASSUME NEW v \in Workers, NEW x \in Servers, Sent(v, x) \/ Parked(v, x)
      PROVE  Sent(v, x)' \/ Parked(v, x)' \/ clock[v] <= MinClock(x)'
  <2>1. CASE Sent(v, x)
    BY <1>2, <2>1
  <2>2. CASE Parked(v, x)
    <3>1. clock[v] = MinClock(x) + 1
      BY <2>2 DEF Parked, PaceInv, GetsParked
    <3>2. CASE get_buffer'[x] = get_buffer[x]
      BY <2>2, <3>2 DEF Parked
    <3>3. CASE MinClock(x)' = MinClock(x) + 1
      BY <1>4, <3>1, <3>3
    <3>4. QED
      BY <1>5, <3>2, <3>3
  <2>3. QED
    BY <1>8, <2>1, <2>2
<1>9. Together'
  BY <1>0, <1>2, <1>4, <1>7, <1>8, PaceTypes, TogetherStep DEF PaceInv
<1>10. QED
  BY <1>6, <1>9 DEF PaceInv

-----------------------------------------------------------------------------
(* Fourth part: Adds are applied, put aside, or on their way                 *)

AddInv == SlicesOwned /\ AddsAccountedFor /\ AddsCalled

LEMMA AddInvInit == Init => AddInv
<1> SUFFICES ASSUME Init PROVE AddInv
  OBVIOUS
<1>1. \A w \in Workers, s \in Servers : Messages(toServer[w][s]) = {}
  BY EmptySeq DEF Init, ServerInit, KVInit, Messages
<1>2. QED
  BY <1>1 DEF Init, ServerInit, KVInit, AddInv, SlicesOwned, AddsAccountedFor, AddsCalled

LEMMA AddInvGet ==
    ASSUME TypeOK, AddInv, NEW w \in Workers, NEW K \in GetKeys,
           ClientGet(w, K), UNCHANGED serverVars
    PROVE  AddInv'
<1> DEFINE m(s) == Slice(w, "kGet", K, s)
<1>0. K \in SUBSET Keys /\ Send(w, "kGet", K) /\ issued' = issued /\ storage' = storage /\ add_buffer' = add_buffer
  BY TableAssumption DEF ClientGet, NumReqs, serverVars, buffers
<1>1. \A v \in Workers, s \in Servers :
         \/ Messages(toServer'[v][s]) = Messages(toServer[v][s])
         \/ v = w /\ Messages(toServer'[v][s]) = Messages(toServer[v][s]) \cup {m(s)}
  <2> TAKE v \in Workers, s \in Servers
  <2>1. /\ s \in Involved(K) => Messages(toServer'[w][s]) = Messages(toServer[w][s]) \cup {m(s)}
        /\ s \notin Involved(K) => toServer'[w][s] = toServer[w][s]
        /\ v # w => toServer'[v][s] = toServer[v][s]
    BY <1>0, SendEffect, TypedParts
  <2>2. QED
    BY <2>1
<1>2. \A s \in Servers : m(s).flag = "kGet" /\ \A k \in m(s).keys : Owner[k] = s
  BY DEF SliceOf, Slice
<1> HIDE DEF m
<1>3. SlicesOwned'
  BY <1>1, <1>2 DEF AddInv, SlicesOwned
<1>4. AddsAccountedFor'
  <2> SUFFICES ASSUME NEW a \in issued, a \notin storage[Owner[a.key]] \cup add_buffer[Owner[a.key]]
               PROVE  \E x \in Messages(toServer'[a.worker][Owner[a.key]]) :
                         x.flag = "kAdd" /\ x.iter = a.iter /\ a.key \in x.keys
    BY <1>0 DEF AddsAccountedFor
  <2>1. a.worker \in Workers /\ Owner[a.key] \in Servers
    BY TableAssumption DEF TypeOK, ServerTypeOK, KVTypeOK, Increment
  <2>2. QED
    BY <1>1, <2>1 DEF AddInv, AddsAccountedFor
<1>5. AddsCalled'
  <2>1. ASSUME NEW v \in Workers, NEW s \in Servers, NEW x \in Messages(toServer'[v][s]),
               x.flag = "kAdd"
        PROVE  x \in Messages(toServer[v][s])
    BY <1>1, <1>2, <2>1
  <2>2. QED
    BY <1>0, <2>1 DEF AddInv, AddsCalled
<1>6. QED
  BY <1>3, <1>4, <1>5 DEF AddInv

LEMMA AddInvAdd ==
    ASSUME TypeOK, AddInv, NEW w \in Workers, NEW K \in AddKeys,
           ClientAdd(w, K), UNCHANGED serverVars
    PROVE  AddInv'
<1> DEFINE m(s) == Slice(w, "kAdd", K, s)
           new == {[worker |-> w, iter |-> clock[w], key |-> k] : k \in K}
<1>0. K \in SUBSET Keys /\ Send(w, "kAdd", K) /\ issued' = issued \cup new /\ storage' = storage /\ add_buffer' = add_buffer
  BY TableAssumption DEF ClientAdd, serverVars, buffers
<1>1. \A v \in Workers, s \in Servers :
         \/ Messages(toServer'[v][s]) = Messages(toServer[v][s])
         \/ v = w /\ Messages(toServer'[v][s]) = Messages(toServer[v][s]) \cup {m(s)}
  <2> TAKE v \in Workers, s \in Servers
  <2>1. /\ s \in Involved(K) => Messages(toServer'[w][s]) = Messages(toServer[w][s]) \cup {m(s)}
        /\ s \notin Involved(K) => toServer'[w][s] = toServer[w][s]
        /\ v # w => toServer'[v][s] = toServer[v][s]
    BY <1>0, SendEffect, TypedParts
  <2>2. QED
    BY <2>1
<1>2. ASSUME NEW s \in Servers, s \in Involved(K) PROVE m(s) \in Messages(toServer'[w][s])
  <2>1. Messages(toServer'[w][s]) = Messages(toServer[w][s]) \cup {m(s)}
    BY <1>0, <1>2, SendEffect, TypedParts
  <2>2. QED
    BY <2>1
<1>3. \A s \in Servers : /\ m(s).flag = "kAdd" /\ m(s).iter = clock[w]
                         /\ \A k \in m(s).keys : k \in K /\ Owner[k] = s
                         /\ \A k \in K : Owner[k] = s => k \in m(s).keys
  BY DEF SliceOf, Slice
<1>4. /\ \A k \in K : [worker |-> w, iter |-> clock[w], key |-> k] \in new
      /\ \A a \in new : a.worker = w /\ a.iter = clock[w] /\ a.key \in K
  OBVIOUS
<1> HIDE DEF m, new
<1>5. SlicesOwned'
  BY <1>1, <1>3 DEF AddInv, SlicesOwned
<1>6. AddsAccountedFor'
  <2> SUFFICES ASSUME NEW a \in issued \cup new, a \notin storage[Owner[a.key]] \cup add_buffer[Owner[a.key]]
               PROVE  \E x \in Messages(toServer'[a.worker][Owner[a.key]]) :
                         x.flag = "kAdd" /\ x.iter = a.iter /\ a.key \in x.keys
    BY <1>0 DEF AddsAccountedFor
  <2>1. CASE a \in issued
    <3>1. a.worker \in Workers /\ Owner[a.key] \in Servers
      BY <2>1, TableAssumption DEF TypeOK, ServerTypeOK, KVTypeOK, Increment
    <3>2. QED
      BY <1>1, <2>1, <3>1 DEF AddInv, AddsAccountedFor
  <2>2. CASE a \in new
    <3>1. a.worker = w /\ a.iter = clock[w] /\ a.key \in K
      BY <1>4, <2>2
    <3>2. Owner[a.key] \in Servers /\ Owner[a.key] \in Involved(K)
      BY <1>0, <3>1, TableAssumption DEF Involved
    <3>3. QED
      BY <1>2, <1>3, <3>1, <3>2
  <2>3. QED
    BY <2>1, <2>2
<1>7. AddsCalled'
  <2> SUFFICES ASSUME NEW v \in Workers, NEW s \in Servers, NEW x \in Messages(toServer'[v][s]),
                      x.flag = "kAdd", NEW k \in x.keys
               PROVE  [worker |-> v, iter |-> x.iter, key |-> k] \in issued \cup new
    BY <1>0 DEF AddsCalled, AddInv
  <2>1. CASE x \in Messages(toServer[v][s])
    BY <2>1 DEF AddInv, AddsCalled
  <2>2. CASE v = w /\ x = m(s)
    BY <1>3, <1>4, <2>2
  <2>3. QED
    BY <1>1, <2>1, <2>2
<1>8. QED
  BY <1>5, <1>6, <1>7 DEF AddInv

LEMMA AddInvClock ==
    ASSUME TypeOK, AddInv, NEW w \in Workers, ClientClock(w), UNCHANGED serverVars
    PROVE  AddInv'
<1> DEFINE m == [flag |-> "kClock", keys |-> {}, iter |-> clock[w]]
<1>0. issued' = issued /\ storage' = storage /\ add_buffer' = add_buffer
  BY DEF ClientClock, serverVars, buffers
<1>1. \A v \in Workers, s \in Servers :
         \/ Messages(toServer'[v][s]) = Messages(toServer[v][s])
         \/ v = w /\ Messages(toServer'[v][s]) = Messages(toServer[v][s]) \cup {m}
  BY ClockEffect, TypedParts
<1>2. m.flag = "kClock" /\ m.keys = {}
  OBVIOUS
<1> HIDE DEF m
<1>3. SlicesOwned'
  BY <1>1, <1>2 DEF AddInv, SlicesOwned
<1>4. AddsAccountedFor'
  <2> SUFFICES ASSUME NEW a \in issued, a \notin storage[Owner[a.key]] \cup add_buffer[Owner[a.key]]
               PROVE  \E x \in Messages(toServer'[a.worker][Owner[a.key]]) :
                         x.flag = "kAdd" /\ x.iter = a.iter /\ a.key \in x.keys
    BY <1>0 DEF AddsAccountedFor
  <2>1. a.worker \in Workers /\ Owner[a.key] \in Servers
    BY TableAssumption DEF TypeOK, ServerTypeOK, KVTypeOK, Increment
  <2>2. QED
    BY <1>1, <2>1 DEF AddInv, AddsAccountedFor
<1>5. AddsCalled'
  BY <1>0, <1>1, <1>2 DEF AddInv, AddsCalled
<1>6. QED
  BY <1>3, <1>4, <1>5 DEF AddInv

\* A Get or a Clock that a server takes off its queue carries no Add.
LEMMA AddInvNoAdd ==
    ASSUME TypeOK, AddInv, NEW s \in Servers, NEW w \in Workers,
           toServer[w][s] # <<>>, Dequeue(s, w), Head(toServer[w][s]).flag # "kAdd",
           issued' = issued, \A x \in Servers : storage'[x] \cup add_buffer'[x] = storage[x] \cup add_buffer[x]
    PROVE  AddInv'
<1> DEFINE h == Head(toServer[w][s])
<1>1. \A v \in Workers, x \in Servers :
         \/ toServer'[v][x] = toServer[v][x]
         \/ v = w /\ x = s /\ Messages(toServer[v][x]) = Messages(toServer'[v][x]) \cup {h}
  BY DequeueEffect, TypedParts
<1>2. \A v \in Workers, x \in Servers : Messages(toServer'[v][x]) \subseteq Messages(toServer[v][x])
  BY <1>1
<1>3. SlicesOwned'
  BY <1>2 DEF AddInv, SlicesOwned
<1>4. AddsAccountedFor'
  <2>0. \A a \in issued : a.worker \in Workers /\ Owner[a.key] \in Servers
    BY TableAssumption DEF TypeOK, ServerTypeOK, KVTypeOK, Increment
  <2> SUFFICES ASSUME NEW a \in issued, a \notin storage[Owner[a.key]] \cup add_buffer[Owner[a.key]]
               PROVE  \E x \in Messages(toServer'[a.worker][Owner[a.key]]) :
                         x.flag = "kAdd" /\ x.iter = a.iter /\ a.key \in x.keys
    BY <2>0 DEF AddsAccountedFor
  <2>1. a.worker \in Workers /\ Owner[a.key] \in Servers
    BY <2>0
  <2>2. PICK x \in Messages(toServer[a.worker][Owner[a.key]]) :
                x.flag = "kAdd" /\ x.iter = a.iter /\ a.key \in x.keys
    BY DEF AddInv, AddsAccountedFor
  <2>3. x # h
    BY <2>2
  <2>4. x \in Messages(toServer'[a.worker][Owner[a.key]])
    BY <1>1, <2>1, <2>2, <2>3
  <2>5. QED
    BY <2>2, <2>4
<1>5. AddsCalled'
  BY <1>2 DEF AddInv, AddsCalled
<1>6. QED
  BY <1>3, <1>4, <1>5 DEF AddInv

LEMMA AddInvServerAdd ==
    ASSUME TypeOK, AddInv, NEW s \in Servers, NEW w \in Workers, ServerAdd(s, w), aborted' = "no"
    PROVE  AddInv'
<1> DEFINE h == Head(toServer[w][s])
           applied == {[worker |-> w, iter |-> h.iter, key |-> k] : k \in h.keys}
<1>0. /\ toServer[w][s] # <<>> /\ h.flag = "kAdd" /\ Dequeue(s, w)
      /\ issued' = issued
      /\ storage' = storage
      /\ add_buffer' = [add_buffer EXCEPT ![s] = @ \cup applied]
  BY DEF ServerAdd, Increments, Received, clientVars
<1>1. /\ \A v \in Workers, x \in Servers :
            \/ toServer'[v][x] = toServer[v][x]
            \/ v = w /\ x = s /\ Messages(toServer[v][x]) = Messages(toServer'[v][x]) \cup {h}
      /\ h \in Messages(toServer[w][s])
  <2>1. Messages(toServer[w][s]) = Messages(toServer'[w][s]) \cup {h}
    BY <1>0, DequeueEffect, TypedParts
  <2>2. \A v \in Workers, x \in Servers : (v # w \/ x # s) => toServer'[v][x] = toServer[v][x]
    BY <1>0, DequeueEffect, TypedParts
  <2> HIDE DEF h, applied
  <2>3. QED
    BY <2>1, <2>2
<1>2. \A v \in Workers, x \in Servers : Messages(toServer'[v][x]) \subseteq Messages(toServer[v][x])
  BY <1>1
<1>3. /\ add_buffer'[s] = add_buffer[s] \cup applied
      /\ \A x \in Servers : x # s => add_buffer'[x] = add_buffer[x]
      /\ \A x \in Servers : storage'[x] = storage[x]
  BY <1>0 DEF TypeOK, ServerTypeOK
<1>4. SlicesOwned'
  BY <1>2 DEF AddInv, SlicesOwned
<1>5. AddsAccountedFor'
  <2> SUFFICES ASSUME NEW a \in issued, a \notin storage'[Owner[a.key]] \cup add_buffer'[Owner[a.key]]
               PROVE  \E x \in Messages(toServer'[a.worker][Owner[a.key]]) :
                         x.flag = "kAdd" /\ x.iter = a.iter /\ a.key \in x.keys
    BY <1>0 DEF AddsAccountedFor
  <2>1. a.worker \in Workers /\ Owner[a.key] \in Servers
    BY TableAssumption DEF TypeOK, ServerTypeOK, KVTypeOK, Increment
  <2>2. a \notin storage[Owner[a.key]] \cup add_buffer[Owner[a.key]]
    BY <1>3, <2>1
  <2>3. PICK x \in Messages(toServer[a.worker][Owner[a.key]]) :
                x.flag = "kAdd" /\ x.iter = a.iter /\ a.key \in x.keys
    BY <2>2 DEF AddInv, AddsAccountedFor
  <2>4. CASE a.worker = w /\ Owner[a.key] = s /\ x = h
    <3>1. a = [worker |-> w, iter |-> h.iter, key |-> a.key]
      BY <2>3, <2>4 DEF TypeOK, ServerTypeOK, KVTypeOK, Increment
    <3>2. a \in applied
      BY <2>3, <2>4, <3>1
    <3>3. QED
      BY <1>3, <2>4, <3>2
  <2>5. CASE ~(a.worker = w /\ Owner[a.key] = s /\ x = h)
    <3>1. x \in Messages(toServer'[a.worker][Owner[a.key]])
      BY <1>1, <2>1, <2>3, <2>5
    <3>2. QED
      BY <2>3, <3>1
  <2>6. QED
    BY <2>4, <2>5
<1>6. AddsCalled'
  <2>1. applied \subseteq issued
    BY <1>0, <1>1 DEF AddInv, AddsCalled
  <2>2. \A x \in Servers : storage'[x] \cup add_buffer'[x] \subseteq issued
    BY <1>3, <2>1 DEF AddInv, AddsCalled
  <2>3. QED
    BY <1>0, <1>2, <2>2 DEF AddInv, AddsCalled
<1>7. QED
  BY <1>4, <1>5, <1>6 DEF AddInv

\* What is put aside is of the iteration that runs: a server only takes the
\* Adds of that one (the CHECK of BSPModel::Add).
LEMMA AddsDatedServer ==
    ASSUME ClockInv, AddsDated, NEW s \in Servers, NEW w \in Workers,
           Server(s, w), aborted' = "no"
    PROVE  AddsDated'
<1> DEFINE h == Head(toServer[w][s])
<1>0. /\ TypeOK /\ KVTypeOK /\ ServerTypeOK /\ TimeInv
      /\ \A x \in Servers : MinClock(x) \in Int
  BY ClockParts, PaceTypes
<1>1. CASE ServerGet(s, w)
  <2>1. UNCHANGED <<progress_tracker, storage, add_buffer>>
    BY <1>1 DEF ServerGet
  <2>2. QED
    BY <2>1 DEF AddsDated, MinClock
<1>2. CASE ServerAdd(s, w)
  <2>1. /\ toServer[w][s] # <<>> /\ Dequeue(s, w)
        /\ UNCHANGED <<progress_tracker, storage>>
        /\ Progress(s, w) = MinClock(s)
        /\ add_buffer' = [add_buffer EXCEPT ![s] = @ \cup Increments(w, h)]
    BY <1>2 DEF ServerAdd, Received
  <2>2. h.iter = MinClock(s)
    BY <1>0, <2>1, Dequeued
  <2>3. \A a \in Increments(w, h) : a.iter = MinClock(s)
    BY <2>2 DEF Increments
  <2>4. /\ add_buffer'[s] = add_buffer[s] \cup Increments(w, h)
        /\ \A x \in Servers : x # s => add_buffer'[x] = add_buffer[x]
    BY <1>0, <2>1 DEF TypeOK
  <2>5. QED
    BY <2>1, <2>3, <2>4 DEF AddsDated, MinClock
<1>3. CASE ServerClock(s, w)
  <2>1. /\ \A x \in Servers : x # s => MinClock(x)' = MinClock(x)
        /\ \/ /\ MinClock(s)' = MinClock(s)
              /\ UNCHANGED <<storage, add_buffer>>
           \/ /\ MinClock(s)' = MinClock(s) + 1
              /\ storage' = [storage EXCEPT ![s] = @ \cup add_buffer[s]]
              /\ add_buffer' = [add_buffer EXCEPT ![s] = {}]
    BY <1>3, ClockTaken
  <2>2. \A x \in Servers :
           \/ /\ MinClock(x)' = MinClock(x)
              /\ storage'[x] = storage[x] /\ add_buffer'[x] = add_buffer[x]
           \/ /\ MinClock(x)' = MinClock(x) + 1
              /\ storage'[x] = storage[x] \cup add_buffer[x] /\ add_buffer'[x] = {}
    BY <1>0, <2>1 DEF TypeOK, ServerTypeOK
  <2>3. \A x \in Servers : \A a \in storage[x] \cup add_buffer[x] : a.iter \in Int
    <3>1. \A x \in Servers : storage[x] \cup add_buffer[x] \subseteq Increment
      BY <1>0 DEF TypeOK, ServerTypeOK
    <3>2. QED
      BY <3>1, TableAssumption DEF Increment, Clocks
  <2>4. ASSUME NEW x \in Servers
        PROVE  /\ \A a \in storage'[x] : a.iter < MinClock(x)'
               /\ \A a \in add_buffer'[x] : a.iter = MinClock(x)'
    <3>1. /\ \A a \in storage[x] : a.iter < MinClock(x)
          /\ \A a \in add_buffer[x] : a.iter = MinClock(x)
      BY DEF AddsDated
    <3>2. CASE /\ MinClock(x)' = MinClock(x)
               /\ storage'[x] = storage[x] /\ add_buffer'[x] = add_buffer[x]
      BY <3>1, <3>2
    <3>3. CASE /\ MinClock(x)' = MinClock(x) + 1
               /\ storage'[x] = storage[x] \cup add_buffer[x] /\ add_buffer'[x] = {}
      <4>1. MinClock(x) \in Int /\ \A a \in storage[x] \cup add_buffer[x] : a.iter \in Int
        BY <1>0, <2>3
      <4>2. QED
        BY <3>1, <3>3, <4>1
    <3>4. QED
      BY <2>2, <3>2, <3>3
  <2>5. QED
    BY <2>4 DEF AddsDated
<1>4. QED
  BY <1>1, <1>2, <1>3 DEF Server

\* What a server's step does to the Adds in all.
LEMMA AddInvServer ==
    ASSUME ClockInv, AddInv, NEW s \in Servers, NEW w \in Workers,
           Server(s, w), aborted' = "no"
    PROVE  AddInv'
<1>0. TypeOK
  BY ClockParts
<1>1. CASE ServerAdd(s, w)
  BY <1>0, <1>1, AddInvServerAdd
<1>2. CASE ServerGet(s, w)
  <2>1. /\ toServer[w][s] # <<>> /\ Dequeue(s, w) /\ Head(toServer[w][s]).flag # "kAdd"
        /\ issued' = issued
        /\ \A x \in Servers : storage'[x] \cup add_buffer'[x] = storage[x] \cup add_buffer[x]
    BY <1>2 DEF ServerGet, Received, clientVars
  <2>2. QED
    BY <1>0, <2>1, AddInvNoAdd
<1>3. CASE ServerClock(s, w)
  <2>1. /\ toServer[w][s] # <<>> /\ Dequeue(s, w) /\ Head(toServer[w][s]).flag # "kAdd"
        /\ issued' = issued
    BY <1>3 DEF ServerClock, Received, clientVars
  <2>2. \/ UNCHANGED <<storage, add_buffer>>
        \/ /\ storage' = [storage EXCEPT ![s] = @ \cup add_buffer[s]]
           /\ add_buffer' = [add_buffer EXCEPT ![s] = {}]
    BY <1>3, ClockTaken
  <2>3. \A x \in Servers : storage'[x] \cup add_buffer'[x] = storage[x] \cup add_buffer[x]
    BY <1>0, <2>2 DEF TypeOK, ServerTypeOK
  <2>4. QED
    BY <1>0, <2>1, <2>3, AddInvNoAdd
<1>4. QED
  BY <1>1, <1>2, <1>3 DEF Server

-----------------------------------------------------------------------------
(* Last part: what the Gets return                                          *)

AnswersInv == AnswersGood /\ AnswersComplete

\* What is read is exact when it holds what s has applied, or put aside, of the
\* iterations before b, and nothing of a later one is on its way.
LEMMA ExactWhenApplied ==
    ASSUME TypeOK, AddInv, NEW s \in Servers, NEW w \in Workers, clock[w] \in Int,
           NEW K \in SUBSET Keys, \A k \in K : Owner[k] = s, NEW adds,
           adds \subseteq issued, \A a \in adds : a.iter < clock[w],
           \A a \in storage[s] \cup add_buffer[s] : a.iter < clock[w] => a \in adds,
           \A v \in Workers : \A m \in Messages(toServer[v][s]) :
               m.flag = "kAdd" => m.iter >= clock[w]
    PROVE  ExactAnswer(StorageGet(adds, K), w)
<1> DEFINE m == StorageGet(adds, K)
<1>1. m.keys = K /\ m.adds = {a \in adds : a.key \in K}
  BY DEF StorageGet
<1>2. ASSUME NEW a \in issued, a.key \in K, a.iter < clock[w]
      PROVE  a \in adds
  <2>1. a.worker \in Workers /\ a.iter \in Int /\ Owner[a.key] = s
    <3>1. a \in Increment
      BY DEF TypeOK, KVTypeOK
    <3>2. QED
      BY <1>2, <3>1, TableAssumption DEF Increment, Clocks
  <2>2. CASE a \in storage[s] \cup add_buffer[s]
    BY <1>2, <2>2
  <2>3. CASE a \notin storage[s] \cup add_buffer[s]
    <3>1. PICK x \in Messages(toServer[a.worker][s]) : x.flag = "kAdd" /\ x.iter = a.iter
      BY <2>1, <2>3 DEF AddInv, AddsAccountedFor
    <3>2. a.iter >= clock[w]
      BY <2>1, <3>1
    <3>3. QED
      BY <1>2, <2>1, <3>2
  <2>4. QED
    BY <2>2, <2>3
<1>3. {a \in adds : a.key \in K} = {a \in issued : a.key \in K /\ a.iter < clock[w]}
  BY <1>2
<1> HIDE DEF m
<1>4. QED
  BY <1>1, <1>3 DEF ExactAnswer, m

\* The places of the Gets of a worker whose channels a step leaves alone.
LEMMA OutstandingUnchanged ==
    ASSUME NEW v \in Workers, UNCHANGED get_buffer,
           \A s \in Servers : toServer'[v][s] = toServer[v][s] /\ toWorker'[s][v] = toWorker[s][v]
    PROVE  Outstanding(v)' = Outstanding(v)
<1>1. \A s \in Servers : /\ Sent(v, s)' <=> Sent(v, s)
                         /\ Parked(v, s)' <=> Parked(v, s)
                         /\ Answered(v, s)' <=> Answered(v, s)
  BY DEF Sent, Parked, Answered
<1>2. QED
  BY <1>1 DEF Outstanding

\* A worker that is not waiting has no answer under way, and none kept.
LEMMA IdleHasNoAnswer ==
    ASSUME TypeOK, GetInv, AnswersInv, NEW w \in Workers, ~Waiting(w)
    PROVE  recv_kvs[w] = {} /\ \A s \in Servers : Messages(toWorker[s][w]) = {}
<1>1. recv_kvs[w] = {}
  BY DEF AnswersInv, AnswersGood
<1>2. \A s \in Servers : toWorker[s][w] = <<>>
  BY IdleHasNothing DEF GetInv, Answered
<1>3. QED
  BY <1>1, <1>2, EmptySeq DEF Messages

\* A step that leaves the answers alone keeps those of v good, if it neither
\* adds something v is owed nor lets v run ahead.
LEMMA AnswersStayGood ==
    ASSUME AnswersInv, UNCHANGED <<toWorker, recv_kvs>>, NEW v \in Workers,
           want'[v] = want[v],
           \A m : ExactAnswer(m, v) /\ Reached(v) => ExactAnswer(m, v)' /\ Reached(v)'
    PROVE  /\ \A s \in Servers : \A m \in Messages(toWorker'[s][v]) :
                 ExactAnswer(m, v)' /\ Reached(v)' /\ m.keys = SliceOf(want'[v], s)
           /\ \A m \in recv_kvs'[v] :
                 ExactAnswer(m, v)' /\ Reached(v)' /\ m.keys \subseteq want'[v]
BY DEF AnswersInv, AnswersGood

\* A call by w, which is not waiting, and which leaves the answers alone.
LEMMA AnswersInvCall ==
    ASSUME TypeOK, GetInv, AnswersInv, NEW w \in Workers, ~Waiting(w),
           UNCHANGED <<toWorker, recv_kvs, get_buffer>>,
           \A v \in Workers : v # w =>
               /\ want'[v] = want[v]
               /\ Waiting(v)' <=> Waiting(v)
               /\ \A s \in Servers : toServer'[v][s] = toServer[v][s]
               /\ \A m : ExactAnswer(m, v) /\ Reached(v) => ExactAnswer(m, v)' /\ Reached(v)',
           Waiting(w)' => Involved(want'[w]) \subseteq Outstanding(w)'
    PROVE  AnswersInv'
<1>1. recv_kvs[w] = {} /\ \A s \in Servers : Messages(toWorker[s][w]) = {}
  BY IdleHasNoAnswer
<1>2. ASSUME NEW v \in Workers
      PROVE  /\ \A s \in Servers : \A m \in Messages(toWorker'[s][v]) :
                   ExactAnswer(m, v)' /\ Reached(v)' /\ m.keys = SliceOf(want'[v], s)
             /\ \A m \in recv_kvs'[v] :
                   ExactAnswer(m, v)' /\ Reached(v)' /\ m.keys \subseteq want'[v]
             /\ ~Waiting(v)' => recv_kvs'[v] = {}
  <2>1. CASE v = w
    BY <1>1, <2>1
  <2>2. CASE v # w
    <3>1. ~Waiting(v)' => recv_kvs'[v] = {}
      BY <2>2 DEF AnswersInv, AnswersGood
    <3>2. QED
      BY <2>2, <3>1, AnswersStayGood
  <2>3. QED
    BY <2>1, <2>2
<1>3. ASSUME NEW v \in Workers, Waiting(v)', NEW s \in Involved(want'[v]) \ Outstanding(v)'
      PROVE  \E m \in recv_kvs'[v] : m.keys = SliceOf(want'[v], s)
  <2>1. v # w
    BY <1>3
  <2>2. Outstanding(v)' = Outstanding(v)
    BY <2>1, OutstandingUnchanged
  <2>3. QED
    BY <1>3, <2>1, <2>2 DEF AnswersInv, AnswersComplete
<1>4. QED
  BY <1>2, <1>3 DEF AnswersInv, AnswersGood, AnswersComplete

LEMMA AnswersInvGet ==
    ASSUME TypeOK, GetInv, AnswersInv, NEW w \in Workers, NEW K \in GetKeys,
           ClientGet(w, K), UNCHANGED serverVars
    PROVE  AnswersInv'
<1>0. /\ K \in SUBSET Keys /\ Send(w, "kGet", K) /\ ~Waiting(w)
      /\ want' = [want EXCEPT ![w] = K]
      /\ tracker' = [tracker EXCEPT ![w] = [expected |-> NumReqs(K), current |-> 0]]
      /\ UNCHANGED <<clock, issued, recv_kvs, toWorker, get_buffer>>
  BY TableAssumption DEF ClientGet, serverVars, buffers
<1>1. want'[w] = K /\ \A v \in Workers : v # w => want'[v] = want[v] /\ tracker'[v] = tracker[v]
  BY <1>0 DEF TypeOK, KVTypeOK
<1>2. ASSUME NEW v \in Workers, v # w
      PROVE  /\ want'[v] = want[v]
             /\ Waiting(v)' <=> Waiting(v)
             /\ \A s \in Servers : toServer'[v][s] = toServer[v][s]
             /\ \A m : ExactAnswer(m, v) /\ Reached(v) => ExactAnswer(m, v)' /\ Reached(v)'
  <2>1. \A s \in Servers : toServer'[v][s] = toServer[v][s]
    BY <1>0, <1>2, SendEffect, TypedParts
  <2>2. \A m : (ExactAnswer(m, v)' <=> ExactAnswer(m, v)) /\ (Reached(v)' <=> Reached(v))
    BY <1>0 DEF ExactAnswer, Reached
  <2>3. QED
    BY <1>1, <1>2, <2>1, <2>2 DEF Waiting
<1>3. Involved(want'[w]) \subseteq Outstanding(w)'
  <2> SUFFICES ASSUME NEW s \in Involved(K) PROVE s \in Outstanding(w)'
    BY <1>1
  <2>1. s \in Servers
    BY <1>0, TableAssumption DEF Involved
  <2>2. Slice(w, "kGet", K, s) \in Messages(toServer'[w][s])
    BY <1>0, <2>1, SendEffect, TypedParts
  <2>3. Slice(w, "kGet", K, s).flag = "kGet"
    BY DEF Slice
  <2>4. QED
    BY <2>1, <2>2, <2>3 DEF Outstanding, Sent
<1>4. QED
  BY <1>0, <1>2, <1>3, AnswersInvCall

LEMMA AnswersInvAdd ==
    ASSUME TypeOK, GetInv, AnswersInv, NEW w \in Workers, NEW K \in AddKeys,
           ClientAdd(w, K), UNCHANGED serverVars
    PROVE  AnswersInv'
<1> DEFINE new == {[worker |-> w, iter |-> clock[w], key |-> k] : k \in K}
<1>0. /\ K \in SUBSET Keys /\ Send(w, "kAdd", K) /\ ~Waiting(w)
      /\ issued' = issued \cup new
      /\ UNCHANGED <<clock, want, tracker, recv_kvs, toWorker, get_buffer>>
  BY TableAssumption DEF ClientAdd, serverVars, buffers
<1>1. \A a \in new : a.worker = w /\ a.iter = clock[w]
  OBVIOUS
<1> HIDE DEF new
<1>2. ASSUME NEW v \in Workers, v # w
      PROVE  /\ want'[v] = want[v]
             /\ Waiting(v)' <=> Waiting(v)
             /\ \A s \in Servers : toServer'[v][s] = toServer[v][s]
             /\ \A m : ExactAnswer(m, v) /\ Reached(v) => ExactAnswer(m, v)' /\ Reached(v)'
  <2>1. \A s \in Servers : toServer'[v][s] = toServer[v][s]
    BY <1>0, <1>2, SendEffect, TypedParts
  <2>2. Reached(v)' <=> Reached(v)
    BY <1>0 DEF Reached
  <2>3. ASSUME NEW m, ExactAnswer(m, v), Reached(v) PROVE ExactAnswer(m, v)'
    <3>1. clock[v] \in Int /\ clock[w] \in Int
      BY TableAssumption DEF TypeOK, KVTypeOK, Clocks
    <3>2. clock[v] <= clock[w]
      BY <2>3 DEF Reached
    <3>3. \A a \in new : ~(a.iter < clock[v])
      BY <1>1, <3>1, <3>2
    <3>4. QED
      BY <1>0, <2>3, <3>3 DEF ExactAnswer
  <2>4. QED
    BY <1>0, <2>1, <2>2, <2>3 DEF Waiting
<1>3. ~Waiting(w)'
  BY <1>0 DEF Waiting
<1>4. QED
  BY <1>0, <1>2, <1>3, AnswersInvCall

LEMMA AnswersInvClock ==
    ASSUME TypeOK, GetInv, AnswersInv, NEW w \in Workers,
           ClientClock(w), UNCHANGED serverVars
    PROVE  AnswersInv'
<1>0. /\ ~Waiting(w) /\ clock' = [clock EXCEPT ![w] = @ + 1]
      /\ want' = [want EXCEPT ![w] = {}]
      /\ UNCHANGED <<issued, tracker, recv_kvs, toWorker, get_buffer>>
  BY DEF ClientClock, serverVars, buffers
<1>1. /\ clock'[w] = clock[w] + 1
      /\ \A v \in Workers : v # w => clock'[v] = clock[v] /\ want'[v] = want[v]
      /\ \A v \in Workers : clock[v] \in Int
  BY <1>0, TableAssumption DEF TypeOK, KVTypeOK, Clocks
<1>2. ASSUME NEW v \in Workers, v # w
      PROVE  /\ want'[v] = want[v]
             /\ Waiting(v)' <=> Waiting(v)
             /\ \A s \in Servers : toServer'[v][s] = toServer[v][s]
             /\ \A m : ExactAnswer(m, v) /\ Reached(v) => ExactAnswer(m, v)' /\ Reached(v)'
  <2>1. \A s \in Servers : toServer'[v][s] = toServer[v][s]
    BY <1>2, ClockEffect, TypedParts
  <2>2. \A m : ExactAnswer(m, v)' <=> ExactAnswer(m, v)
    BY <1>0, <1>1, <1>2 DEF ExactAnswer
  <2>3. Reached(v) => Reached(v)'
    <3> SUFFICES ASSUME Reached(v), NEW u \in Workers PROVE clock'[v] <= clock'[u]
      BY DEF Reached
    <3>1. clock[v] <= clock[u] /\ clock'[v] = clock[v]
      BY <1>1, <1>2 DEF Reached
    <3>2. clock'[u] = clock[u] \/ clock'[u] = clock[u] + 1
      BY <1>1
    <3>3. QED
      BY <1>1, <3>1, <3>2
  <2>4. QED
    BY <1>0, <1>1, <1>2, <2>1, <2>2, <2>3 DEF Waiting
<1>3. ~Waiting(w)'
  BY <1>0 DEF Waiting
<1>4. QED
  BY <1>0, <1>2, <1>3, AnswersInvCall

\* One answer is under way from s to w, and it is taken: what is left.
LEMMA AnswerTaken ==
    ASSUME TypeOK, GetInv, NEW s \in Servers, NEW w \in Workers, Helper(s, w)
    PROVE  /\ Head(toWorker[s][w]) \in Messages(toWorker[s][w])
           /\ Messages(toWorker'[s][w]) = {}
           /\ \A v \in Workers, x \in Servers : (v # w \/ x # s) => toWorker'[x][v] = toWorker[x][v]
           /\ s \in Outstanding(w)
           /\ Outstanding(w) \ {s} \subseteq Outstanding(w)'
           /\ \A v \in Workers : v # w => Outstanding(v)' = Outstanding(v)
<1>0. /\ toWorker[s][w] # <<>>
      /\ toWorker' = [toWorker EXCEPT ![s][w] = Tail(@)]
      /\ UNCHANGED <<toServer, get_buffer>>
      /\ KVTypeOK
  BY DEF Helper, HelperResponse, serverVars, buffers, TypeOK
<1>1. /\ toWorker[s][w] \in Seq(Answer)
      /\ toWorker'[s][w] = Tail(toWorker[s][w])
      /\ \A v \in Workers, x \in Servers : (v # w \/ x # s) => toWorker'[x][v] = toWorker[x][v]
  BY <1>0 DEF KVTypeOK
<1>2. Answered(w, s) /\ Len(toWorker[s][w]) = 1
  BY <1>0 DEF Answered, GetInv, GetsLocated, Located
<1>3. Messages(toWorker'[s][w]) = {}
  <2>1. Len(Tail(toWorker[s][w])) = 0
    BY <1>0, <1>1, <1>2, HeadTailProperties
  <2>2. QED
    BY <1>1, <2>1 DEF Messages
<1>4. Head(toWorker[s][w]) \in Messages(toWorker[s][w])
  BY <1>0, <1>1, MessagesPop
<1>5. \A v \in Workers, x \in Servers : /\ Sent(v, x)' <=> Sent(v, x)
                                        /\ Parked(v, x)' <=> Parked(v, x)
                                        /\ (v # w \/ x # s) => (Answered(v, x)' <=> Answered(v, x))
  BY <1>0, <1>1 DEF Sent, Parked, Answered
<1>6. Outstanding(w) \ {s} \subseteq Outstanding(w)'
  BY <1>5 DEF Outstanding
<1>7. \A v \in Workers : v # w => Outstanding(v)' = Outstanding(v)
  BY <1>5 DEF Outstanding
<1>8. s \in Outstanding(w)
  BY <1>2 DEF Outstanding
<1>9. QED
  BY <1>1, <1>3, <1>4, <1>6, <1>7, <1>8

LEMMA AnswersInvHelper ==
    ASSUME TypeOK, GetInv, AnswersInv, NEW s \in Servers, NEW w \in Workers, Helper(s, w)
    PROVE  AnswersInv'
<1> DEFINE h == Head(toWorker[s][w])
           finish == tracker[w].expected = tracker[w].current + 1
<1>0. /\ recv_kvs' = [recv_kvs EXCEPT ![w] = IF finish THEN {} ELSE recv_kvs[w] \cup {h}]
      /\ tracker' = [tracker EXCEPT ![w].current = @ + 1]
      /\ UNCHANGED <<clock, issued, want>>
      /\ KVTypeOK
  BY DEF Helper, HelperResponse, HandleMsg, TypeOK
<1>1. /\ recv_kvs'[w] = IF finish THEN {} ELSE recv_kvs[w] \cup {h}
      /\ \A v \in Workers : v # w => recv_kvs'[v] = recv_kvs[v] /\ tracker'[v] = tracker[v]
      /\ Waiting(w)' <=> ~finish
  BY <1>0 DEF KVTypeOK, Waiting
<1>2. \A v \in Workers : v # w => (Waiting(v)' <=> Waiting(v))
  BY <1>1 DEF Waiting
<1>3. /\ h \in Messages(toWorker[s][w]) /\ Messages(toWorker'[s][w]) = {}
      /\ \A v \in Workers, x \in Servers : (v # w \/ x # s) => toWorker'[x][v] = toWorker[x][v]
      /\ s \in Outstanding(w) /\ Outstanding(w) \ {s} \subseteq Outstanding(w)'
      /\ \A v \in Workers : v # w => Outstanding(v)' = Outstanding(v)
  BY AnswerTaken
<1>4. Waiting(w)
  BY <1>3, WaitingIsOutstanding DEF GetInv
<1>5. \A v \in Workers : \A m : (ExactAnswer(m, v)' <=> ExactAnswer(m, v)) /\ (Reached(v)' <=> Reached(v))
  BY <1>0 DEF ExactAnswer, Reached
<1>6. ExactAnswer(h, w) /\ Reached(w) /\ h.keys = SliceOf(want[w], s) /\ h.keys \subseteq want[w]
  <2>1. ExactAnswer(h, w) /\ Reached(w) /\ h.keys = SliceOf(want[w], s)
    BY <1>3 DEF AnswersInv, AnswersGood
  <2>2. QED
    BY <2>1 DEF SliceOf
<1> HIDE DEF h, finish
<1>7. ASSUME NEW v \in Workers, NEW x \in Servers, NEW m \in Messages(toWorker'[x][v])
      PROVE  ExactAnswer(m, v)' /\ Reached(v)' /\ m.keys = SliceOf(want'[v], x)
  <2>1. m \in Messages(toWorker[x][v])
    BY <1>3, <1>7
  <2>2. QED
    BY <1>0, <1>5, <2>1 DEF AnswersInv, AnswersGood
<1>8. ASSUME NEW v \in Workers, NEW m \in recv_kvs'[v]
      PROVE  ExactAnswer(m, v)' /\ Reached(v)' /\ m.keys \subseteq want'[v]
  <2>1. CASE m \in recv_kvs[v]
    BY <1>0, <1>5, <2>1 DEF AnswersInv, AnswersGood
  <2>2. CASE v = w /\ m = h
    BY <1>0, <1>5, <1>6, <2>2
  <2>3. QED
    BY <1>1, <1>8, <2>1, <2>2
<1>9. ASSUME NEW v \in Workers, ~Waiting(v)' PROVE recv_kvs'[v] = {}
  BY <1>1, <1>2, <1>9 DEF AnswersInv, AnswersGood
<1>10. ASSUME NEW v \in Workers, Waiting(v)', NEW x \in Involved(want'[v]) \ Outstanding(v)'
       PROVE  \E m \in recv_kvs'[v] : m.keys = SliceOf(want'[v], x)
  <2>1. CASE v = w /\ x = s
    <3>1. h \in recv_kvs'[w]
      BY <1>1, <1>10, <2>1
    <3>2. QED
      BY <1>0, <1>6, <2>1, <3>1
  <2>2. CASE v = w /\ x # s
    <3>1. x \notin Outstanding(w) /\ recv_kvs[w] \subseteq recv_kvs'[w]
      BY <1>1, <1>3, <1>10, <2>2
    <3>2. \E m \in recv_kvs[w] : m.keys = SliceOf(want[w], x)
      BY <1>0, <1>4, <1>10, <2>2, <3>1 DEF AnswersInv, AnswersComplete
    <3>3. QED
      BY <1>0, <2>2, <3>1, <3>2
  <2>3. CASE v # w
    BY <1>0, <1>1, <1>2, <1>3, <1>10, <2>3 DEF AnswersInv, AnswersComplete
  <2>4. QED
    BY <2>1, <2>2, <2>3
<1>11. QED
  BY <1>7, <1>8, <1>9, <1>10 DEF AnswersInv, AnswersGood, AnswersComplete

\* What a server gives: what was under way to v already, or the answer that v
\* has to get.
Given(s, v, m) ==
    \/ m \in Messages(toWorker[s][v])
    \/ ExactAnswer(m, v) /\ Reached(v) /\ m.keys = SliceOf(want[v], s)

\* A step of server s that only gives good answers.
LEMMA AnswersInvServer ==
    ASSUME AnswersInv, NEW s \in Servers, UNCHANGED clientVars,
           \A v \in Workers, x \in Servers : Located3(v, x)' <=> Located3(v, x),
           \A v \in Workers, x \in Servers : x # s => toWorker'[x][v] = toWorker[x][v],
           \A v \in Workers : \A m \in Messages(toWorker'[s][v]) : Given(s, v, m)
    PROVE  AnswersInv'
<1>0. UNCHANGED <<clock, issued, want, tracker, recv_kvs>>
  BY DEF clientVars
<1>1. \A v \in Workers : \A m : (ExactAnswer(m, v)' <=> ExactAnswer(m, v)) /\ (Reached(v)' <=> Reached(v))
  BY <1>0 DEF ExactAnswer, Reached
<1>2. \A v \in Workers : /\ Outstanding(v)' = Outstanding(v)
                         /\ Waiting(v)' <=> Waiting(v)
  BY <1>0 DEF Outstanding, Located3, Waiting
<1>3. ASSUME NEW v \in Workers, NEW x \in Servers, NEW m \in Messages(toWorker'[x][v])
      PROVE  ExactAnswer(m, v)' /\ Reached(v)' /\ m.keys = SliceOf(want'[v], x)
  <2>1. CASE m \in Messages(toWorker[x][v])
    BY <1>0, <1>1, <2>1 DEF AnswersInv, AnswersGood
  <2>2. CASE x = s /\ m \notin Messages(toWorker[x][v])
    <3>1. Given(s, v, m)
      BY <1>3, <2>2
    <3>2. ExactAnswer(m, v) /\ Reached(v) /\ m.keys = SliceOf(want[v], s)
      BY <2>2, <3>1 DEF Given
    <3>3. QED
      BY <1>0, <1>1, <2>2, <3>2
  <2>3. QED
    BY <1>3, <2>1, <2>2
<1>4. ASSUME NEW v \in Workers
      PROVE  /\ \A m \in recv_kvs'[v] : ExactAnswer(m, v)' /\ Reached(v)' /\ m.keys \subseteq want'[v]
             /\ ~Waiting(v)' => recv_kvs'[v] = {}
  BY <1>0, <1>1, <1>2 DEF AnswersInv, AnswersGood
<1>5. AnswersComplete'
  BY <1>0, <1>2 DEF AnswersInv, AnswersComplete
<1>6. QED
  BY <1>3, <1>4, <1>5 DEF AnswersInv, AnswersGood

LEMMA AnswersInvServerAdd ==
    ASSUME ClockInv, GetInv, AnswersInv, NEW s \in Servers, NEW w \in Workers, ServerAdd(s, w)
    PROVE  AnswersInv'
<1>1. UNCHANGED clientVars /\ UNCHANGED toWorker
  BY DEF ServerAdd
<1>2. \A v \in Workers, x \in Servers : Located3(v, x)' <=> Located3(v, x)
  BY GetInvServerAdd
<1>3. QED
  BY <1>1, <1>2, AnswersInvServer DEF Given

\* The message an answer adds to its channel.
LEMMA OneMoreAnswer ==
    ASSUME TypeOK, NEW s \in Servers, NEW v \in Workers, NEW K \in SUBSET Keys,
           NEW adds \in SUBSET Increment,
           toWorker'[s][v] = Append(toWorker[s][v], StorageGet(adds, K)),
           ExactAnswer(StorageGet(adds, K), v), Reached(v), K = SliceOf(want[v], s)
    PROVE  \A m \in Messages(toWorker'[s][v]) : Given(s, v, m)
<1>1. toWorker[s][v] \in Seq(Answer)
  BY DEF TypeOK, KVTypeOK
<1>2. StorageGet(adds, K) \in Answer /\ StorageGet(adds, K).keys = K
  BY DEF StorageGet, Answer
<1>3. Messages(toWorker'[s][v]) = Messages(toWorker[s][v]) \cup {StorageGet(adds, K)}
  BY <1>1, <1>2, MessagesPush
<1>4. QED
  BY <1>2, <1>3 DEF Given

LEMMA AnswersInvServerGet ==
    ASSUME ClockInv, GetInv, AddInv, AddsDated, AnswersInv, NEW s \in Servers, NEW w \in Workers,
           ServerGet(s, w), aborted' = "no"
    PROVE  AnswersInv'
<1> DEFINE h == Head(toServer[w][s])
           req == RequestOf(w, h)
           K == SliceOf(want[w], s)
<1>0. /\ UNCHANGED clientVars
      /\ TypeOK /\ KVTypeOK /\ ServerTypeOK /\ TimeInv
  BY ClockParts DEF ServerGet
<1>1. \A v \in Workers, x \in Servers : Located3(v, x)' <=> Located3(v, x)
  BY GetInvServerGet
<1>2. /\ req \in Pending /\ req.sender = w /\ req.keys = K
      /\ clock[w] = Progress(s, w)
  BY GetTaken
<1>3. \/ UNCHANGED toWorker
      \/ Progress(s, w) = MinClock(s) /\ Reply(s, storage[s], {req})
  BY DEF ServerGet
<1> HIDE DEF req
<1>4. CASE UNCHANGED toWorker
  BY <1>0, <1>1, <1>4, AnswersInvServer DEF Given
<1>5. CASE Progress(s, w) = MinClock(s) /\ Reply(s, storage[s], {req})
  <2>1. /\ clock[w] \in Int /\ clock[w] = MinClock(s)
        /\ \A v \in Workers : clock[v] \in Int /\ clock[v] >= clock[w]
        /\ \A v \in Workers : \A m \in Messages(toServer[v][s]) : m.iter >= clock[w]
    <3>1. /\ MinClock(s) \in Int
          /\ \A v \in Workers : /\ MinClock(s) <= clock[v]
                                /\ \A m \in Messages(toServer[v][s]) : MinClock(s) <= m.iter
      BY <1>0, MinClockBounds
    <3>2. /\ \A v \in Workers : clock[v] \in Int
          /\ \A v \in Workers : \A m \in Messages(toServer[v][s]) : m.iter \in Int
      BY <1>0, PaceTypes
    <3>3. QED
      BY <1>2, <1>5, <3>1, <3>2
  <2>2. /\ storage[s] \subseteq issued
        /\ \A a \in storage[s] : a.iter < clock[w]
        /\ \A a \in storage[s] \cup add_buffer[s] : a.iter < clock[w] => a \in storage[s]
    BY <2>1 DEF AddInv, AddsCalled, AddsDated
  <2>3. K \in SUBSET Keys /\ \A k \in K : Owner[k] = s
    BY <1>0 DEF SliceOf, KVTypeOK
  <2> HIDE DEF K
  <2>4. ExactAnswer(StorageGet(storage[s], K), w) /\ Reached(w)
    BY <1>0, <2>1, <2>2, <2>3, ExactWhenApplied DEF Reached
  <2>5. /\ toWorker'[s][w] = Append(toWorker[s][w], StorageGet(storage[s], K))
        /\ \A v \in Workers, x \in Servers : (v # w \/ x # s) => toWorker'[x][v] = toWorker[x][v]
    <3> DEFINE reqs == {req}
    <3>1. reqs \in SUBSET Pending /\ Reply(s, storage[s], reqs)
      BY <1>2, <1>5
    <3>2. req \in reqs /\ \A r \in reqs : r.sender = w /\ r.keys = K
      BY <1>2
    <3> HIDE DEF reqs
    <3>3. /\ (\E r \in reqs : r.sender = w) =>
                \E r \in reqs : /\ r.sender = w
                               /\ toWorker'[s][w] = Append(toWorker[s][w], StorageGet(storage[s], r.keys))
          /\ \A v \in Workers : (\A r \in reqs : r.sender # v) => toWorker'[s][v] = toWorker[s][v]
          /\ \A x \in Servers : x # s => toWorker'[x] = toWorker[x]
      BY <1>0, <3>1, ReplyEffect
    <3>4. QED
      BY <3>2, <3>3
  <2>6. storage[s] \in SUBSET Increment /\ K = SliceOf(want[w], s)
    BY <1>0 DEF ServerTypeOK, K
  <2>7. ASSUME NEW v \in Workers, NEW m \in Messages(toWorker'[s][v]) PROVE Given(s, v, m)
    <3>1. CASE v = w
      BY <1>0, <2>3, <2>4, <2>5, <2>6, <2>7, <3>1, OneMoreAnswer
    <3>2. CASE v # w
      BY <2>5, <2>7, <3>2 DEF Given
    <3>3. QED
      BY <3>1, <3>2
  <2>8. QED
    BY <1>0, <1>1, <2>5, <2>7, AnswersInvServer
<1>6. QED
  BY <1>3, <1>4, <1>5

LEMMA AnswersInvServerClock ==
    ASSUME ClockInv, GetInv, GetsParked, AddInv, AddsDated, AnswersInv,
           NEW s \in Servers, NEW w \in Workers, ServerClock(s, w), aborted' = "no"
    PROVE  AnswersInv'
<1>0. /\ UNCHANGED clientVars
      /\ TypeOK /\ KVTypeOK /\ ServerTypeOK /\ TimeInv
  BY ClockParts DEF ServerClock
<1>1. \A v \in Workers, x \in Servers : Located3(v, x)' <=> Located3(v, x)
  BY GetInvServerClock
<1>2. \/ UNCHANGED toWorker
      \/ MinClock(s)' = MinClock(s) + 1 /\ Reply(s, StorageAfter(s), get_buffer[s])
  BY ClockTaken
<1>3. CASE UNCHANGED toWorker
  BY <1>0, <1>1, <1>3, AnswersInvServer DEF Given
<1>4. CASE MinClock(s)' = MinClock(s) + 1 /\ Reply(s, StorageAfter(s), get_buffer[s])
  <2> DEFINE reqs == get_buffer[s]
             adds == StorageAfter(s)
  <2>1. /\ reqs \in SUBSET Pending /\ Reply(s, adds, reqs)
        /\ adds \in SUBSET Increment /\ adds \subseteq issued
        /\ adds = storage[s] \cup add_buffer[s]
    BY <1>0, <1>4 DEF TypeOK, ServerTypeOK, StorageAfter, AddInv, AddsCalled
  <2>2. /\ MinClock(s) \in Int
        /\ \A v \in Workers : clock[v] \in Int
        /\ \A v \in Workers : \A m \in Messages(toServer[v][s]) : m.iter \in Int
        /\ \A a \in adds : a.iter \in Int
    <3>1. \A a \in adds : a.iter \in Int
      BY <2>1, TableAssumption DEF Increment, Clocks
    <3>2. QED
      BY <1>0, <3>1, PaceTypes
  <2>3. \A a \in adds : a.iter < MinClock(s) + 1
    <3>1. /\ \A a \in storage[s] : a.iter < MinClock(s)
          /\ \A a \in add_buffer[s] : a.iter = MinClock(s)
      BY DEF AddsDated
    <3>2. QED
      BY <2>1, <2>2, <3>1
  <2>4. /\ \A v \in Workers : MinClock(s) + 1 <= clock[v]
        /\ \A v \in Workers : \A m \in Messages(toServer[v][s]) :
               m.flag = "kAdd" => MinClock(s) + 1 <= m.iter
    <3>1. TimeInv'
      BY ClockInvServerClock DEF ClockInv, TypeOK, TimeInv
    <3>2. /\ toServer[w][s] # <<>> /\ Head(toServer[w][s]).flag = "kClock" /\ Dequeue(s, w)
          /\ UNCHANGED clock
      BY DEF ServerClock, Received, clientVars
    <3>3. QED
      BY <1>0, <1>4, <3>1, <3>2, MovedMinClockBounds
  <2> HIDE DEF reqs, adds
  <2>5. /\ \A v \in Workers :
              (\E r \in reqs : r.sender = v) =>
                  \E r \in reqs :
                      /\ r.sender = v
                      /\ toWorker'[s][v] = Append(toWorker[s][v], StorageGet(adds, r.keys))
        /\ \A v \in Workers :
              (\A r \in reqs : r.sender # v) => toWorker'[s][v] = toWorker[s][v]
        /\ \A x \in Servers : x # s => toWorker'[x] = toWorker[x]
    BY <1>0, <2>1, ReplyEffect
  <2>6. ASSUME NEW v \in Workers, NEW r \in reqs, r.sender = v
        PROVE  /\ ExactAnswer(StorageGet(adds, r.keys), v) /\ Reached(v)
               /\ r.keys \in SUBSET Keys /\ r.keys = SliceOf(want[v], s)
    <3>1. clock[v] = MinClock(s) + 1 /\ r.keys = SliceOf(want[v], s)
      BY <2>6 DEF GetsParked, reqs
    <3>2. r.keys \in SUBSET Keys /\ \A k \in r.keys : Owner[k] = s
      BY <2>1, <2>6, <3>1 DEF Pending, SliceOf
    <3>3. /\ clock[v] \in Int
          /\ \A a \in adds : a.iter < clock[v]
          /\ \A a \in storage[s] \cup add_buffer[s] : a.iter < clock[v] => a \in adds
          /\ \A u \in Workers : \A m \in Messages(toServer[u][s]) :
                m.flag = "kAdd" => m.iter >= clock[v]
      BY <2>1, <2>2, <2>3, <2>4, <3>1
    <3>4. Reached(v)
      BY <2>2, <2>4, <3>1 DEF Reached
    <3>5. QED
      BY <1>0, <2>1, <3>1, <3>2, <3>3, <3>4, ExactWhenApplied
  <2>7. ASSUME NEW v \in Workers, NEW m \in Messages(toWorker'[s][v]) PROVE Given(s, v, m)
    <3>1. CASE \E r \in reqs : r.sender = v
      <4>1. PICK r \in reqs :
               /\ r.sender = v
               /\ toWorker'[s][v] = Append(toWorker[s][v], StorageGet(adds, r.keys))
        BY <2>5, <3>1
      <4>2. QED
        BY <1>0, <2>1, <2>6, <2>7, <4>1, OneMoreAnswer
    <3>2. CASE \A r \in reqs : r.sender # v
      BY <2>5, <2>7, <3>2 DEF Given
    <3>3. QED
      BY <3>1, <3>2
  <2>8. QED
    BY <1>0, <1>1, <2>5, <2>7, AnswersInvServer
<1>5. QED
  BY <1>2, <1>3, <1>4

-----------------------------------------------------------------------------
(* All parts together                                                       *)

Inv ==
    /\ ClockInv
    /\ GetInv
    /\ PaceInv
    /\ NoCheckFails
    /\ AddInv
    /\ AddsDated
    /\ AnswersInv

LEMMA InvInit == Init => Inv
<1> SUFFICES ASSUME Init PROVE AddsDated /\ AnswersInv /\ NoCheckFails
  BY ClockInvInit, GetInvInit, PaceInvInit, AddInvInit DEF Inv
<1>1. AddsDated /\ NoCheckFails
  BY DEF Init, ServerInit, AddsDated, NoCheckFails
<1>2. \A w \in Workers : ~Waiting(w) /\ recv_kvs[w] = {}
  BY DEF Init, KVInit, Waiting
<1>3. \A s \in Servers, w \in Workers : Messages(toWorker[s][w]) = {}
  BY EmptySeq DEF Init, KVInit, Messages
<1>4. QED
  BY <1>1, <1>2, <1>3 DEF AnswersInv, AnswersGood, AnswersComplete

LEMMA InvCall ==
    ASSUME EveryGetAsksAll, Inv, NEW w \in Workers, Client(w)
    PROVE  Inv'
<1>0. /\ TypeOK /\ ClockInv /\ GetInv /\ PaceInv /\ AddInv /\ AnswersInv
      /\ GetFirst
  BY DEF Inv, ClockInv, EveryGetAsksAll
<1>1. UNCHANGED serverVars
  BY DEF Client
<1>2. ClockInv'
  BY <1>0, ClockInvCall
<1>3. NoCheckFails' /\ AddsDated'
  BY <1>1 DEF Inv, NoCheckFails, AddsDated, MinClock, serverVars, buffers
<1>4. CASE \E K \in GetKeys : ClientGet(w, K)
  BY <1>0, <1>1, <1>2, <1>3, <1>4, GetInvGet, PaceInvGet, AddInvGet, AnswersInvGet DEF Inv
<1>5. CASE \E K \in AddKeys : HasGot(w) /\ ClientAdd(w, K)
  <2>1. want[w] # {}
    BY <1>0, <1>5 DEF HasGot
  <2>2. QED
    BY <1>0, <1>1, <1>2, <1>3, <1>5, <2>1, GetInvAdd, PaceInvAdd, AddInvAdd, AnswersInvAdd DEF Inv
<1>6. CASE HasGot(w) /\ ClientClock(w)
  <2>1. want[w] # {}
    BY <1>0, <1>6 DEF HasGot
  <2>2. QED
    BY <1>0, <1>1, <1>2, <1>3, <1>6, <2>1, GetInvClock, PaceInvClock, AddInvClock, AnswersInvClock DEF Inv
<1>7. QED
  BY <1>4, <1>5, <1>6 DEF Client

LEMMA InvServer ==
    ASSUME Inv, NEW s \in Servers, NEW w \in Workers, Server(s, w)
    PROVE  Inv'
<1>0. /\ TypeOK /\ ClockInv /\ GetInv /\ PaceInv /\ AddInv /\ AddsDated /\ AnswersInv
      /\ GetsParked /\ aborted = "no"
  BY DEF Inv, ClockInv, PaceInv, NoCheckFails
<1>1. aborted' = "no"
  BY <1>0, ChecksHold
<1>2. AddInv' /\ AddsDated' /\ NoCheckFails'
  BY <1>0, <1>1, AddInvServer, AddsDatedServer DEF NoCheckFails
<1>3. CASE ServerClock(s, w)
  BY <1>0, <1>1, <1>2, <1>3, ClockInvServerClock, GetInvServerClock, PaceInvServerClock,
     AnswersInvServerClock DEF Inv
<1>4. CASE ServerAdd(s, w)
  BY <1>0, <1>1, <1>2, <1>4, ClockInvServerAdd, GetInvServerAdd, PaceInvServerAdd,
     AnswersInvServerAdd DEF Inv
<1>5. CASE ServerGet(s, w)
  BY <1>0, <1>1, <1>2, <1>5, ClockInvServerGet, GetInvServerGet, PaceInvServerGet,
     AnswersInvServerGet DEF Inv
<1>6. QED
  BY <1>3, <1>4, <1>5 DEF Server

LEMMA InvHelper ==
    ASSUME Inv, NEW s \in Servers, NEW w \in Workers, Helper(s, w)
    PROVE  Inv'
<1>0. TypeOK /\ ClockInv /\ GetInv /\ PaceInv /\ AnswersInv
  BY DEF Inv, ClockInv
<1>1. /\ UNCHANGED <<issued, toServer, progress_tracker, storage, add_buffer, aborted>>
  BY DEF Helper, HelperResponse, HandleFinish, HandleMsg, serverVars, buffers
<1>2. NoCheckFails' /\ AddsDated' /\ AddInv'
  BY <1>1 DEF Inv, NoCheckFails, AddsDated, MinClock, AddInv, SlicesOwned, AddsAccountedFor, AddsCalled
<1>3. QED
  BY <1>0, <1>2, ClockInvHelper, GetInvHelper, PaceInvHelper, AnswersInvHelper DEF Inv

LEMMA InvStutter ==
    ASSUME Inv, UNCHANGED vars
    PROVE  Inv'
<1>1. UNCHANGED <<clock, issued, want, tracker, recv_kvs, vals, toServer, toWorker,
                  progress_tracker, storage, get_buffer, add_buffer, aborted>>
  BY DEF vars, kvVars, clientVars, serverVars, buffers
<1>2. ClockInv'
  BY ClockInvNext DEF Inv
<1>3. \A w \in Workers, s \in Servers : /\ Sent(w, s)' <=> Sent(w, s)
                                        /\ Parked(w, s)' <=> Parked(w, s)
                                        /\ Answered(w, s)' <=> Answered(w, s)
                                        /\ MinClock(s)' = MinClock(s)
  BY <1>1 DEF Sent, Parked, Answered, MinClock
<1>4. \A w \in Workers : Outstanding(w)' = Outstanding(w)
  BY <1>3 DEF Outstanding
<1>5. GetInv'
  BY <1>1, <1>3, <1>4 DEF Inv, GetInv, GetsLocated, Located, ResponsesCounted
<1>6. PaceInv'
  BY <1>1, <1>3 DEF Inv, PaceInv, GetsParked, Together, MinClock
<1>7. NoCheckFails' /\ AddInv' /\ AddsDated'
  BY <1>1 DEF Inv, NoCheckFails, AddInv, SlicesOwned, AddsAccountedFor, AddsCalled, AddsDated, MinClock
<1>8. AnswersInv'
  BY <1>1, <1>4 DEF Inv, AnswersInv, AnswersGood, ExactAnswer, Reached, Waiting, AnswersComplete
<1>9. QED
  BY <1>2, <1>5, <1>6, <1>7, <1>8 DEF Inv

LEMMA InvNext == EveryGetAsksAll /\ Inv /\ [Next]_vars => Inv'
<1> SUFFICES ASSUME EveryGetAsksAll, Inv, [Next]_vars PROVE Inv'
  OBVIOUS
<1>1. CASE UNCHANGED vars
  BY <1>1, InvStutter
<1>2. CASE Next
  BY <1>2, InvStutter, InvCall, InvServer, InvHelper DEF Next, TaskDone
<1>3. QED
  BY <1>1, <1>2

\* Types hold whatever the lambda asks for; the CHECKs of BSPModel do not fail
\* when it Gets from every server in every iteration (see GetIsOptional).
THEOREM BSPTypeCorrect == Spec => []TypeOK
<1>1. ClockInv => TypeOK
  BY DEF ClockInv
<1>2. QED
  BY <1>1, ClockInvInit, ClockInvNext, PTL DEF Spec

LEMMA InvAlways ==
    ASSUME EveryGetAsksAll
    PROVE  Spec => []Inv
<1>1. Inv /\ [Next]_vars => Inv'
  BY InvNext
<1>2. QED
  BY <1>1, InvInit, PTL DEF Spec

\* The inductive invariant of BSPTable.
THEOREM BSPInvariantHolds ==
    ASSUME EveryGetAsksAll
    PROVE  Spec => []IInv
<1>1. Inv => IInv
  BY DEF Inv, IInv, ClockInv, GetInv, PaceInv, AddInv, AnswersInv
<1>2. QED
  BY <1>1, InvAlways, PTL

\* No CHECK of BSPModel::Clock, ::Add and ::Get fails, with any number of
\* workers and servers, although each server judges by the Clocks it has got.
THEOREM BSPNoCheckFails ==
    ASSUME EveryGetAsksAll
    PROVE  Spec => []TablesSound
<1>1. Inv => TablesSound
  BY DEF Inv, ClockInv, TablesSound
<1>2. QED
  BY <1>1, InvAlways, PTL

\* Every answer under way is the table between two iterations: all Adds of the
\* iterations before its worker's, no other (BSPModel::Get, BSPModel::Clock).
THEOREM BSPAnswersAreExact ==
    ASSUME EveryGetAsksAll
    PROVE  Spec => []AnswersExact
<1>1. Inv => AnswersExact
  <2> SUFFICES ASSUME Inv, NEW s \in Servers, NEW w \in Workers, NEW i \in 1 .. Len(toWorker[s][w])
               PROVE  ExactAnswer(toWorker[s][w][i], w)
    BY DEF AnswersExact, ExactAnswer
  <2>1. toWorker[s][w][i] \in Messages(toWorker[s][w])
    BY DEF Messages
  <2>2. QED
    BY <2>1 DEF Inv, AnswersInv, AnswersGood
<1>2. QED
  BY <1>1, InvAlways, PTL

-----------------------------------------------------------------------------
(* The table implements BulkSynchrony                                       *)

\* When the last answer that AppBlocker counts on is there, the slices are the
\* keys asked for.
LEMMA LastAnswerCompletes ==
    ASSUME Inv, NEW s \in Servers, NEW w \in Workers, toWorker[s][w] # <<>>,
           tracker[w].expected = tracker[w].current + 1
    PROVE  UNION {m.keys : m \in recv_kvs[w] \cup {Head(toWorker[s][w])}} = want[w]
<1> DEFINE h == Head(toWorker[s][w])
<1>0. TypeOK /\ KVTypeOK /\ GetInv /\ AnswersInv
  BY DEF Inv, ClockInv, TypeOK
<1>1. h.keys = SliceOf(want[w], s)
  <2>1. h \in Messages(toWorker[s][w])
    BY <1>0, MessagesPop DEF KVTypeOK
  <2>2. QED
    BY <1>0, <2>1 DEF AnswersInv, AnswersGood
<1>2. Outstanding(w) = {s}
  <2>1. Cardinality(Outstanding(w)) = 1
    <3>1. tracker[w].current \in Nat
      BY <1>0 DEF KVTypeOK
    <3>2. tracker[w].expected = tracker[w].current + Cardinality(Outstanding(w))
      BY <1>0 DEF GetInv, ResponsesCounted
    <3>3. QED
      BY <3>1, <3>2, OutstandingFinite
  <2>2. s \in Outstanding(w)
    BY DEF Outstanding, Answered
  <2>3. PICK x : Outstanding(w) = {x}
    BY <2>1, OutstandingFinite, FS_Singleton
  <2>4. QED
    BY <2>2, <2>3
<1>3. Waiting(w)
  BY <1>0, <1>2, WaitingIsOutstanding DEF GetInv
<1> HIDE DEF h
<1>4. \A m \in recv_kvs[w] \cup {h} : m.keys \subseteq want[w]
  BY <1>0, <1>1 DEF AnswersInv, AnswersGood, SliceOf
<1>5. ASSUME NEW k \in want[w]
      PROVE  \E m \in recv_kvs[w] \cup {h} : k \in m.keys
  <2>1. k \in SliceOf(want[w], Owner[k]) /\ Owner[k] \in Involved(want[w])
    BY DEF SliceOf, Involved
  <2>2. CASE Owner[k] = s
    BY <1>1, <2>1, <2>2
  <2>3. CASE Owner[k] # s
    <3>1. Owner[k] \in Involved(want[w]) \ Outstanding(w)
      BY <1>2, <2>1, <2>3
    <3>2. QED
      BY <1>0, <1>3, <2>1, <3>1 DEF AnswersInv, AnswersComplete
  <2>4. QED
    BY <2>2, <2>3
<1>6. UNION {m.keys : m \in recv_kvs[w] \cup {h}} = want[w]
  BY <1>4, <1>5
<1>7. QED
  BY <1>6 DEF h

Blocked == [w \in Workers |-> Waiting(w)]

LEMMA BlockedStep ==
    ASSUME NEW w \in Workers, \A v \in Workers : v # w => (Waiting(v)' <=> Waiting(v)),
           NEW b \in BOOLEAN, Waiting(w)' <=> b
    PROVE  Blocked' = [Blocked EXCEPT ![w] = b]
<1>1. \A v \in Workers : Waiting(v)' \in BOOLEAN /\ Waiting(v) \in BOOLEAN
  BY DEF Waiting
<1>2. Waiting(w)' = b
  BY <1>1
<1>3. \A v \in Workers : v # w => Waiting(v)' = Waiting(v)
  BY <1>1
<1>4. QED
  BY <1>2, <1>3 DEF Blocked

LEMMA BlockedUnchanged ==
    ASSUME \A v \in Workers : Waiting(v)' <=> Waiting(v)
    PROVE  Blocked' = Blocked
<1>1. \A v \in Workers : Waiting(v)' = Waiting(v)
  BY DEF Waiting
<1>2. QED
  BY <1>1 DEF Blocked

LEMMA StartsAsPromised == Init => Promise!Init
<1> SUFFICES ASSUME Init PROVE Promise!Init
  OBVIOUS
<1>1. \A w \in Workers : Waiting(w) = FALSE
  BY DEF Init, KVInit, Waiting
<1>2. QED
  BY <1>1 DEF Init, KVInit, Promise!Init

LEMMA GetAsks ==
    ASSUME TypeOK, NEW w \in Workers, NEW K \in GetKeys, ClientGet(w, K)
    PROVE  Promise!Ask(w)
<1>0. /\ ~Waiting(w) /\ want[w] = {}
      /\ K \in SUBSET Keys /\ K # {}
      /\ want' = [want EXCEPT ![w] = K]
      /\ tracker' = [tracker EXCEPT ![w] = [expected |-> NumReqs(K), current |-> 0]]
      /\ UNCHANGED <<clock, issued, vals>>
  BY TableAssumption DEF ClientGet
<1>1. NumReqs(K) # 0
  <2>1. Involved(K) # {} /\ Involved(K) \subseteq Servers
    BY <1>0, TableAssumption DEF Involved
  <2>2. QED
    BY <2>1, TableAssumption, FS_Subset, FS_EmptySet DEF NumReqs
<1>2. /\ tracker'[w] = [expected |-> NumReqs(K), current |-> 0]
      /\ \A v \in Workers : v # w => tracker'[v] = tracker[v]
  BY <1>0 DEF TypeOK, KVTypeOK
<1>3. Waiting(w)' <=> TRUE
  BY <1>1, <1>2 DEF Waiting
<1>4. \A v \in Workers : v # w => (Waiting(v)' <=> Waiting(v))
  BY <1>2 DEF Waiting
<1>5. Blocked' = [Blocked EXCEPT ![w] = TRUE]
  BY <1>3, <1>4, BlockedStep
<1>6. QED
  BY <1>0, <1>5 DEF Promise!Ask, Blocked

LEMMA CallsAsPromised ==
    ASSUME EveryGetAsksAll, Inv, NEW w \in Workers, Client(w)
    PROVE  Promise!Next
<1>0. /\ TypeOK /\ ClockInv /\ GetInv /\ PaceInv /\ GetFirst
  BY DEF Inv, ClockInv, EveryGetAsksAll
<1>1. ASSUME NEW K \in GetKeys, ClientGet(w, K) PROVE Promise!Next
  BY <1>0, <1>1, GetAsks DEF Promise!Next
<1>2. ASSUME NEW K \in AddKeys, ClientAdd(w, K) PROVE Promise!Add(w)
  <2>1. K \in SUBSET Keys /\ ~Waiting(w) /\ UNCHANGED <<clock, want, tracker, vals>>
    BY <1>2, TableAssumption DEF ClientAdd
  <2>2. issued' = issued \cup {[worker |-> w, iter |-> clock[w], key |-> k] : k \in K}
    BY <1>2 DEF ClientAdd
  <2>3. Blocked' = Blocked
    BY <2>1, BlockedUnchanged DEF Waiting
  <2>4. QED
    BY <2>1, <2>2, <2>3 DEF Promise!Add, Blocked
<1>3. ASSUME HasGot(w), ClientClock(w) PROVE Promise!Clock(w)
  <2>1. /\ ~Waiting(w) /\ UNCHANGED <<issued, tracker>>
        /\ clock' = [clock EXCEPT ![w] = @ + 1]
        /\ want' = [want EXCEPT ![w] = {}]
        /\ vals' = [vals EXCEPT ![w] = {}]
    BY <1>3 DEF ClientClock
  <2>2. Blocked' = Blocked
    BY <2>1, BlockedUnchanged DEF Waiting
  <2>3. Promise!EverybodyCameTo(clock[w])
    <3>1. want[w] # {}
      BY <1>0, <1>3 DEF HasGot
    <3>2. PICK s \in Servers : TRUE
      BY <1>0, <3>1, TableAssumption DEF TypeOK, KVTypeOK
    <3>3. clock[w] <= MinClock(s)
      BY <1>0, <2>1, <3>1, IdleKeepsTogether
    <3>4. TimeInv /\ \A v \in Workers : clock[v] \in Int
      BY <1>0, ClockParts, PaceTypes
    <3>5. MinClock(s) \in Int /\ \A v \in Workers : MinClock(s) <= clock[v]
      BY <3>4, MinClockBounds
    <3>6. QED
      BY <3>3, <3>4, <3>5 DEF Promise!EverybodyCameTo
  <2>4. QED
    BY <2>1, <2>2, <2>3 DEF Promise!Clock, Blocked
<1>4. QED
  BY <1>1, <1>2, <1>3 DEF Client, Promise!Next

\* The helper's last answer makes the value that BulkSynchrony asks for; the
\* ones before it change nothing there.
LEMMA HelperAnswers ==
    ASSUME Inv, NEW s \in Servers, NEW w \in Workers, Helper(s, w)
    PROVE  [Promise!Next]_(Promise!vars)
<1> DEFINE h == Head(toWorker[s][w])
           got == recv_kvs[w] \cup {h}
           finish == tracker[w].expected = tracker[w].current + 1
           seen == UNION {m.adds : m \in got}
<1>0. /\ toWorker[s][w] # <<>>
      /\ vals' = [vals EXCEPT ![w] = IF finish THEN seen ELSE @]
      /\ tracker' = [tracker EXCEPT ![w].current = @ + 1]
      /\ UNCHANGED <<clock, issued, want>>
      /\ TypeOK /\ KVTypeOK /\ GetInv /\ AnswersInv
  BY DEF Helper, HelperResponse, HandleMsg, HandleFinish, Inv, ClockInv, TypeOK
<1>1. /\ Waiting(w)' <=> ~finish
      /\ \A v \in Workers : v # w => (Waiting(v)' <=> Waiting(v))
  BY <1>0 DEF KVTypeOK, Waiting
<1>2. Waiting(w) /\ h \in Messages(toWorker[s][w])
  <2>1. s \in Outstanding(w) /\ h \in Messages(toWorker[s][w])
    BY <1>0, AnswerTaken
  <2>2. QED
    BY <1>0, <2>1, WaitingIsOutstanding DEF GetInv
<1>3. CASE ~finish
  <2>1. vals' = vals
    BY <1>0, <1>3 DEF KVTypeOK
  <2>2. Blocked' = Blocked
    BY <1>1, <1>2, <1>3, BlockedUnchanged
  <2>3. QED
    BY <1>0, <2>1, <2>2 DEF Promise!vars, Blocked
<1>4. CASE finish
  <2>1. UNION {m.keys : m \in got} = want[w]
    BY <1>0, <1>4, LastAnswerCompletes
  <2>2. \A m \in got : ExactAnswer(m, w)
    BY <1>0, <1>2 DEF AnswersInv, AnswersGood
  <2>3. \A m \in got : m.keys \subseteq want[w]
    BY <2>1
  <2> HIDE DEF got, h
  <2>4. seen = {a \in issued : a.key \in want[w] /\ a.iter < clock[w]}
    <3>1. ASSUME NEW a \in seen PROVE a \in issued /\ a.key \in want[w] /\ a.iter < clock[w]
      BY <2>2, <2>3, <3>1 DEF ExactAnswer
    <3>2. ASSUME NEW a \in issued, a.key \in want[w], a.iter < clock[w] PROVE a \in seen
      <4>1. PICK m \in got : a.key \in m.keys
        BY <2>1, <3>2
      <4>2. a \in m.adds
        BY <2>2, <3>2, <4>1 DEF ExactAnswer
      <4>3. QED
        BY <4>1, <4>2
    <3>3. QED
      BY <3>1, <3>2
  <2>6. vals' = [vals EXCEPT ![w] = seen]
    BY <1>0, <1>4
  <2>7. Blocked' = [Blocked EXCEPT ![w] = FALSE] /\ Blocked[w]
    BY <1>1, <1>2, <1>4, BlockedStep DEF Blocked
  <2> HIDE DEF seen, finish
  <2>8. Promise!EverybodyCameTo(clock[w])
    BY <1>0, <1>2 DEF AnswersInv, AnswersGood, Reached, Promise!EverybodyCameTo
  <2>9. Promise!Answer(w)
    BY <1>0, <2>4, <2>6, <2>7, <2>8 DEF Promise!Answer, Blocked
  <2>10. QED
    BY <2>9 DEF Promise!Next
<1>5. QED
  BY <1>3, <1>4

LEMMA StepsAsPromised == EveryGetAsksAll /\ Inv /\ [Next]_vars => [Promise!Next]_(Promise!vars)
<1> SUFFICES ASSUME EveryGetAsksAll, Inv, [Next]_vars PROVE [Promise!Next]_(Promise!vars)
  OBVIOUS
<1>1. ASSUME NEW w \in Workers, Client(w) PROVE Promise!Next
  BY <1>1, CallsAsPromised
<1>2. ASSUME NEW s \in Servers, NEW w \in Workers, Helper(s, w)
      PROVE  [Promise!Next]_(Promise!vars)
  BY <1>2, HelperAnswers
<1>3. ASSUME UNCHANGED clientVars PROVE UNCHANGED Promise!vars
  <2>1. UNCHANGED <<clock, issued, want, tracker, vals>>
    BY <1>3 DEF clientVars
  <2>2. Blocked' = Blocked
    BY <2>1, BlockedUnchanged DEF Waiting
  <2>3. QED
    BY <2>1, <2>2 DEF Promise!vars, Blocked
<1>4. ASSUME NEW s \in Servers, NEW w \in Workers, Server(s, w) PROVE UNCHANGED clientVars
  BY <1>4 DEF Server, ServerClock, ServerAdd, ServerGet
<1>5. UNCHANGED vars => UNCHANGED clientVars
  BY DEF vars, kvVars
<1>6. QED
  BY <1>1, <1>2, <1>3, <1>4, <1>5 DEF Next, TaskDone

\* A BSPTable of any size implements BulkSynchrony: workers cannot tell its
\* servers, buffers and queues from a table that changes between iterations, in
\* one instant, for all of them.
THEOREM BSPPromiseKept ==
    ASSUME EveryGetAsksAll
    PROVE  Spec => KeepsPromise
<1>1. Spec => [][Promise!Next]_(Promise!vars)
  <2>1. Inv /\ [Next]_vars => [Promise!Next]_(Promise!vars)
    BY StepsAsPromised
  <2>2. QED
    BY <2>1, InvAlways, PTL DEF Spec
<1>2. Spec => Promise!Init
  BY StartsAsPromised DEF Spec
<1>3. QED
  BY <1>1, <1>2, PTL DEF KeepsPromise, Promise!Spec
=============================================================================
