--------------------------- MODULE SSPTableProofs ----------------------------
(***************************************************************************)
(* What is proved of an SSPTable for any number of workers, servers and keys  *)
(* and any staleness.  The inductive invariant comes in layers: clocks, Adds,  *)
(* places of the Gets, answers; last, the table implements BoundedStaleness.  *)
(***************************************************************************)
EXTENDS SSPTable, TableProofs

-----------------------------------------------------------------------------
(* First part of the invariant: types, exact minima, channels that tell time *)

ClockInv == TypeOK /\ MinClockExact /\ ChannelsTellTime

\* It is TimeInv, which TableProofs has for every model, and a typed buffer.
LEMMA TypedParts == TypeOK => KVTypeOK /\ ServerTypeOK
BY DEF TypeOK
LEMMA ClockParts == ClockInv => TimeInv /\ KVTypeOK
BY DEF ClockInv, TypeOK, TimeInv

LEMMA ClockInvInit == Init => ClockInv
<1> SUFFICES ASSUME Init PROVE ClockInv
  OBVIOUS
<1>1. TimeInv
  BY TimeInvInit DEF Init
<1>2. QED
  BY <1>1 DEF Init, ClockInv, TimeInv, TypeOK

LEMMA ClockInvCall ==
    ASSUME ClockInv, NEW w \in Workers, Client(w)
    PROVE  ClockInv'
<1>1. UNCHANGED serverVars
  BY DEF Client
<1>2. TimeInv'
  BY <1>1, ClockParts, TimeInvGet, TimeInvAdd, TimeInvClock DEF Client, serverVars
<1>3. QED
  BY <1>1, <1>2 DEF ClockInv, TimeInv, TypeOK, serverVars

LEMMA ClockInvHelper ==
    ASSUME ClockInv, NEW s \in Servers, NEW w \in Workers, Helper(s, w)
    PROVE  ClockInv'
<1>1. TimeInv'
  BY ClockParts, TimeInvHelper DEF Helper, serverVars
<1>2. QED
  BY <1>1 DEF ClockInv, TimeInv, TypeOK, Helper, serverVars

LEMMA ClockInvServerAdd ==
    ASSUME ClockInv, NEW s \in Servers, NEW w \in Workers, ServerAdd(s, w)
    PROVE  ClockInv'
<1> DEFINE m == Head(toServer[w][s])
<1>0. /\ TypeOK /\ KVTypeOK /\ ServerTypeOK /\ TimeInv
      /\ toServer[w][s] # <<>> /\ m.flag = "kAdd" /\ Dequeue(s, w)
  BY ClockParts DEF ClockInv, TypeOK, ServerAdd, Received
<1>1. storage' \in [Servers -> SUBSET Increment]
  <2>1. m \in Request
    BY <1>0, Dequeued
  <2>2. \A k \in m.keys : [worker |-> w, iter |-> m.iter, key |-> k] \in Increment
    BY <2>1 DEF Request, Increment
  <2>3. QED
    BY <1>0, <2>2 DEF ServerAdd, Increments, ServerTypeOK
<1>2. TimeInv'
  BY <1>0, <1>1, TimeInvServer DEF ServerAdd, KVTypeOK
<1>3. QED
  BY <1>0, <1>2 DEF ServerAdd, ClockInv, TimeInv, TypeOK

LEMMA ClockInvServerGet ==
    ASSUME ClockInv, NEW s \in Servers, NEW w \in Workers, ServerGet(s, w)
    PROVE  ClockInv'
<1> DEFINE m == Head(toServer[w][s])
           req == [sender |-> w, keys |-> m.keys, iter |-> m.iter]
<1>0. /\ TypeOK /\ KVTypeOK /\ ServerTypeOK /\ TimeInv
      /\ toServer[w][s] # <<>> /\ m.flag = "kGet" /\ Dequeue(s, w)
      /\ UNCHANGED <<clientVars, progress_tracker, storage>>
  BY ClockParts DEF ClockInv, TypeOK, ServerGet, Received
<1>1. req \in Pending
  BY <1>0, Dequeued DEF Request, Pending
<1>2. buffer' \in [Servers -> [Clocks -> SUBSET Pending]]
      /\ toWorker' \in [Servers -> [Workers -> Seq(Answer)]]
  <2>1. CASE Progress(s, w) > MinClock(s) + Staleness
    <3>1. Progress(s, w) - Staleness \in Clocks
      BY <1>0, <2>1, TableAssumption, StalenessAssumption DEF ServerTypeOK, Progress, MinClock, Clocks
    <3>2. buffer' = [buffer EXCEPT ![s][Progress(s, w) - Staleness] = @ \cup {req}] /\ UNCHANGED toWorker
      BY <2>1 DEF ServerGet, Push, RequestOf, TooFarAhead, WaitsFor
    <3>3. QED
      BY <1>0, <1>1, <3>1, <3>2 DEF TypeOK, KVTypeOK
  <2>2. CASE ~(Progress(s, w) > MinClock(s) + Staleness)
    <3>1. Reply(s, storage[s], {req}) /\ UNCHANGED buffer
      BY <2>2 DEF ServerGet, Push, RequestOf, TooFarAhead, WaitsFor
    <3>2. storage[s] \in SUBSET Increment
      BY <1>0 DEF ServerTypeOK
    <3>3. {req} \in SUBSET Pending
      BY <1>1
    <3>4. toWorker' \in [Servers -> [Workers -> Seq(Answer)]]
      BY <1>0, <3>1, <3>2, <3>3, ReplyType
    <3>5. QED
      BY <1>0, <3>1, <3>4 DEF TypeOK
  <2>3. QED
    BY <2>1, <2>2
<1>3. TimeInv'
  BY <1>0, <1>2, TimeInvServer DEF ServerTypeOK
<1>4. QED
  BY <1>2, <1>3 DEF ClockInv, TimeInv, TypeOK

\* A minimum that a Clock moves stays in bounds: the worker called it.
LEMMA ChangedMinInBounds ==
    ASSUME ClockInv, NEW s \in Servers, NEW w \in Workers, Received(s, w, "kClock"),
           Dequeue(s, w), ChangedMinClock(progress_tracker[s], w) # -1
    PROVE  ChangedMinClock(progress_tracker[s], w) \in Clocks
<1> DEFINE m == Head(toServer[w][s])
<1>0. /\ KVTypeOK /\ ServerTypeOK /\ TimeInv
      /\ toServer[w][s] # <<>> /\ m.flag = "kClock"
  BY ClockParts DEF TimeInv, Received
<1>1. /\ Progress(s, w) \in Clocks /\ clock[w] \in Clocks
      /\ Progress(s, w) + 1 <= clock[w]
  BY <1>0, Dequeued DEF ServerTypeOK, KVTypeOK, Progress, ClockAfter
<1>2. Progress(s, w) + 1 \in Clocks
  BY <1>1, TableAssumption DEF Clocks
<1>3. QED
  BY <1>0, <1>2 DEF ChangedMinClock, IsUniqueMin, Progress, ServerTypeOK

LEMMA ClockInvServerClock ==
    ASSUME ClockInv, NEW s \in Servers, NEW w \in Workers, ServerClock(s, w)
    PROVE  ClockInv'
<1> DEFINE m == Head(toServer[w][s])
           pt == progress_tracker[s]
           c == ChangedMinClock(pt, w)
<1>0. /\ TypeOK /\ KVTypeOK /\ ServerTypeOK /\ TimeInv
      /\ toServer[w][s] # <<>> /\ m.flag = "kClock" /\ Dequeue(s, w)
      /\ progress_tracker' = [progress_tracker EXCEPT ![s] = Advance(@, w)]
      /\ UNCHANGED <<clientVars, storage>>
  BY ClockParts DEF ClockInv, TypeOK, ServerClock, Received
<1>1. c # -1 => c \in Clocks
  BY <1>0, ChangedMinInBounds DEF Received
<1>2. buffer' \in [Servers -> [Clocks -> SUBSET Pending]]
      /\ toWorker' \in [Servers -> [Workers -> Seq(Answer)]]
  <2>1. CASE c # -1
    <3>1. Reply(s, storage[s], buffer[s][c]) /\ buffer' = [buffer EXCEPT ![s][c] = {}]
      BY <2>1 DEF ServerClock, Pop
    <3>2. buffer[s][c] \in SUBSET Pending /\ storage[s] \in SUBSET Increment
      BY <1>0, <1>1, <2>1 DEF TypeOK, ServerTypeOK
    <3>3. QED
      BY <1>0, <3>1, <3>2, ReplyType DEF TypeOK
  <2>2. CASE c = -1
    BY <1>0, <2>2 DEF ServerClock, TypeOK, KVTypeOK
  <2>3. QED
    BY <2>1, <2>2
<1>3. TimeInv'
  BY <1>0, <1>2, TimeInvServer DEF ServerTypeOK
<1>4. QED
  BY <1>2, <1>3 DEF ClockInv, TimeInv, TypeOK

LEMMA ClockInvNext == ClockInv /\ [Next]_vars => ClockInv'
<1> SUFFICES ASSUME ClockInv, [Next]_vars PROVE ClockInv'
  OBVIOUS
<1>1. ASSUME NEW w \in Workers, Client(w) PROVE ClockInv'
  BY <1>1, ClockInvCall
<1>2. ASSUME NEW s \in Servers, NEW w \in Workers, Server(s, w) PROVE ClockInv'
  BY <1>2, ClockInvServerClock, ClockInvServerAdd, ClockInvServerGet DEF Server
<1>3. ASSUME NEW s \in Servers, NEW w \in Workers, Helper(s, w) PROVE ClockInv'
  BY <1>3, ClockInvHelper
<1>4. CASE UNCHANGED vars
  BY <1>4 DEF vars, kvVars, clientVars, serverVars, ClockInv, TypeOK, ServerTypeOK, KVTypeOK,
              MinClockExact, ChannelsTellTime, Progress
<1>5. QED
  BY <1>1, <1>2, <1>3, <1>4 DEF Next, TaskDone

\* Types, for every number of workers, servers, keys and clocks.
THEOREM TypeCorrect == Spec => []TypeOK
<1>1. ClockInv => TypeOK
  BY DEF ClockInv
<1>2. QED
  BY <1>1, ClockInvInit, ClockInvNext, PTL DEF Spec

\* The cached min_clock_ is the minimum in every reachable state.
THEOREM MinClockIsExact == Spec => []MinClockExact
<1>1. ClockInv => MinClockExact
  BY DEF ClockInv
<1>2. QED
  BY <1>1, ClockInvInit, ClockInvNext, PTL DEF Spec

-----------------------------------------------------------------------------
(* Second part: Adds are applied or on their way                            *)

AddInv == SlicesOwned /\ AddsAccountedFor /\ AddsCalled

LEMMA AddInvInit == Init => AddInv
<1> SUFFICES ASSUME Init PROVE AddInv
  OBVIOUS
<1>1. \A w \in Workers, s \in Servers : Messages(toServer[w][s]) = {}
  BY EmptySeq DEF Init, ServerInit, KVInit, Messages
<1>2. QED
  BY <1>1 DEF Init, ServerInit, KVInit, AddInv, SlicesOwned, AddsAccountedFor, AddsCalled

LEMMA AddInvGet ==
    ASSUME TypeOK, AddInv, NEW w \in Workers, NEW K \in GetKeys,
           ClientGet(w, K), UNCHANGED serverVars
    PROVE  AddInv'
<1> DEFINE m(s) == Slice(w, "kGet", K, s)
<1>0. K \in SUBSET Keys /\ Send(w, "kGet", K) /\ issued' = issued /\ storage' = storage
  BY TableAssumption DEF ClientGet, NumReqs, serverVars
<1>1. \A v \in Workers, s \in Servers :
         \/ Messages(toServer'[v][s]) = Messages(toServer[v][s])
         \/ v = w /\ Messages(toServer'[v][s]) = Messages(toServer[v][s]) \cup {m(s)}
  <2> TAKE v \in Workers, s \in Servers
  <2>1. /\ s \in Involved(K) => Messages(toServer'[w][s]) = Messages(toServer[w][s]) \cup {m(s)}
        /\ s \notin Involved(K) => toServer'[w][s] = toServer[w][s]
        /\ v # w => toServer'[v][s] = toServer[v][s]
    BY <1>0, SendEffect, TypedParts
  <2>2. QED
    BY <2>1
<1>2. \A s \in Servers : m(s).flag = "kGet" /\ \A k \in m(s).keys : Owner[k] = s
  BY DEF SliceOf, Slice
<1> HIDE DEF m
<1>3. SlicesOwned'
  BY <1>1, <1>2 DEF AddInv, SlicesOwned
<1>4. AddsAccountedFor'
  <2> SUFFICES ASSUME NEW a \in issued, a \notin storage[Owner[a.key]]
               PROVE  \E x \in Messages(toServer'[a.worker][Owner[a.key]]) :
                         x.flag = "kAdd" /\ x.iter = a.iter /\ a.key \in x.keys
    BY <1>0 DEF AddsAccountedFor
  <2>1. a.worker \in Workers /\ Owner[a.key] \in Servers
    BY TableAssumption DEF TypeOK, ServerTypeOK, KVTypeOK, Increment
  <2>2. QED
    BY <1>1, <2>1 DEF AddInv, AddsAccountedFor
<1>5. AddsCalled'
  <2>1. ASSUME NEW v \in Workers, NEW s \in Servers, NEW x \in Messages(toServer'[v][s]),
               x.flag = "kAdd"
        PROVE  x \in Messages(toServer[v][s])
    BY <1>1, <1>2, <2>1
  <2>2. QED
    BY <1>0, <2>1 DEF AddInv, AddsCalled
<1>6. QED
  BY <1>3, <1>4, <1>5 DEF AddInv

LEMMA AddInvAdd ==
    ASSUME TypeOK, AddInv, NEW w \in Workers, NEW K \in AddKeys,
           ClientAdd(w, K), UNCHANGED serverVars
    PROVE  AddInv'
<1> DEFINE m(s) == Slice(w, "kAdd", K, s)
           new == {[worker |-> w, iter |-> clock[w], key |-> k] : k \in K}
<1>0. K \in SUBSET Keys /\ Send(w, "kAdd", K) /\ issued' = issued \cup new /\ storage' = storage
  BY TableAssumption DEF ClientAdd, serverVars
<1>1. \A v \in Workers, s \in Servers :
         \/ Messages(toServer'[v][s]) = Messages(toServer[v][s])
         \/ v = w /\ Messages(toServer'[v][s]) = Messages(toServer[v][s]) \cup {m(s)}
  <2> TAKE v \in Workers, s \in Servers
  <2>1. /\ s \in Involved(K) => Messages(toServer'[w][s]) = Messages(toServer[w][s]) \cup {m(s)}
        /\ s \notin Involved(K) => toServer'[w][s] = toServer[w][s]
        /\ v # w => toServer'[v][s] = toServer[v][s]
    BY <1>0, SendEffect, TypedParts
  <2>2. QED
    BY <2>1
<1>2. ASSUME NEW s \in Servers, s \in Involved(K) PROVE m(s) \in Messages(toServer'[w][s])
  <2>1. Messages(toServer'[w][s]) = Messages(toServer[w][s]) \cup {m(s)}
    BY <1>0, <1>2, SendEffect, TypedParts
  <2>2. QED
    BY <2>1
<1>3. \A s \in Servers : /\ m(s).flag = "kAdd" /\ m(s).iter = clock[w]
                         /\ \A k \in m(s).keys : k \in K /\ Owner[k] = s
                         /\ \A k \in K : Owner[k] = s => k \in m(s).keys
  BY DEF SliceOf, Slice
<1>4. /\ \A k \in K : [worker |-> w, iter |-> clock[w], key |-> k] \in new
      /\ \A a \in new : a.worker = w /\ a.iter = clock[w] /\ a.key \in K
  OBVIOUS
<1> HIDE DEF m, new
<1>5. SlicesOwned'
  BY <1>1, <1>3 DEF AddInv, SlicesOwned
<1>6. AddsAccountedFor'
  <2> SUFFICES ASSUME NEW a \in issued \cup new, a \notin storage[Owner[a.key]]
               PROVE  \E x \in Messages(toServer'[a.worker][Owner[a.key]]) :
                         x.flag = "kAdd" /\ x.iter = a.iter /\ a.key \in x.keys
    BY <1>0 DEF AddsAccountedFor
  <2>1. CASE a \in issued
    <3>1. a.worker \in Workers /\ Owner[a.key] \in Servers
      BY <2>1, TableAssumption DEF TypeOK, ServerTypeOK, KVTypeOK, Increment
    <3>2. QED
      BY <1>1, <2>1, <3>1 DEF AddInv, AddsAccountedFor
  <2>2. CASE a \in new
    <3>1. a.worker = w /\ a.iter = clock[w] /\ a.key \in K
      BY <1>4, <2>2
    <3>2. Owner[a.key] \in Servers /\ Owner[a.key] \in Involved(K)
      BY <1>0, <3>1, TableAssumption DEF Involved
    <3>3. QED
      BY <1>2, <1>3, <3>1, <3>2
  <2>3. QED
    BY <2>1, <2>2
<1>7. AddsCalled'
  <2> SUFFICES ASSUME NEW v \in Workers, NEW s \in Servers, NEW x \in Messages(toServer'[v][s]),
                      x.flag = "kAdd", NEW k \in x.keys
               PROVE  [worker |-> v, iter |-> x.iter, key |-> k] \in issued \cup new
    BY <1>0 DEF AddsCalled, AddInv
  <2>1. CASE x \in Messages(toServer[v][s])
    BY <2>1 DEF AddInv, AddsCalled
  <2>2. CASE v = w /\ x = m(s)
    BY <1>3, <1>4, <2>2
  <2>3. QED
    BY <1>1, <2>1, <2>2
<1>8. QED
  BY <1>5, <1>6, <1>7 DEF AddInv

LEMMA AddInvClock ==
    ASSUME TypeOK, AddInv, NEW w \in Workers, ClientClock(w), UNCHANGED serverVars
    PROVE  AddInv'
<1> DEFINE m == [flag |-> "kClock", keys |-> {}, iter |-> clock[w]]
<1>0. issued' = issued /\ storage' = storage
  BY DEF ClientClock, serverVars
<1>1. \A v \in Workers, s \in Servers :
         \/ Messages(toServer'[v][s]) = Messages(toServer[v][s])
         \/ v = w /\ Messages(toServer'[v][s]) = Messages(toServer[v][s]) \cup {m}
  BY ClockEffect, TypedParts
<1>2. m.flag = "kClock" /\ m.keys = {}
  OBVIOUS
<1> HIDE DEF m
<1>3. SlicesOwned'
  BY <1>1, <1>2 DEF AddInv, SlicesOwned
<1>4. AddsAccountedFor'
  <2> SUFFICES ASSUME NEW a \in issued, a \notin storage[Owner[a.key]]
               PROVE  \E x \in Messages(toServer'[a.worker][Owner[a.key]]) :
                         x.flag = "kAdd" /\ x.iter = a.iter /\ a.key \in x.keys
    BY <1>0 DEF AddsAccountedFor
  <2>1. a.worker \in Workers /\ Owner[a.key] \in Servers
    BY TableAssumption DEF TypeOK, ServerTypeOK, KVTypeOK, Increment
  <2>2. QED
    BY <1>1, <2>1 DEF AddInv, AddsAccountedFor
<1>5. AddsCalled'
  BY <1>0, <1>1, <1>2 DEF AddInv, AddsCalled
<1>6. QED
  BY <1>3, <1>4, <1>5 DEF AddInv

\* A Get or a Clock that a server takes off its queue carries no Add.
LEMMA AddInvNoAdd ==
    ASSUME TypeOK, AddInv, NEW s \in Servers, NEW w \in Workers,
           toServer[w][s] # <<>>, Dequeue(s, w), Head(toServer[w][s]).flag # "kAdd",
           UNCHANGED <<issued, storage>>
    PROVE  AddInv'
<1> DEFINE h == Head(toServer[w][s])
<1>1. \A v \in Workers, x \in Servers :
         \/ toServer'[v][x] = toServer[v][x]
         \/ v = w /\ x = s /\ Messages(toServer[v][x]) = Messages(toServer'[v][x]) \cup {h}
  BY DequeueEffect, TypedParts
<1>2. \A v \in Workers, x \in Servers : Messages(toServer'[v][x]) \subseteq Messages(toServer[v][x])
  BY <1>1
<1>3. SlicesOwned'
  BY <1>2 DEF AddInv, SlicesOwned
<1>4. AddsAccountedFor'
  <2> SUFFICES ASSUME NEW a \in issued, a \notin storage[Owner[a.key]]
               PROVE  \E x \in Messages(toServer'[a.worker][Owner[a.key]]) :
                         x.flag = "kAdd" /\ x.iter = a.iter /\ a.key \in x.keys
    BY DEF AddsAccountedFor
  <2>1. a.worker \in Workers /\ Owner[a.key] \in Servers
    BY TableAssumption DEF TypeOK, ServerTypeOK, KVTypeOK, Increment
  <2>2. PICK x \in Messages(toServer[a.worker][Owner[a.key]]) :
                x.flag = "kAdd" /\ x.iter = a.iter /\ a.key \in x.keys
    BY DEF AddInv, AddsAccountedFor
  <2>3. x # h
    BY <2>2
  <2>4. x \in Messages(toServer'[a.worker][Owner[a.key]])
    BY <1>1, <2>1, <2>2, <2>3
  <2>5. QED
    BY <2>2, <2>4
<1>5. AddsCalled'
  BY <1>2 DEF AddInv, AddsCalled
<1>6. QED
  BY <1>3, <1>4, <1>5 DEF AddInv

LEMMA AddInvServerAdd ==
    ASSUME TypeOK, AddInv, NEW s \in Servers, NEW w \in Workers, ServerAdd(s, w)
    PROVE  AddInv'
<1> DEFINE h == Head(toServer[w][s])
           applied == {[worker |-> w, iter |-> h.iter, key |-> k] : k \in h.keys}
<1>0. /\ toServer[w][s] # <<>> /\ h.flag = "kAdd" /\ Dequeue(s, w)
      /\ issued' = issued
      /\ storage' = [storage EXCEPT ![s] = @ \cup applied]
  BY DEF ServerAdd, Increments, Received, clientVars
<1>1. /\ \A v \in Workers, x \in Servers :
            \/ toServer'[v][x] = toServer[v][x]
            \/ v = w /\ x = s /\ Messages(toServer[v][x]) = Messages(toServer'[v][x]) \cup {h}
      /\ h \in Messages(toServer[w][s])
  <2>1. Messages(toServer[w][s]) = Messages(toServer'[w][s]) \cup {h}
    BY <1>0, DequeueEffect, TypedParts
  <2>2. \A v \in Workers, x \in Servers : (v # w \/ x # s) => toServer'[v][x] = toServer[v][x]
    BY <1>0, DequeueEffect, TypedParts
  <2> HIDE DEF h, applied
  <2>3. QED
    BY <2>1, <2>2
<1>2. \A v \in Workers, x \in Servers : Messages(toServer'[v][x]) \subseteq Messages(toServer[v][x])
  BY <1>1
<1>3. storage'[s] = storage[s] \cup applied /\ \A x \in Servers : x # s => storage'[x] = storage[x]
  BY <1>0 DEF TypeOK, ServerTypeOK
<1>4. SlicesOwned'
  BY <1>2 DEF AddInv, SlicesOwned
<1>5. AddsAccountedFor'
  <2> SUFFICES ASSUME NEW a \in issued, a \notin storage'[Owner[a.key]]
               PROVE  \E x \in Messages(toServer'[a.worker][Owner[a.key]]) :
                         x.flag = "kAdd" /\ x.iter = a.iter /\ a.key \in x.keys
    BY <1>0 DEF AddsAccountedFor
  <2>1. a.worker \in Workers /\ Owner[a.key] \in Servers
    BY TableAssumption DEF TypeOK, ServerTypeOK, KVTypeOK, Increment
  <2>2. a \notin storage[Owner[a.key]]
    BY <1>3, <2>1
  <2>3. PICK x \in Messages(toServer[a.worker][Owner[a.key]]) :
                x.flag = "kAdd" /\ x.iter = a.iter /\ a.key \in x.keys
    BY <2>2 DEF AddInv, AddsAccountedFor
  <2>4. CASE a.worker = w /\ Owner[a.key] = s /\ x = h
    <3>1. a = [worker |-> w, iter |-> h.iter, key |-> a.key]
      BY <2>3, <2>4 DEF TypeOK, ServerTypeOK, KVTypeOK, Increment
    <3>2. a \in applied
      BY <2>3, <2>4, <3>1
    <3>3. QED
      BY <1>3, <2>4, <3>2
  <2>5. CASE ~(a.worker = w /\ Owner[a.key] = s /\ x = h)
    <3>1. x \in Messages(toServer'[a.worker][Owner[a.key]])
      BY <1>1, <2>1, <2>3, <2>5
    <3>2. QED
      BY <2>3, <3>1
  <2>6. QED
    BY <2>4, <2>5
<1>6. AddsCalled'
  <2>1. applied \subseteq issued
    BY <1>0, <1>1 DEF AddInv, AddsCalled
  <2>2. \A x \in Servers : storage'[x] \subseteq issued
    BY <1>3, <2>1 DEF AddInv, AddsCalled
  <2>3. QED
    BY <1>0, <1>2, <2>2 DEF AddInv, AddsCalled
<1>7. QED
  BY <1>4, <1>5, <1>6 DEF AddInv

LEMMA AddInvNext == TypeOK /\ AddInv /\ [Next]_vars => AddInv'
<1> SUFFICES ASSUME TypeOK, AddInv, [Next]_vars PROVE AddInv'
  OBVIOUS
<1>1. ASSUME NEW w \in Workers, Client(w) PROVE AddInv'
  BY <1>1, AddInvGet, AddInvAdd, AddInvClock DEF Client
<1>2. ASSUME NEW s \in Servers, NEW w \in Workers, Server(s, w) PROVE AddInv'
  <2>1. CASE ServerAdd(s, w)
    BY <2>1, AddInvServerAdd
  <2>2. CASE ServerClock(s, w) \/ ServerGet(s, w)
    <3>1. /\ toServer[w][s] # <<>> /\ Dequeue(s, w) /\ Head(toServer[w][s]).flag # "kAdd"
          /\ UNCHANGED <<issued, storage>>
      BY <2>2 DEF ServerClock, Pop, ServerGet, Push, RequestOf, Received, clientVars
    <3>2. QED
      BY <3>1, AddInvNoAdd
  <2>3. QED
    BY <1>2, <2>1, <2>2 DEF Server
<1>3. ASSUME NEW s \in Servers, NEW w \in Workers, Helper(s, w) PROVE AddInv'
  BY <1>3 DEF Helper, HelperResponse, HandleFinish, HandleMsg, serverVars, AddInv, SlicesOwned, AddsAccountedFor, AddsCalled
<1>4. CASE UNCHANGED vars
  BY <1>4 DEF vars, kvVars, clientVars, serverVars, AddInv, SlicesOwned, AddsAccountedFor, AddsCalled
<1>5. QED
  BY <1>1, <1>2, <1>3, <1>4 DEF Next, TaskDone

-----------------------------------------------------------------------------
(* Third part: where the Gets are                                           *)

GetInv == GetsLocated /\ ResponsesCounted /\ GetsParked

Located3(w, s) == Sent(w, s) \/ Parked(w, s) \/ Answered(w, s)

LEMMA OutstandingFinite ==
    ASSUME NEW w
    PROVE  IsFiniteSet(Outstanding(w)) /\ Cardinality(Outstanding(w)) \in Nat
<1>1. Outstanding(w) \subseteq Servers
  BY DEF Outstanding
<1>2. QED
  BY <1>1, TableAssumption, FS_Subset, FS_CardinalityType

\* AppBlocker's counters are level exactly when nothing is outstanding.
LEMMA WaitingIsOutstanding ==
    ASSUME TypeOK, ResponsesCounted, NEW w \in Workers
    PROVE  Waiting(w) <=> Outstanding(w) # {}
<1>1. tracker[w].expected \in Nat /\ tracker[w].current \in Nat
  BY DEF TypeOK, ServerTypeOK, KVTypeOK
<1>2. Waiting(w) <=> Cardinality(Outstanding(w)) # 0
  BY <1>1, OutstandingFinite DEF ResponsesCounted, Waiting
<1>3. QED
  BY <1>2, OutstandingFinite, FS_EmptySet

LEMMA IdleHasNothing ==
    ASSUME TypeOK, ResponsesCounted, NEW w \in Workers, ~Waiting(w), NEW s \in Servers
    PROVE  ~Sent(w, s) /\ ~Parked(w, s) /\ ~Answered(w, s)
BY WaitingIsOutstanding DEF Outstanding

LEMMA LocatedUnchanged ==
    ASSUME NEW w \in Workers, NEW s \in Servers, Located(w, s),
           toServer'[w][s] = toServer[w][s], toWorker'[s][w] = toWorker[s][w],
           want'[w] = want[w], Parked(w, s)' <=> Parked(w, s)
    PROVE  /\ Located(w, s)'
           /\ Sent(w, s)' <=> Sent(w, s)
           /\ Answered(w, s)' <=> Answered(w, s)
BY DEF Located, Sent, Answered

LEMMA GetInvInit == Init => GetInv
<1> SUFFICES ASSUME Init PROVE GetInv
  OBVIOUS
<1>1. ASSUME NEW w \in Workers, NEW s \in Servers
      PROVE  /\ toServer[w][s] = <<>> /\ toWorker[s][w] = <<>>
             /\ Messages(toServer[w][s]) = {}
             /\ Len(toServer[w][s]) = 0
  BY EmptySeq DEF Init, ServerInit, KVInit, Messages
<1>2. \A s \in Servers, c \in Clocks : buffer[s][c] = {}
  BY DEF Init, ServerInit
<1>3. \A w \in Workers, s \in Servers : ~Sent(w, s) /\ ~Parked(w, s) /\ ~Answered(w, s)
  BY <1>1, <1>2 DEF Sent, Parked, Answered
<1>4. GetsLocated
  BY <1>1, <1>3 DEF GetsLocated, Located
<1>5. ResponsesCounted
  <2>1. \A w \in Workers : Outstanding(w) = {}
    BY <1>3 DEF Outstanding
  <2>2. \A w \in Workers : tracker[w].expected = 0 /\ tracker[w].current = 0
    BY DEF Init, ServerInit, KVInit
  <2>3. \A w \in Workers : Cardinality(Outstanding(w)) = 0
    BY <2>1, FS_EmptySet
  <2>4. QED
    BY <2>2, <2>3 DEF ResponsesCounted
<1>6. GetsParked
  BY <1>2 DEF GetsParked
<1>7. QED
  BY <1>4, <1>5, <1>6 DEF GetInv

LEMMA GetInvGet ==
    ASSUME TypeOK, GetInv, NEW w \in Workers, NEW K \in GetKeys,
           ClientGet(w, K), UNCHANGED serverVars
    PROVE  GetInv'
<1> DEFINE m(s) == Slice(w, "kGet", K, s)
<1>0. /\ K \in SUBSET Keys /\ Send(w, "kGet", K) /\ ~Waiting(w)
      /\ want' = [want EXCEPT ![w] = K]
      /\ tracker' = [tracker EXCEPT ![w] = [expected |-> Cardinality(Involved(K)), current |-> 0]]
      /\ UNCHANGED <<clock, toWorker, buffer, progress_tracker>>
  BY TableAssumption DEF ClientGet, NumReqs, serverVars
<1>1. want'[w] = K /\ \A v \in Workers : v # w => want'[v] = want[v]
  BY <1>0 DEF TypeOK, ServerTypeOK, KVTypeOK
<1>2. \A v \in Workers, s \in Servers : /\ Parked(v, s)' <=> Parked(v, s)
                                        /\ Answered(v, s)' <=> Answered(v, s)
  BY <1>0 DEF Parked, Answered
<1>3. ASSUME NEW s \in Servers
      PROVE  ~Sent(w, s) /\ ~Parked(w, s) /\ ~Answered(w, s)
  BY <1>0, IdleHasNothing DEF GetInv
<1>4. ASSUME NEW s \in Servers
      PROVE  Located(w, s)' /\ (Sent(w, s)' <=> s \in Involved(K))
  <2> DEFINE q == toServer[w][s]
  <2>1. \A x \in Messages(q) : x.flag # "kGet"
    BY <1>3 DEF Sent
  <2>2. CASE s \in Involved(K)
    <3>1. /\ q \in Seq(Request) /\ m(s) \in Request
          /\ toServer'[w][s] = Append(q, m(s))
          /\ Messages(toServer'[w][s]) = Messages(q) \cup {m(s)}
      BY <1>0, <2>2, SendEffect, TypedParts DEF TypeOK, ServerTypeOK, KVTypeOK
    <3>2. m(s).flag = "kGet" /\ m(s).keys = SliceOf(K, s)
      BY DEF Slice
    <3>3. /\ Len(toServer'[w][s]) = Len(q) + 1 /\ Len(q) \in Nat
          /\ \A i \in 1 .. Len(q) : toServer'[w][s][i] = q[i] /\ q[i] \in Messages(q)
      BY <3>1, PushOne DEF Messages
    <3>4. \A i \in 1 .. Len(toServer'[w][s]) - 1 : toServer'[w][s][i].flag # "kGet"
      BY <2>1, <3>3
    <3>5. Sent(w, s)'
      BY <3>1, <3>2 DEF Sent
    <3>6. \A x \in Messages(toServer'[w][s]) : x.flag = "kGet" => x.keys = SliceOf(want'[w], s)
      BY <1>1, <2>1, <3>1, <3>2
    <3>7. QED
      BY <1>2, <1>3, <2>2, <3>4, <3>5, <3>6 DEF Located
  <2>3. CASE s \notin Involved(K)
    <3>1. toServer'[w][s] = q
      BY <1>0, <2>3, SendEffect, TypedParts
    <3>2. ~Sent(w, s)'
      BY <1>3, <3>1 DEF Sent
    <3>3. Located(w, s)
      BY DEF GetInv, GetsLocated
    <3>4. QED
      BY <1>2, <1>3, <2>1, <2>3, <3>1, <3>2, <3>3 DEF Located
  <2>4. QED
    BY <2>2, <2>3
<1>5. ASSUME NEW v \in Workers, v # w, NEW s \in Servers
      PROVE  Located(v, s)' /\ (Sent(v, s)' <=> Sent(v, s))
  <2>1. toServer'[v][s] = toServer[v][s] /\ toWorker'[s][v] = toWorker[s][v] /\ want'[v] = want[v]
    BY <1>0, <1>1, <1>5, SendEffect, TypedParts
  <2>2. Located(v, s)
    BY DEF GetInv, GetsLocated
  <2>3. QED
    BY <1>2, <2>1, <2>2, LocatedUnchanged
<1>6. GetsLocated'
  BY <1>4, <1>5 DEF GetsLocated
<1>7. ResponsesCounted'
  <2> SUFFICES ASSUME NEW v \in Workers
               PROVE  tracker'[v].expected = tracker'[v].current + Cardinality(Outstanding(v)')
    BY DEF ResponsesCounted
  <2>1. CASE v = w
    <3>1. Outstanding(w)' = Involved(K)
      <4>1. Involved(K) \subseteq Servers
        BY <1>0, TableAssumption DEF Involved
      <4>2. \A s \in Servers : (Sent(w, s)' \/ Parked(w, s)' \/ Answered(w, s)') <=> s \in Involved(K)
        BY <1>2, <1>3, <1>4
      <4>3. QED
        BY <4>1, <4>2 DEF Outstanding
    <3>2. tracker'[w] = [expected |-> Cardinality(Involved(K)), current |-> 0]
      BY <1>0 DEF TypeOK, ServerTypeOK, KVTypeOK
    <3>3. Cardinality(Involved(K)) \in Nat
      BY <3>1, <1>0, TableAssumption, FS_Subset, FS_CardinalityType DEF Involved
    <3>4. QED
      BY <2>1, <3>1, <3>2, <3>3
  <2>2. CASE v # w
    <3>1. Outstanding(v)' = Outstanding(v)
      BY <1>2, <1>5, <2>2 DEF Outstanding
    <3>2. tracker'[v] = tracker[v]
      BY <1>0, <2>2 DEF TypeOK, ServerTypeOK, KVTypeOK
    <3>3. QED
      BY <3>1, <3>2 DEF GetInv, ResponsesCounted
  <2>3. QED
    BY <2>1, <2>2
<1>8. GetsParked'
  <2> SUFFICES ASSUME NEW s \in Servers, NEW c \in Clocks, NEW r \in buffer[s][c]
               PROVE  /\ c > MinClock(s)
                      /\ c + Staleness = clock[r.sender]
                      /\ r.keys = SliceOf(want'[r.sender], s)
    BY <1>0 DEF GetsParked, MinClock
  <2>1. r.sender \in Workers /\ Parked(r.sender, s)
    BY DEF TypeOK, ServerTypeOK, Pending, Parked
  <2>2. r.sender # w
    BY <1>3, <2>1
  <2>3. QED
    BY <1>1, <2>1, <2>2 DEF GetInv, GetsParked
<1>9. QED
  BY <1>6, <1>7, <1>8 DEF GetInv

\* A worker without an open Get sends something that is no Get: an Add to
\* some servers, a Clock to all.
LEMMA GetInvOtherCall ==
    ASSUME TypeOK, GetInv, NEW w \in Workers, ~Waiting(w),
           UNCHANGED <<toWorker, buffer, progress_tracker, tracker>>,
           \A v \in Workers : v # w => want'[v] = want[v] /\ clock'[v] = clock[v],
           \A v \in Workers, s \in Servers :
               \/ toServer'[v][s] = toServer[v][s]
               \/ /\ v = w
                  /\ \E m \in Request : m.flag # "kGet" /\ toServer'[v][s] = Append(toServer[v][s], m)
    PROVE  GetInv'
<1>1. \A v \in Workers, s \in Servers : /\ Parked(v, s)' <=> Parked(v, s)
                                        /\ Answered(v, s)' <=> Answered(v, s)
  BY DEF Parked, Answered
<1>2. ASSUME NEW s \in Servers
      PROVE  ~Sent(w, s) /\ ~Parked(w, s) /\ ~Answered(w, s)
  BY IdleHasNothing DEF GetInv
<1>3. ASSUME NEW s \in Servers
      PROVE  Located(w, s)' /\ ~Sent(w, s)'
  <2> DEFINE q == toServer[w][s]
  <2>1. \A x \in Messages(q) : x.flag # "kGet"
    BY <1>2 DEF Sent
  <2>2. CASE toServer'[w][s] = q
    <3>1. \A i \in 1 .. Len(q) - 1 : q[i].flag # "kGet"
      BY DEF GetInv, GetsLocated, Located
    <3>2. QED
      BY <1>1, <1>2, <2>1, <2>2, <3>1 DEF Located, Sent
  <2>3. CASE \E m \in Request : m.flag # "kGet" /\ toServer'[w][s] = Append(q, m)
    <3>1. PICK m \in Request : m.flag # "kGet" /\ toServer'[w][s] = Append(q, m)
      BY <2>3
    <3>2. q \in Seq(Request)
      BY DEF TypeOK, ServerTypeOK, KVTypeOK
    <3>3. Messages(toServer'[w][s]) = Messages(q) \cup {m}
      BY <3>1, <3>2, MessagesPush
    <3>4. /\ Len(toServer'[w][s]) = Len(q) + 1 /\ Len(q) \in Nat
          /\ \A i \in 1 .. Len(q) : toServer'[w][s][i] = q[i] /\ q[i] \in Messages(q)
      BY <3>1, <3>2, PushOne DEF Messages
    <3>5. \A i \in 1 .. Len(toServer'[w][s]) - 1 : toServer'[w][s][i].flag # "kGet"
      BY <2>1, <3>4
    <3>6. \A x \in Messages(toServer'[w][s]) : x.flag # "kGet"
      BY <2>1, <3>1, <3>3
    <3>7. ~Sent(w, s)'
      BY <3>6 DEF Sent
    <3>8. QED
      BY <1>1, <1>2, <3>5, <3>6, <3>7 DEF Located
  <2>4. QED
    BY <2>2, <2>3
<1>4. ASSUME NEW v \in Workers, v # w, NEW s \in Servers
      PROVE  Located(v, s)' /\ (Sent(v, s)' <=> Sent(v, s))
  <2>1. toServer'[v][s] = toServer[v][s] /\ toWorker'[s][v] = toWorker[s][v] /\ want'[v] = want[v]
    BY <1>4
  <2>2. Located(v, s)
    BY DEF GetInv, GetsLocated
  <2>3. QED
    BY <1>1, <2>1, <2>2, LocatedUnchanged
<1>5. GetsLocated'
  BY <1>3, <1>4 DEF GetsLocated
<1>6. ResponsesCounted'
  <2>1. ASSUME NEW v \in Workers PROVE Outstanding(v)' = Outstanding(v)
    BY <1>1, <1>2, <1>3, <1>4 DEF Outstanding
  <2>2. QED
    BY <2>1 DEF GetInv, ResponsesCounted
<1>7. GetsParked'
  <2> SUFFICES ASSUME NEW s \in Servers, NEW c \in Clocks, NEW r \in buffer[s][c]
               PROVE  /\ c > MinClock(s)
                      /\ c + Staleness = clock'[r.sender]
                      /\ r.keys = SliceOf(want'[r.sender], s)
    BY DEF GetsParked, MinClock
  <2>1. r.sender \in Workers /\ Parked(r.sender, s)
    BY DEF TypeOK, ServerTypeOK, Pending, Parked
  <2>2. r.sender # w
    BY <1>2, <2>1
  <2>3. QED
    BY <2>1, <2>2 DEF GetInv, GetsParked
<1>8. QED
  BY <1>5, <1>6, <1>7 DEF GetInv

LEMMA GetInvAdd ==
    ASSUME TypeOK, GetInv, NEW w \in Workers, NEW K \in AddKeys,
           ClientAdd(w, K), UNCHANGED serverVars
    PROVE  GetInv'
<1>1. /\ K \in SUBSET Keys /\ Send(w, "kAdd", K) /\ ~Waiting(w)
      /\ UNCHANGED <<clock, want, toWorker, buffer, progress_tracker, tracker>>
  BY TableAssumption DEF ClientAdd, serverVars
<1>2. ASSUME NEW v \in Workers, NEW s \in Servers
      PROVE  \/ toServer'[v][s] = toServer[v][s]
             \/ /\ v = w
                /\ \E m \in Request : m.flag # "kGet" /\ toServer'[v][s] = Append(toServer[v][s], m)
  <2>1. Slice(w, "kAdd", K, s).flag # "kGet"
    BY DEF Slice
  <2>2. /\ Slice(w, "kAdd", K, s) \in Request
        /\ s \in Involved(K) => toServer'[w][s] = Append(toServer[w][s], Slice(w, "kAdd", K, s))
        /\ s \notin Involved(K) => toServer'[w][s] = toServer[w][s]
        /\ v # w => toServer'[v][s] = toServer[v][s]
    BY <1>1, SendEffect, TypedParts
  <2>3. QED
    BY <2>1, <2>2
<1>3. QED
  BY <1>1, <1>2, GetInvOtherCall

LEMMA GetInvClock ==
    ASSUME TypeOK, GetInv, NEW w \in Workers, ClientClock(w), UNCHANGED serverVars
    PROVE  GetInv'
<1>1. /\ ~Waiting(w)
      /\ UNCHANGED <<toWorker, buffer, progress_tracker, tracker>>
      /\ \A v \in Workers : v # w => want'[v] = want[v] /\ clock'[v] = clock[v]
  BY DEF ClientClock, serverVars, TypeOK, ServerTypeOK, KVTypeOK
<1>2. ASSUME NEW v \in Workers, NEW s \in Servers
      PROVE  \/ toServer'[v][s] = toServer[v][s]
             \/ /\ v = w
                /\ \E m \in Request : m.flag # "kGet" /\ toServer'[v][s] = Append(toServer[v][s], m)
  <2> DEFINE m == [flag |-> "kClock", keys |-> {}, iter |-> clock[w]]
  <2>1. m.flag # "kGet"
    OBVIOUS
  <2>2. /\ m \in Request /\ toServer'[w][s] = Append(toServer[w][s], m)
        /\ v # w => toServer'[v][s] = toServer[v][s]
    BY ClockEffect, TypedParts
  <2> HIDE DEF m
  <2>3. QED
    BY <2>1, <2>2
<1>3. QED
  BY <1>1, <1>2, GetInvOtherCall

LEMMA GetInvHelper ==
    ASSUME TypeOK, GetInv, NEW s \in Servers, NEW w \in Workers, Helper(s, w)
    PROVE  GetInv'
<1>0. /\ toWorker[s][w] # <<>>
      /\ toWorker' = [toWorker EXCEPT ![s][w] = Tail(@)]
      /\ tracker' = [tracker EXCEPT ![w].current = @ + 1]
      /\ UNCHANGED <<clock, want, toServer, buffer, progress_tracker>>
  BY DEF Helper, HelperResponse, HandleFinish, HandleMsg, serverVars
<1>1. \A v \in Workers, x \in Servers : /\ Parked(v, x)' <=> Parked(v, x)
                                        /\ Sent(v, x)' <=> Sent(v, x)
  BY <1>0 DEF Parked, Sent
<1>2. Answered(w, s) /\ ~Parked(w, s) /\ ~Sent(w, s) /\ Len(toWorker[s][w]) = 1
  BY <1>0 DEF GetInv, GetsLocated, Located, Answered
<1>3. toWorker'[s][w] = <<>>
  <2>1. toWorker[s][w] \in Seq(Answer)
    BY DEF TypeOK, ServerTypeOK, KVTypeOK
  <2>2. Tail(toWorker[s][w]) \in Seq(Answer) /\ Len(Tail(toWorker[s][w])) = 0
    BY <1>0, <1>2, <2>1, HeadTailProperties
  <2>3. Tail(toWorker[s][w]) = <<>>
    BY <2>2, EmptySeq
  <2>4. QED
    BY <1>0, <2>3 DEF TypeOK, ServerTypeOK, KVTypeOK
<1>4. \A v \in Workers, x \in Servers : (v # w \/ x # s) => toWorker'[x][v] = toWorker[x][v]
  BY <1>0 DEF TypeOK, ServerTypeOK, KVTypeOK
<1>5. ASSUME NEW v \in Workers, NEW x \in Servers PROVE Located(v, x)'
  <2>1. Located(v, x)
    BY DEF GetInv, GetsLocated
  <2>2. CASE v = w /\ x = s
    <3>1. ~Answered(v, x)'
      BY <1>3, <2>2 DEF Answered
    <3>2. QED
      BY <1>0, <1>1, <2>1, <3>1 DEF Located
  <2>3. CASE v # w \/ x # s
    BY <1>0, <1>1, <1>4, <2>1, <2>3, LocatedUnchanged
  <2>4. QED
    BY <2>2, <2>3
<1>6. ResponsesCounted'
  <2> SUFFICES ASSUME NEW v \in Workers
               PROVE  tracker'[v].expected = tracker'[v].current + Cardinality(Outstanding(v)')
    BY DEF ResponsesCounted
  <2>0. tracker[v].expected = tracker[v].current + Cardinality(Outstanding(v))
    BY DEF GetInv, ResponsesCounted
  <2>1. CASE v = w
    <3>1. Outstanding(w)' = Outstanding(w) \ {s}
      <4>1. ~Sent(w, s)' /\ ~Parked(w, s)' /\ ~Answered(w, s)'
        BY <1>1, <1>2, <1>3 DEF Answered
      <4>2. \A x \in Servers : x # s => (Answered(w, x)' <=> Answered(w, x))
        BY <1>4 DEF Answered
      <4>3. QED
        BY <1>1, <4>1, <4>2 DEF Outstanding
    <3>2. s \in Outstanding(w)
      BY <1>2 DEF Outstanding
    <3>3. Cardinality(Outstanding(w)') = Cardinality(Outstanding(w)) - 1
      BY <3>1, <3>2, OutstandingFinite, FS_RemoveElement
    <3>4. /\ tracker'[w].expected = tracker[w].expected
          /\ tracker'[w].current = tracker[w].current + 1
          /\ tracker[w].current \in Nat
      BY <1>0 DEF TypeOK, ServerTypeOK, KVTypeOK
    <3>5. Cardinality(Outstanding(w)) \in Nat
      BY OutstandingFinite
    <3>6. QED
      BY <2>0, <2>1, <3>3, <3>4, <3>5
  <2>2. CASE v # w
    <3>1. Outstanding(v)' = Outstanding(v)
      BY <1>1, <1>4, <2>2 DEF Outstanding, Answered
    <3>2. tracker'[v] = tracker[v]
      BY <1>0, <2>2 DEF TypeOK, ServerTypeOK, KVTypeOK
    <3>3. QED
      BY <2>0, <3>1, <3>2
  <2>3. QED
    BY <2>1, <2>2
<1>7. GetsParked'
  BY <1>0 DEF GetInv, GetsParked, MinClock
<1>8. QED
  BY <1>5, <1>6, <1>7 DEF GetInv, GetsLocated

\* The places of a Get may change in a server's step, not how many there are.
LEMMA CountUnchanged ==
    ASSUME ResponsesCounted, UNCHANGED tracker,
           \A v \in Workers, x \in Servers : Located3(v, x)' <=> Located3(v, x)
    PROVE  ResponsesCounted'
<1>1. ASSUME NEW v \in Workers PROVE Outstanding(v)' = Outstanding(v)
  BY DEF Outstanding, Located3
<1>2. QED
  BY <1>1 DEF ResponsesCounted

\* The channel behind a message: shorter by one, the rest in its place.
LEMMA TailLocated ==
    ASSUME ClockInv, NEW s \in Servers, NEW w \in Workers, Located(w, s),
           toServer[w][s] # <<>>, Dequeue(s, w)
    PROVE  /\ \A i \in 1 .. Len(toServer'[w][s]) - 1 : toServer'[w][s][i].flag # "kGet"
           /\ Head(toServer[w][s]).flag = "kGet" => toServer'[w][s] = <<>>
           /\ Messages(toServer[w][s]) = Messages(toServer'[w][s]) \cup {Head(toServer[w][s])}
           /\ ~Parked(w, s) /\ ~Answered(w, s)
<1> DEFINE q == toServer[w][s]
<1>0. TypeOK /\ KVTypeOK
  BY DEF ClockInv, TypeOK, ServerTypeOK
<1>1. q \in Seq(Request) /\ toServer'[w][s] = Tail(q)
  BY <1>0 DEF Dequeue, KVTypeOK
<1>2. /\ Head(q) = q[1] /\ Tail(q) \in Seq(Request)
      /\ Len(q) \in Nat \ {0} /\ Len(Tail(q)) = Len(q) - 1
      /\ \A i \in 1 .. Len(q) - 1 : Tail(q)[i] = q[i + 1]
  BY <1>1, PopOne
<1>3. \A i \in 1 .. Len(q) - 1 : q[i].flag # "kGet"
  BY DEF Located
<1>4. \A i \in 1 .. Len(Tail(q)) - 1 : Tail(q)[i].flag # "kGet"
  <2> TAKE i \in 1 .. Len(Tail(q)) - 1
  <2>1. i + 1 \in 1 .. Len(q) - 1 /\ i \in 1 .. Len(q) - 1
    BY <1>2
  <2>2. QED
    BY <1>2, <1>3, <2>1
<1>5. q[1].flag = "kGet" => Tail(q) = <<>>
  <2> SUFFICES ASSUME q[1].flag = "kGet" PROVE Tail(q) = <<>>
    OBVIOUS
  <2>1. ~(1 \in 1 .. Len(q) - 1)
    BY <1>3
  <2>2. Len(q) = 1
    <3> DEFINE n == Len(q)
    <3>1. n \in Nat \ {0} /\ ~(1 \in 1 .. n - 1)
      BY <1>2, <2>1
    <3> HIDE DEF n
    <3>2. n = 1
      BY <3>1
    <3>3. QED
      BY <3>2 DEF n
  <2>3. Len(Tail(q)) = 0
    BY <1>2, <2>2
  <2>4. QED
    BY <1>2, <2>3, EmptySeq
<1>6. ~Parked(w, s) /\ ~Answered(w, s)
  BY DEF Located
<1>7. QED
  BY <1>0, <1>1, <1>2, <1>4, <1>5, <1>6, DequeueEffect, TypedParts

LEMMA GetInvServerAdd ==
    ASSUME ClockInv, GetInv, NEW s \in Servers, NEW w \in Workers, ServerAdd(s, w)
    PROVE  GetInv' /\ \A v \in Workers, x \in Servers : Located3(v, x)' <=> Located3(v, x)
<1> DEFINE h == Head(toServer[w][s])
<1>0. /\ toServer[w][s] # <<>> /\ h.flag = "kAdd" /\ Dequeue(s, w)
      /\ UNCHANGED <<clock, want, tracker, toWorker, buffer, progress_tracker>>
      /\ TypeOK
  BY DEF ServerAdd, Increments, Received, clientVars, ClockInv
<1>1. \A v \in Workers, x \in Servers : /\ Parked(v, x)' <=> Parked(v, x)
                                        /\ Answered(v, x)' <=> Answered(v, x)
  BY <1>0 DEF Parked, Answered
<1>2. \A v \in Workers, x \in Servers : (v # w \/ x # s) => toServer'[v][x] = toServer[v][x]
  BY <1>0, DequeueEffect, TypedParts
<1>3. /\ \A i \in 1 .. Len(toServer'[w][s]) - 1 : toServer'[w][s][i].flag # "kGet"
      /\ Messages(toServer[w][s]) = Messages(toServer'[w][s]) \cup {h}
      /\ ~Parked(w, s) /\ ~Answered(w, s)
  BY <1>0, TailLocated DEF GetInv, GetsLocated
<1>4. Sent(w, s)' <=> Sent(w, s)
  BY <1>0, <1>3 DEF Sent
<1>5. ASSUME NEW v \in Workers, NEW x \in Servers
      PROVE  Located(v, x)' /\ (Located3(v, x)' <=> Located3(v, x))
  <2>1. Located(v, x)
    BY DEF GetInv, GetsLocated
  <2>2. CASE v = w /\ x = s
    <3>1. \A m \in Messages(toServer'[w][s]) : m.flag = "kGet" => m.keys = SliceOf(want'[w], s)
      BY <1>0, <1>3, <2>1, <2>2 DEF Located
    <3>2. QED
      BY <1>1, <1>3, <1>4, <2>2, <3>1 DEF Located, Located3
  <2>3. CASE v # w \/ x # s
    <3>1. Located(v, x)' /\ (Sent(v, x)' <=> Sent(v, x))
      BY <1>0, <1>1, <1>2, <2>1, <2>3, LocatedUnchanged
    <3>2. QED
      BY <1>1, <3>1 DEF Located3
  <2>4. QED
    BY <2>2, <2>3
<1>6. ResponsesCounted'
  BY <1>0, <1>5, CountUnchanged DEF GetInv
<1>7. GetsParked'
  BY <1>0 DEF GetInv, GetsParked, MinClock
<1>8. QED
  BY <1>5, <1>6, <1>7 DEF GetInv, GetsLocated

LEMMA GetInvServerGet ==
    ASSUME ClockInv, GetInv, NEW s \in Servers, NEW w \in Workers, ServerGet(s, w)
    PROVE  GetInv' /\ \A v \in Workers, x \in Servers : Located3(v, x)' <=> Located3(v, x)
<1> DEFINE h == Head(toServer[w][s])
           req == [sender |-> w, keys |-> h.keys, iter |-> h.iter]
<1>0. /\ toServer[w][s] # <<>> /\ h.flag = "kGet" /\ Dequeue(s, w)
      /\ UNCHANGED <<clock, want, tracker, progress_tracker>>
      /\ TypeOK /\ KVTypeOK
  BY DEF ServerGet, Push, RequestOf, Received, clientVars, ClockInv, TypeOK, ServerTypeOK
<1>1. \A v \in Workers, x \in Servers : (v # w \/ x # s) => toServer'[v][x] = toServer[v][x]
  BY <1>0, DequeueEffect, TypedParts
<1>2. /\ toServer'[w][s] = <<>>
      /\ Messages(toServer[w][s]) = Messages(toServer'[w][s]) \cup {h}
      /\ ~Parked(w, s) /\ ~Answered(w, s)
  BY <1>0, TailLocated DEF GetInv, GetsLocated
<1>3. /\ Messages(toServer'[w][s]) = {}
      /\ Len(toServer'[w][s]) = 0
      /\ ~Sent(w, s)' /\ Sent(w, s)
  BY <1>0, <1>2, EmptySeq DEF Messages, Sent
<1>4. h \in Request /\ h.keys = SliceOf(want[w], s) /\ req \in Pending
  <2>1. h \in Request
    BY <1>0, DequeueEffect, TypedParts
  <2>2. h.keys = SliceOf(want[w], s)
    BY <1>0, <1>2 DEF GetInv, GetsLocated, Located
  <2>3. QED
    BY <2>1, <2>2 DEF Request, Pending
<1>5. Progress(s, w) = clock[w]
  <2>1. h.iter = Progress(s, w) /\ TellsTime(toServer'[w][s], ClockAfter(h), clock[w])
    BY <1>0, Dequeued, ClockParts
  <2>2. ClockAfter(h) = Progress(s, w)
    BY <1>0, <2>1 DEF ClockAfter
  <2>3. QED
    BY <1>2, <2>1, <2>2 DEF TellsTime
<1>6. \A i \in 1 .. Len(toServer'[w][s]) - 1 : toServer'[w][s][i].flag # "kGet"
  BY <1>3
<1>7. CASE Progress(s, w) > MinClock(s) + Staleness
  <2> DEFINE c0 == Progress(s, w) - Staleness
  <2>1. /\ c0 \in Clocks /\ c0 > MinClock(s) /\ c0 + Staleness = clock[w]
        /\ Progress(s, w) \in Int
    BY <1>0, <1>5, <1>7, TableAssumption, StalenessAssumption
       DEF TypeOK, ServerTypeOK, Progress, MinClock, Clocks
  <2>2. buffer' = [buffer EXCEPT ![s][c0] = @ \cup {req}] /\ toWorker' = toWorker
    BY <1>7 DEF ServerGet, Push, RequestOf, TooFarAhead, WaitsFor
  <2> HIDE DEF c0
  <2>3. /\ buffer'[s][c0] = buffer[s][c0] \cup {req}
        /\ \A x \in Servers, c \in Clocks : (x # s \/ c # c0) => buffer'[x][c] = buffer[x][c]
    BY <1>0, <2>1, <2>2 DEF TypeOK, ServerTypeOK
  <2>4. Parked(w, s)'
    <3>1. req \in buffer'[s][c0] /\ req.sender = w
      BY <2>3
    <3>2. QED
      BY <2>1, <3>1 DEF Parked
  <2>5. ASSUME NEW v \in Workers, NEW x \in Servers, v # w \/ x # s
        PROVE  Parked(v, x)' <=> Parked(v, x)
    BY <2>1, <2>3, <2>5 DEF Parked
  <2>6. ASSUME NEW v \in Workers, NEW x \in Servers
        PROVE  Located(v, x)' /\ (Located3(v, x)' <=> Located3(v, x))
    <3>1. Located(v, x)
      BY DEF GetInv, GetsLocated
    <3>2. CASE v = w /\ x = s
      <4>1. ~Answered(w, s)'
        BY <1>2, <2>2 DEF Answered
      <4>2. QED
        BY <1>2, <1>3, <1>6, <2>4, <3>2, <4>1 DEF Located, Located3
    <3>3. CASE v # w \/ x # s
      <4>1. Located(v, x)' /\ (Sent(v, x)' <=> Sent(v, x)) /\ (Answered(v, x)' <=> Answered(v, x))
        BY <1>0, <1>1, <2>2, <2>5, <3>1, <3>3, LocatedUnchanged
      <4>2. QED
        BY <2>5, <3>3, <4>1 DEF Located3
    <3>4. QED
      BY <3>2, <3>3
  <2>7. ResponsesCounted'
    BY <1>0, <2>6, CountUnchanged DEF GetInv
  <2>8. GetsParked'
    <3> SUFFICES ASSUME NEW x \in Servers, NEW c \in Clocks, NEW r \in buffer'[x][c]
                 PROVE  /\ c > MinClock(x)
                        /\ c + Staleness = clock[r.sender]
                        /\ r.keys = SliceOf(want[r.sender], x)
      BY <1>0 DEF GetsParked, MinClock
    <3>1. CASE r \in buffer[x][c]
      BY <3>1 DEF GetInv, GetsParked
    <3>2. CASE x = s /\ c = c0 /\ r = req
      BY <1>4, <2>1, <3>2
    <3>3. QED
      BY <2>3, <3>1, <3>2
  <2>9. QED
    BY <2>6, <2>7, <2>8 DEF GetInv, GetsLocated
<1>8. CASE ~(Progress(s, w) > MinClock(s) + Staleness)
  <2>1. Reply(s, storage[s], {req}) /\ buffer' = buffer
    BY <1>8 DEF ServerGet, Push, RequestOf, TooFarAhead, WaitsFor
  <2>2. /\ toWorker'[s][w] = Append(toWorker[s][w], StorageGet(storage[s], req.keys))
        /\ \A v \in Workers, x \in Servers : (v # w \/ x # s) => toWorker'[x][v] = toWorker[x][v]
    <3> DEFINE reqs == {req}
    <3>1. reqs \in SUBSET Pending /\ Reply(s, storage[s], reqs) /\ TypeOK
      BY <1>0, <1>4, <2>1
    <3>2. \A r \in reqs : r = req /\ r.sender = w
      OBVIOUS
    <3>3. req \in reqs
      OBVIOUS
    <3> HIDE DEF reqs, req
    <3>4. /\ (\E r \in reqs : r.sender = w) =>
                \E r \in reqs : /\ r.sender = w
                               /\ toWorker'[s][w] = Append(toWorker[s][w], StorageGet(storage[s], r.keys))
          /\ \A v \in Workers : (\A r \in reqs : r.sender # v) => toWorker'[s][v] = toWorker[s][v]
          /\ \A x \in Servers : x # s => toWorker'[x] = toWorker[x]
      BY <3>1, ReplyEffect, TypedParts
    <3>5. QED
      BY <3>2, <3>3, <3>4
  <2>3. toWorker'[s][w] # <<>> /\ Len(toWorker'[s][w]) = 1
    <3>1. toWorker[s][w] = <<>>
      BY <1>2 DEF Answered
    <3>2. StorageGet(storage[s], req.keys) \in Answer
      BY <1>0, <1>4 DEF StorageGet, Answer, Pending, TypeOK, ServerTypeOK
    <3>3. <<>> \in Seq(Answer) /\ Len(<<>>) = 0
      BY EmptySeq
    <3>4. QED
      BY <2>2, <3>1, <3>2, <3>3, AppendProperties
  <2>4. \A v \in Workers, x \in Servers : Parked(v, x)' <=> Parked(v, x)
    BY <2>1 DEF Parked
  <2>5. ASSUME NEW v \in Workers, NEW x \in Servers
        PROVE  Located(v, x)' /\ (Located3(v, x)' <=> Located3(v, x))
    <3>1. Located(v, x)
      BY DEF GetInv, GetsLocated
    <3>2. CASE v = w /\ x = s
      <4>1. Answered(w, s)'
        BY <2>3 DEF Answered
      <4>2. QED
        BY <1>2, <1>3, <1>6, <2>3, <2>4, <3>2, <4>1 DEF Located, Located3
    <3>3. CASE v # w \/ x # s
      <4>1. Located(v, x)' /\ (Sent(v, x)' <=> Sent(v, x)) /\ (Answered(v, x)' <=> Answered(v, x))
        BY <1>0, <1>1, <2>2, <2>4, <3>1, <3>3, LocatedUnchanged
      <4>2. QED
        BY <2>4, <3>3, <4>1 DEF Located3
    <3>4. QED
      BY <3>2, <3>3
  <2>6. ResponsesCounted'
    BY <1>0, <2>5, CountUnchanged DEF GetInv
  <2>7. GetsParked'
    BY <1>0, <2>1 DEF GetInv, GetsParked, MinClock
  <2>8. QED
    BY <2>5, <2>6, <2>7 DEF GetInv, GetsLocated
<1>9. QED
  BY <1>7, <1>8

LEMMA GetInvServerClock ==
    ASSUME ClockInv, GetInv, NEW s \in Servers, NEW w \in Workers, ServerClock(s, w)
    PROVE  GetInv' /\ \A v \in Workers, x \in Servers : Located3(v, x)' <=> Located3(v, x)
<1> DEFINE h == Head(toServer[w][s])
           pt == progress_tracker[s]
           c0 == ChangedMinClock(pt, w)
<1>0. /\ toServer[w][s] # <<>> /\ h.flag = "kClock" /\ Dequeue(s, w)
      /\ UNCHANGED <<clock, want, tracker>>
      /\ TypeOK /\ KVTypeOK
      /\ progress_tracker' = [progress_tracker EXCEPT ![s] = Advance(pt, w)]
      /\ pt \in [progresses : [Workers -> Clocks], min_clock : Clocks]
  BY DEF ServerClock, Pop, Received, clientVars, ClockInv, TypeOK, ServerTypeOK
<1>1. \A v \in Workers, x \in Servers : (v # w \/ x # s) => toServer'[v][x] = toServer[v][x]
  BY <1>0, DequeueEffect, TypedParts
<1>2. /\ \A i \in 1 .. Len(toServer'[w][s]) - 1 : toServer'[w][s][i].flag # "kGet"
      /\ Messages(toServer[w][s]) = Messages(toServer'[w][s]) \cup {h}
      /\ ~Parked(w, s) /\ ~Answered(w, s)
  BY <1>0, TailLocated DEF GetInv, GetsLocated
<1>3. Sent(w, s)' <=> Sent(w, s)
  BY <1>0, <1>2 DEF Sent
<1>4. /\ \A x \in Servers : x # s => MinClock(x)' = MinClock(x)
      /\ c0 # -1 => MinClock(s)' = c0 /\ c0 = MinClock(s) + 1
      /\ c0 = -1 => MinClock(s)' = MinClock(s)
      /\ \A x \in Servers : MinClock(x) \in Nat
  BY <1>0 DEF Advance, ChangedMinClock, MinClock, TypeOK, ServerTypeOK, Clocks
<1>5. CASE c0 = -1
  <2>1. toWorker' = toWorker /\ buffer' = buffer
    BY <1>5 DEF ServerClock, Pop
  <2>2. \A v \in Workers, x \in Servers : /\ Parked(v, x)' <=> Parked(v, x)
                                          /\ Answered(v, x)' <=> Answered(v, x)
    BY <2>1 DEF Parked, Answered
  <2>3. ASSUME NEW v \in Workers, NEW x \in Servers
        PROVE  Located(v, x)' /\ (Located3(v, x)' <=> Located3(v, x))
    <3>1. Located(v, x)
      BY DEF GetInv, GetsLocated
    <3>2. CASE v = w /\ x = s
      <4>1. \A m \in Messages(toServer'[w][s]) : m.flag = "kGet" => m.keys = SliceOf(want'[w], s)
        BY <1>0, <1>2, <3>1, <3>2 DEF Located
      <4>2. QED
        BY <1>2, <1>3, <2>2, <3>2, <4>1 DEF Located, Located3
    <3>3. CASE v # w \/ x # s
      <4>1. Located(v, x)' /\ (Sent(v, x)' <=> Sent(v, x))
        BY <1>0, <1>1, <2>1, <2>2, <3>1, <3>3, LocatedUnchanged
      <4>2. QED
        BY <2>2, <4>1 DEF Located3
    <3>4. QED
      BY <3>2, <3>3
  <2>4. ResponsesCounted'
    BY <1>0, <2>3, CountUnchanged DEF GetInv
  <2>5. GetsParked'
    <3>1. \A x \in Servers : MinClock(x)' = MinClock(x)
      BY <1>4, <1>5
    <3>2. QED
      BY <1>0, <2>1, <3>1 DEF GetInv, GetsParked
  <2>6. QED
    BY <2>3, <2>4, <2>5 DEF GetInv, GetsLocated
<1>6. CASE c0 # -1
  <2>0. c0 \in Clocks
    <3>1. Advance(pt, w) \in [progresses : [Workers -> Clocks], min_clock : Clocks]
      <4>1. ClockInv'
        BY ClockInvServerClock
      <4>2. progress_tracker'[s] = Advance(pt, w)
        BY <1>0 DEF TypeOK, ServerTypeOK
      <4>3. QED
        BY <4>1, <4>2 DEF ClockInv, TypeOK, ServerTypeOK
    <3>2. QED
      BY <1>6, <3>1 DEF Advance, ChangedMinClock
  <2>1. Reply(s, storage[s], buffer[s][c0]) /\ buffer' = [buffer EXCEPT ![s][c0] = {}]
    BY <1>6 DEF ServerClock, Pop
  <2>2. buffer[s][c0] \in SUBSET Pending
    BY <1>0, <2>0 DEF TypeOK, ServerTypeOK
  <2> HIDE DEF c0
  <2>3. /\ buffer'[s][c0] = {}
        /\ \A x \in Servers, c \in Clocks : (x # s \/ c # c0) => buffer'[x][c] = buffer[x][c]
    BY <1>0, <2>0, <2>1 DEF TypeOK, ServerTypeOK
  <2>4. /\ \A v \in Workers :
              (\E r \in buffer[s][c0] : r.sender = v) =>
                  \E r \in buffer[s][c0] : toWorker'[s][v] = Append(toWorker[s][v], StorageGet(storage[s], r.keys))
        /\ \A v \in Workers :
              (\A r \in buffer[s][c0] : r.sender # v) => toWorker'[s][v] = toWorker[s][v]
        /\ \A x \in Servers : x # s => toWorker'[x] = toWorker[x]
    <3> DEFINE reqs == buffer[s][c0]
    <3>1. reqs \in SUBSET Pending /\ Reply(s, storage[s], reqs) /\ TypeOK
      BY <1>0, <2>1, <2>2
    <3> HIDE DEF reqs
    <3>2. /\ \A v \in Workers :
                (\E r \in reqs : r.sender = v) =>
                    \E r \in reqs : toWorker'[s][v] = Append(toWorker[s][v], StorageGet(storage[s], r.keys))
          /\ \A v \in Workers :
                (\A r \in reqs : r.sender # v) => toWorker'[s][v] = toWorker[s][v]
          /\ \A x \in Servers : x # s => toWorker'[x] = toWorker[x]
      BY <3>1, ReplyEffect, TypedParts
    <3>3. QED
      BY <3>2 DEF reqs
  <2>5. ASSUME NEW v \in Workers, NEW r \in buffer[s][c0], r.sender = v
        PROVE  /\ Located(v, s)' /\ Located3(v, s)' /\ Located3(v, s)
    <3>1. Parked(v, s) /\ Located(v, s)
      BY <2>0, <2>5 DEF Parked, GetInv, GetsLocated
    <3>2. toServer[v][s] = <<>> /\ toWorker[s][v] = <<>> /\ v # w
      BY <1>2, <3>1 DEF Located, Answered
    <3>3. toServer'[v][s] = <<>> /\ Messages(toServer'[v][s]) = {} /\ Len(toServer'[v][s]) = 0
      BY <1>1, <3>2, EmptySeq DEF Messages
    <3>4. PICK x \in buffer[s][c0] : toWorker'[s][v] = Append(<<>>, StorageGet(storage[s], x.keys))
      BY <2>4, <2>5, <3>2
    <3>5. StorageGet(storage[s], x.keys) \in Answer
      BY <1>0, <2>2 DEF StorageGet, Answer, Pending, TypeOK, ServerTypeOK
    <3>6. <<>> \in Seq(Answer) /\ Len(<<>>) = 0
      BY EmptySeq
    <3>7. toWorker'[s][v] # <<>> /\ Len(toWorker'[s][v]) = 1
      BY <3>4, <3>5, <3>6, AppendProperties
    <3>8. ~Parked(v, s)'
      <4> SUFFICES ASSUME NEW c \in Clocks, NEW y \in buffer'[s][c], y.sender = v PROVE FALSE
        BY DEF Parked
      <4>1. c # c0 /\ y \in buffer[s][c]
        BY <2>0, <2>3
      <4>2. c + Staleness = clock[v] /\ c0 + Staleness = clock[v]
        BY <2>0, <2>5, <4>1 DEF GetInv, GetsParked
      <4>3. QED
        BY <2>0, <4>1, <4>2, TableAssumption, StalenessAssumption DEF Clocks
    <3>9. ~Sent(v, s)' /\ Answered(v, s)'
      BY <3>3, <3>7 DEF Sent, Answered
    <3>10. QED
      BY <3>1, <3>3, <3>7, <3>8, <3>9 DEF Located, Located3
  <2>6. ASSUME NEW v \in Workers, NEW x \in Servers,
               x # s \/ \A r \in buffer[s][c0] : r.sender # v
        PROVE  /\ Parked(v, x)' <=> Parked(v, x)
               /\ toWorker'[x][v] = toWorker[x][v]
               /\ Answered(v, x)' <=> Answered(v, x)
    <3>1. toWorker'[x][v] = toWorker[x][v]
      BY <2>4, <2>6
    <3>2. Parked(v, x)' <=> Parked(v, x)
      <4>1. ASSUME NEW c \in Clocks
            PROVE  (\E r \in buffer'[x][c] : r.sender = v) <=> (\E r \in buffer[x][c] : r.sender = v)
        BY <2>0, <2>3, <2>6
      <4>2. QED
        BY <4>1 DEF Parked
    <3>3. QED
      BY <3>1, <3>2 DEF Answered
  <2>7. ASSUME NEW v \in Workers, NEW x \in Servers
        PROVE  Located(v, x)' /\ (Located3(v, x)' <=> Located3(v, x))
    <3>1. Located(v, x)
      BY DEF GetInv, GetsLocated
    <3>2. CASE x = s /\ \E r \in buffer[s][c0] : r.sender = v
      BY <2>5, <3>2
    <3>3. CASE x # s \/ \A r \in buffer[s][c0] : r.sender # v
      <4>1. CASE v = w /\ x = s
        <5>1. \A m \in Messages(toServer'[w][s]) : m.flag = "kGet" => m.keys = SliceOf(want'[w], s)
          BY <1>0, <1>2, <3>1, <4>1 DEF Located
        <5>2. ~Parked(w, s)' /\ ~Answered(w, s)'
          BY <1>2, <2>6, <3>3, <4>1
        <5>3. QED
          BY <1>2, <1>3, <4>1, <5>1, <5>2 DEF Located, Located3
      <4>2. CASE v # w \/ x # s
        <5>1. Located(v, x)' /\ (Sent(v, x)' <=> Sent(v, x))
          BY <1>0, <1>1, <2>6, <3>1, <3>3, <4>2, LocatedUnchanged
        <5>2. QED
          BY <2>6, <3>3, <5>1 DEF Located3
      <4>3. QED
        BY <4>1, <4>2
    <3>4. QED
      BY <3>2, <3>3
  <2>8. ResponsesCounted'
    BY <1>0, <2>7, CountUnchanged DEF GetInv
  <2>9. GetsParked'
    <3> SUFFICES ASSUME NEW x \in Servers, NEW c \in Clocks, NEW r \in buffer'[x][c]
                 PROVE  /\ c > MinClock(x)'
                        /\ c + Staleness = clock[r.sender]
                        /\ r.keys = SliceOf(want[r.sender], x)
      BY <1>0 DEF GetsParked
    <3>1. r \in buffer[x][c] /\ (x # s \/ c # c0)
      BY <2>0, <2>3
    <3>2. /\ c > MinClock(x)
          /\ c + Staleness = clock[r.sender]
          /\ r.keys = SliceOf(want[r.sender], x)
      BY <3>1 DEF GetInv, GetsParked
    <3>3. c > MinClock(x)'
      BY <1>4, <1>6, <3>1, <3>2, TableAssumption DEF Clocks
    <3>4. QED
      BY <3>2, <3>3
  <2>10. QED
    BY <2>7, <2>8, <2>9 DEF GetInv, GetsLocated
<1>7. QED
  BY <1>5, <1>6

LEMMA GetInvNext == ClockInv /\ GetInv /\ [Next]_vars => GetInv'
<1> SUFFICES ASSUME ClockInv, GetInv, [Next]_vars PROVE GetInv'
  OBVIOUS
<1>0. TypeOK
  BY DEF ClockInv
<1>1. ASSUME NEW w \in Workers, Client(w) PROVE GetInv'
  BY <1>0, <1>1, GetInvGet, GetInvAdd, GetInvClock DEF Client
<1>2. ASSUME NEW s \in Servers, NEW w \in Workers, Server(s, w) PROVE GetInv'
  BY <1>2, GetInvServerClock, GetInvServerAdd, GetInvServerGet DEF Server
<1>3. ASSUME NEW s \in Servers, NEW w \in Workers, Helper(s, w) PROVE GetInv'
  BY <1>0, <1>3, GetInvHelper
<1>4. CASE UNCHANGED vars
  BY <1>4 DEF vars, kvVars, clientVars, serverVars, GetInv, GetsLocated, Located, Sent, Parked,
              Answered, ResponsesCounted, Outstanding, GetsParked, MinClock
<1>5. QED
  BY <1>1, <1>2, <1>3, <1>4 DEF Next, TaskDone

-----------------------------------------------------------------------------
LEMMA GetsNeverStranded == ClockInv /\ GetInv => NoStrandedGet
<1> SUFFICES ASSUME ClockInv, GetInv, NEW s \in Servers, NEW c \in Clocks, NEW r \in buffer[s][c]
             PROVE  /\ c > MinClock(s)
                    /\ c + Staleness = clock[r.sender]
                    /\ Waiting(r.sender)
  BY DEF NoStrandedGet
<1>1. TypeOK
  BY DEF ClockInv
<1>2. r.sender \in Workers /\ Parked(r.sender, s)
  BY <1>1 DEF TypeOK, ServerTypeOK, Pending, Parked
<1>3. Waiting(r.sender)
  BY <1>1, <1>2, IdleHasNothing DEF GetInv
<1>4. QED
  BY <1>3 DEF GetInv, GetsParked

\* A Get that SSPModel::Get parks is parked under a minimum clock that the
\* server has yet to reach, the one its worker's clock calls for, and its
\* worker is blocked: PendingBuffer::Pop has never passed it by.
THEOREM NoGetIsStranded == Spec => []NoStrandedGet
<1>1. Init => ClockInv /\ GetInv
  BY ClockInvInit, GetInvInit
<1>2. (ClockInv /\ GetInv) /\ [Next]_vars => (ClockInv /\ GetInv)'
  BY ClockInvNext, GetInvNext
<1>3. QED
  BY <1>1, <1>2, GetsNeverStranded, PTL DEF Spec

\* What is on its way from a worker to a server makes up exactly the difference
\* between the worker's clock and the progress counted for it.
THEOREM ChannelsAlwaysTellTime == Spec => []ChannelsTellTime
<1>1. ClockInv => ChannelsTellTime
  BY DEF ClockInv
<1>2. QED
  BY <1>1, ClockInvInit, ClockInvNext, PTL DEF Spec

-----------------------------------------------------------------------------
(* Last part: what the Gets return                                          *)

AnswersInv == AnswersGood /\ AnswersComplete
Inv == ClockInv /\ AddInv /\ GetInv /\ AnswersInv

-----------------------------------------------------------------------------
(* An answer is good when it is given                                       *)

\* s has applied every Add older than b, and every Add of w itself.
LEMMA GoodWhenApplied ==
    ASSUME TypeOK, AddInv, NEW s \in Servers, NEW w \in Workers, NEW b \in Int,
           NEW K \in SUBSET Keys, \A k \in K : Owner[k] = s,
           clock[w] <= b + Staleness,
           \A v \in Workers : \A m \in Messages(toServer[v][s]) :
               m.flag = "kAdd" => v # w /\ m.iter >= b
    PROVE  GoodAnswer(StorageGet(storage[s], K), w)
<1> DEFINE m == StorageGet(storage[s], K)
<1>1. m.keys = K /\ m.adds = {a \in storage[s] : a.key \in K}
  BY DEF StorageGet
<1>2. m.adds \subseteq issued /\ \A a \in m.adds : a.key \in m.keys
  BY <1>1 DEF AddInv, AddsCalled
<1>3. ASSUME NEW a \in issued, a.key \in K, a \notin storage[s]
      PROVE  a.worker # w /\ ~(a.iter + Staleness < clock[w])
  <2>1. a.worker \in Workers /\ a.iter \in Int /\ clock[w] \in Int
    <3>1. a \in Increment /\ clock[w] \in Clocks
      BY DEF TypeOK, KVTypeOK
    <3>2. QED
      BY <3>1, TableAssumption DEF Increment, Clocks
  <2>2. PICK x \in Messages(toServer[a.worker][s]) : x.flag = "kAdd" /\ x.iter = a.iter
    BY <1>3 DEF AddInv, AddsAccountedFor
  <2>3. a.worker # w /\ a.iter >= b
    BY <2>1, <2>2
  <2>4. QED
    BY <2>1, <2>3, StalenessAssumption
<1> HIDE DEF m
<1>4. QED
  BY <1>1, <1>2, <1>3 DEF GoodAnswer, m

\* A worker that is in range of a lower bound of all clocks is in range.
LEMMA InRangeOfBound ==
    ASSUME TypeOK, NEW w \in Workers, NEW b \in Int,
           clock[w] <= b + Staleness, \A v \in Workers : b <= clock[v]
    PROVE  InRange(w)
BY StalenessAssumption, TableAssumption DEF InRange, TypeOK, KVTypeOK, Clocks

-----------------------------------------------------------------------------
(* Calls of the workers                                                     *)

\* The places of the Gets of a worker whose channels a step leaves alone.
LEMMA OutstandingUnchanged ==
    ASSUME NEW v \in Workers, UNCHANGED buffer,
           \A s \in Servers : toServer'[v][s] = toServer[v][s] /\ toWorker'[s][v] = toWorker[s][v]
    PROVE  Outstanding(v)' = Outstanding(v)
<1>1. \A s \in Servers : /\ Sent(v, s)' <=> Sent(v, s)
                         /\ Parked(v, s)' <=> Parked(v, s)
                         /\ Answered(v, s)' <=> Answered(v, s)
  BY DEF Sent, Parked, Answered
<1>2. QED
  BY <1>1 DEF Outstanding

\* A worker that is not waiting has no answer under way, and none kept.
LEMMA IdleHasNoAnswer ==
    ASSUME TypeOK, GetInv, AnswersInv, NEW w \in Workers, ~Waiting(w)
    PROVE  recv_kvs[w] = {} /\ \A s \in Servers : Messages(toWorker[s][w]) = {}
<1>1. recv_kvs[w] = {}
  BY DEF AnswersInv, AnswersGood
<1>2. \A s \in Servers : toWorker[s][w] = <<>>
  BY IdleHasNothing DEF GetInv, Answered
<1>3. QED
  BY <1>1, <1>2, EmptySeq DEF Messages

\* A step that leaves the answers alone keeps those of v good, if it neither
\* adds something v is owed nor lets v run ahead.
LEMMA AnswersStayGood ==
    ASSUME AnswersInv, UNCHANGED <<toWorker, recv_kvs>>, NEW v \in Workers,
           want'[v] = want[v],
           \A m : GoodAnswer(m, v) /\ InRange(v) => GoodAnswer(m, v)' /\ InRange(v)'
    PROVE  /\ \A s \in Servers : \A m \in Messages(toWorker'[s][v]) :
                 GoodAnswer(m, v)' /\ InRange(v)' /\ m.keys = SliceOf(want'[v], s)
           /\ \A m \in recv_kvs'[v] :
                 GoodAnswer(m, v)' /\ InRange(v)' /\ m.keys \subseteq want'[v]
BY DEF AnswersInv, AnswersGood

\* A call by w, which is not waiting, and which leaves the answers alone.
LEMMA AnswersInvCall ==
    ASSUME TypeOK, GetInv, AnswersInv, NEW w \in Workers, ~Waiting(w),
           UNCHANGED <<toWorker, recv_kvs, buffer>>,
           \A v \in Workers : v # w =>
               /\ want'[v] = want[v]
               /\ Waiting(v)' <=> Waiting(v)
               /\ \A s \in Servers : toServer'[v][s] = toServer[v][s]
               /\ \A m : GoodAnswer(m, v) /\ InRange(v) => GoodAnswer(m, v)' /\ InRange(v)',
           Waiting(w)' => Involved(want'[w]) \subseteq Outstanding(w)'
    PROVE  AnswersInv'
<1>1. recv_kvs[w] = {} /\ \A s \in Servers : Messages(toWorker[s][w]) = {}
  BY IdleHasNoAnswer
<1>2. ASSUME NEW v \in Workers
      PROVE  /\ \A s \in Servers : \A m \in Messages(toWorker'[s][v]) :
                   GoodAnswer(m, v)' /\ InRange(v)' /\ m.keys = SliceOf(want'[v], s)
             /\ \A m \in recv_kvs'[v] :
                   GoodAnswer(m, v)' /\ InRange(v)' /\ m.keys \subseteq want'[v]
             /\ ~Waiting(v)' => recv_kvs'[v] = {}
  <2>1. CASE v = w
    BY <1>1, <2>1
  <2>2. CASE v # w
    <3>1. ~Waiting(v)' => recv_kvs'[v] = {}
      BY <2>2 DEF AnswersInv, AnswersGood
    <3>2. QED
      BY <2>2, <3>1, AnswersStayGood
  <2>3. QED
    BY <2>1, <2>2
<1>3. ASSUME NEW v \in Workers, Waiting(v)', NEW s \in Involved(want'[v]) \ Outstanding(v)'
      PROVE  \E m \in recv_kvs'[v] : m.keys = SliceOf(want'[v], s)
  <2>1. v # w
    BY <1>3
  <2>2. Outstanding(v)' = Outstanding(v)
    BY <2>1, OutstandingUnchanged
  <2>3. QED
    BY <1>3, <2>1, <2>2 DEF AnswersInv, AnswersComplete
<1>4. QED
  BY <1>2, <1>3 DEF AnswersInv, AnswersGood, AnswersComplete

LEMMA AnswersInvGet ==
    ASSUME TypeOK, GetInv, AnswersInv, NEW w \in Workers, NEW K \in GetKeys,
           ClientGet(w, K), UNCHANGED serverVars
    PROVE  AnswersInv'
<1>0. /\ K \in SUBSET Keys /\ Send(w, "kGet", K) /\ ~Waiting(w)
      /\ want' = [want EXCEPT ![w] = K]
      /\ tracker' = [tracker EXCEPT ![w] = [expected |-> NumReqs(K), current |-> 0]]
      /\ UNCHANGED <<clock, issued, recv_kvs, toWorker, buffer>>
  BY TableAssumption DEF ClientGet, serverVars
<1>1. want'[w] = K /\ \A v \in Workers : v # w => want'[v] = want[v] /\ tracker'[v] = tracker[v]
  BY <1>0 DEF TypeOK, KVTypeOK
<1>2. ASSUME NEW v \in Workers, v # w
      PROVE  /\ want'[v] = want[v]
             /\ Waiting(v)' <=> Waiting(v)
             /\ \A s \in Servers : toServer'[v][s] = toServer[v][s]
             /\ \A m : GoodAnswer(m, v) /\ InRange(v) => GoodAnswer(m, v)' /\ InRange(v)'
  <2>1. \A s \in Servers : toServer'[v][s] = toServer[v][s]
    BY <1>0, <1>2, SendEffect, TypedParts
  <2>2. \A m : (GoodAnswer(m, v)' <=> GoodAnswer(m, v)) /\ (InRange(v)' <=> InRange(v))
    BY <1>0 DEF GoodAnswer, InRange
  <2>3. QED
    BY <1>1, <1>2, <2>1, <2>2 DEF Waiting
<1>3. Involved(want'[w]) \subseteq Outstanding(w)'
  <2> SUFFICES ASSUME NEW s \in Involved(K) PROVE s \in Outstanding(w)'
    BY <1>1
  <2>1. s \in Servers
    BY <1>0, TableAssumption DEF Involved
  <2>2. Slice(w, "kGet", K, s) \in Messages(toServer'[w][s])
    BY <1>0, <2>1, SendEffect, TypedParts
  <2>3. Slice(w, "kGet", K, s).flag = "kGet"
    BY DEF Slice
  <2>4. QED
    BY <2>1, <2>2, <2>3 DEF Outstanding, Sent
<1>4. QED
  BY <1>0, <1>2, <1>3, AnswersInvCall

LEMMA AnswersInvAdd ==
    ASSUME TypeOK, GetInv, AnswersInv, NEW w \in Workers, NEW K \in AddKeys,
           ClientAdd(w, K), UNCHANGED serverVars
    PROVE  AnswersInv'
<1> DEFINE new == {[worker |-> w, iter |-> clock[w], key |-> k] : k \in K}
<1>0. /\ K \in SUBSET Keys /\ Send(w, "kAdd", K) /\ ~Waiting(w)
      /\ issued' = issued \cup new
      /\ UNCHANGED <<clock, want, tracker, recv_kvs, toWorker, buffer>>
  BY TableAssumption DEF ClientAdd, serverVars
<1>1. \A a \in new : a.worker = w /\ a.iter = clock[w]
  OBVIOUS
<1> HIDE DEF new
<1>2. ASSUME NEW v \in Workers, v # w
      PROVE  /\ want'[v] = want[v]
             /\ Waiting(v)' <=> Waiting(v)
             /\ \A s \in Servers : toServer'[v][s] = toServer[v][s]
             /\ \A m : GoodAnswer(m, v) /\ InRange(v) => GoodAnswer(m, v)' /\ InRange(v)'
  <2>1. \A s \in Servers : toServer'[v][s] = toServer[v][s]
    BY <1>0, <1>2, SendEffect, TypedParts
  <2>2. InRange(v)' <=> InRange(v)
    BY <1>0 DEF InRange
  <2>3. ASSUME NEW m, GoodAnswer(m, v), InRange(v) PROVE GoodAnswer(m, v)'
    <3>1. clock[v] \in Int /\ clock[w] \in Int
      BY TableAssumption DEF TypeOK, KVTypeOK, Clocks
    <3>2. clock[v] <= clock[w] + Staleness
      BY <2>3 DEF InRange
    <3>3. \A a \in new : a.worker # v /\ ~(a.iter + Staleness < clock[v])
      BY <1>1, <1>2, <3>1, <3>2, StalenessAssumption
    <3>4. QED
      BY <1>0, <2>3, <3>3 DEF GoodAnswer
  <2>4. QED
    BY <1>0, <2>1, <2>2, <2>3 DEF Waiting
<1>3. ~Waiting(w)'
  BY <1>0 DEF Waiting
<1>4. QED
  BY <1>0, <1>2, <1>3, AnswersInvCall

LEMMA AnswersInvClock ==
    ASSUME TypeOK, GetInv, AnswersInv, NEW w \in Workers,
           ClientClock(w), UNCHANGED serverVars
    PROVE  AnswersInv'
<1>0. /\ ~Waiting(w) /\ clock' = [clock EXCEPT ![w] = @ + 1]
      /\ want' = [want EXCEPT ![w] = {}]
      /\ UNCHANGED <<issued, tracker, recv_kvs, toWorker, buffer>>
  BY DEF ClientClock, serverVars
<1>1. /\ clock'[w] = clock[w] + 1
      /\ \A v \in Workers : v # w => clock'[v] = clock[v] /\ want'[v] = want[v]
      /\ \A v \in Workers : clock[v] \in Int
  BY <1>0, TableAssumption DEF TypeOK, KVTypeOK, Clocks
<1>2. ASSUME NEW v \in Workers, v # w
      PROVE  /\ want'[v] = want[v]
             /\ Waiting(v)' <=> Waiting(v)
             /\ \A s \in Servers : toServer'[v][s] = toServer[v][s]
             /\ \A m : GoodAnswer(m, v) /\ InRange(v) => GoodAnswer(m, v)' /\ InRange(v)'
  <2>1. \A s \in Servers : toServer'[v][s] = toServer[v][s]
    BY <1>2, ClockEffect, TypedParts
  <2>2. \A m : GoodAnswer(m, v)' <=> GoodAnswer(m, v)
    BY <1>0, <1>1, <1>2 DEF GoodAnswer
  <2>3. InRange(v) => InRange(v)'
    <3> SUFFICES ASSUME InRange(v), NEW u \in Workers PROVE clock'[v] <= clock'[u] + Staleness
      BY DEF InRange
    <3>1. clock[v] <= clock[u] + Staleness /\ clock'[v] = clock[v]
      BY <1>1, <1>2 DEF InRange
    <3>2. clock'[u] = clock[u] \/ clock'[u] = clock[u] + 1
      BY <1>1
    <3>3. QED
      BY <1>1, <3>1, <3>2, StalenessAssumption
  <2>4. QED
    BY <1>0, <1>1, <1>2, <2>1, <2>2, <2>3 DEF Waiting
<1>3. ~Waiting(w)'
  BY <1>0 DEF Waiting
<1>4. QED
  BY <1>0, <1>2, <1>3, AnswersInvCall

-----------------------------------------------------------------------------
(* Answers are taken and given                                              *)

\* One answer is under way from s to w, and it is taken: what is left.
LEMMA AnswerTaken ==
    ASSUME TypeOK, GetInv, NEW s \in Servers, NEW w \in Workers, Helper(s, w)
    PROVE  /\ Head(toWorker[s][w]) \in Messages(toWorker[s][w])
           /\ Messages(toWorker'[s][w]) = {}
           /\ \A v \in Workers, x \in Servers : (v # w \/ x # s) => toWorker'[x][v] = toWorker[x][v]
           /\ s \in Outstanding(w)
           /\ Outstanding(w) \ {s} \subseteq Outstanding(w)'
           /\ \A v \in Workers : v # w => Outstanding(v)' = Outstanding(v)
<1>0. /\ toWorker[s][w] # <<>>
      /\ toWorker' = [toWorker EXCEPT ![s][w] = Tail(@)]
      /\ UNCHANGED <<toServer, buffer>>
      /\ KVTypeOK
  BY DEF Helper, HelperResponse, serverVars, TypeOK
<1>1. /\ toWorker[s][w] \in Seq(Answer)
      /\ toWorker'[s][w] = Tail(toWorker[s][w])
      /\ \A v \in Workers, x \in Servers : (v # w \/ x # s) => toWorker'[x][v] = toWorker[x][v]
  BY <1>0 DEF KVTypeOK
<1>2. Answered(w, s) /\ Len(toWorker[s][w]) = 1
  BY <1>0 DEF Answered, GetInv, GetsLocated, Located
<1>3. Messages(toWorker'[s][w]) = {}
  <2>1. Len(Tail(toWorker[s][w])) = 0
    BY <1>0, <1>1, <1>2, HeadTailProperties
  <2>2. QED
    BY <1>1, <2>1 DEF Messages
<1>4. Head(toWorker[s][w]) \in Messages(toWorker[s][w])
  BY <1>0, <1>1, MessagesPop
<1>5. \A v \in Workers, x \in Servers : /\ Sent(v, x)' <=> Sent(v, x)
                                        /\ Parked(v, x)' <=> Parked(v, x)
                                        /\ (v # w \/ x # s) => (Answered(v, x)' <=> Answered(v, x))
  BY <1>0, <1>1 DEF Sent, Parked, Answered
<1>6. Outstanding(w) \ {s} \subseteq Outstanding(w)'
  BY <1>5 DEF Outstanding
<1>7. \A v \in Workers : v # w => Outstanding(v)' = Outstanding(v)
  BY <1>5 DEF Outstanding
<1>8. s \in Outstanding(w)
  BY <1>2 DEF Outstanding
<1>9. QED
  BY <1>1, <1>3, <1>4, <1>6, <1>7, <1>8

LEMMA AnswersInvHelper ==
    ASSUME TypeOK, GetInv, AnswersInv, NEW s \in Servers, NEW w \in Workers, Helper(s, w)
    PROVE  AnswersInv'
<1> DEFINE h == Head(toWorker[s][w])
           finish == tracker[w].expected = tracker[w].current + 1
<1>0. /\ recv_kvs' = [recv_kvs EXCEPT ![w] = IF finish THEN {} ELSE recv_kvs[w] \cup {h}]
      /\ tracker' = [tracker EXCEPT ![w].current = @ + 1]
      /\ UNCHANGED <<clock, issued, want>>
      /\ KVTypeOK
  BY DEF Helper, HelperResponse, HandleMsg, TypeOK
<1>1. /\ recv_kvs'[w] = IF finish THEN {} ELSE recv_kvs[w] \cup {h}
      /\ \A v \in Workers : v # w => recv_kvs'[v] = recv_kvs[v] /\ tracker'[v] = tracker[v]
      /\ Waiting(w)' <=> ~finish
  BY <1>0 DEF KVTypeOK, Waiting
<1>2. \A v \in Workers : v # w => (Waiting(v)' <=> Waiting(v))
  BY <1>1 DEF Waiting
<1>3. /\ h \in Messages(toWorker[s][w]) /\ Messages(toWorker'[s][w]) = {}
      /\ \A v \in Workers, x \in Servers : (v # w \/ x # s) => toWorker'[x][v] = toWorker[x][v]
      /\ s \in Outstanding(w) /\ Outstanding(w) \ {s} \subseteq Outstanding(w)'
      /\ \A v \in Workers : v # w => Outstanding(v)' = Outstanding(v)
  BY AnswerTaken
<1>4. Waiting(w)
  BY <1>3, WaitingIsOutstanding DEF GetInv
<1>5. \A v \in Workers : \A m : (GoodAnswer(m, v)' <=> GoodAnswer(m, v)) /\ (InRange(v)' <=> InRange(v))
  BY <1>0 DEF GoodAnswer, InRange
<1>6. GoodAnswer(h, w) /\ InRange(w) /\ h.keys = SliceOf(want[w], s) /\ h.keys \subseteq want[w]
  <2>1. GoodAnswer(h, w) /\ InRange(w) /\ h.keys = SliceOf(want[w], s)
    BY <1>3 DEF AnswersInv, AnswersGood
  <2>2. QED
    BY <2>1 DEF SliceOf
<1> HIDE DEF h, finish
<1>7. ASSUME NEW v \in Workers, NEW x \in Servers, NEW m \in Messages(toWorker'[x][v])
      PROVE  GoodAnswer(m, v)' /\ InRange(v)' /\ m.keys = SliceOf(want'[v], x)
  <2>1. m \in Messages(toWorker[x][v])
    BY <1>3, <1>7
  <2>2. QED
    BY <1>0, <1>5, <2>1 DEF AnswersInv, AnswersGood
<1>8. ASSUME NEW v \in Workers, NEW m \in recv_kvs'[v]
      PROVE  GoodAnswer(m, v)' /\ InRange(v)' /\ m.keys \subseteq want'[v]
  <2>1. CASE m \in recv_kvs[v]
    BY <1>0, <1>5, <2>1 DEF AnswersInv, AnswersGood
  <2>2. CASE v = w /\ m = h
    BY <1>0, <1>5, <1>6, <2>2
  <2>3. QED
    BY <1>1, <1>8, <2>1, <2>2
<1>9. ASSUME NEW v \in Workers, ~Waiting(v)' PROVE recv_kvs'[v] = {}
  BY <1>1, <1>2, <1>9 DEF AnswersInv, AnswersGood
<1>10. ASSUME NEW v \in Workers, Waiting(v)', NEW x \in Involved(want'[v]) \ Outstanding(v)'
       PROVE  \E m \in recv_kvs'[v] : m.keys = SliceOf(want'[v], x)
  <2>1. CASE v = w /\ x = s
    <3>1. h \in recv_kvs'[w]
      BY <1>1, <1>10, <2>1
    <3>2. QED
      BY <1>0, <1>6, <2>1, <3>1
  <2>2. CASE v = w /\ x # s
    <3>1. x \notin Outstanding(w) /\ recv_kvs[w] \subseteq recv_kvs'[w]
      BY <1>1, <1>3, <1>10, <2>2
    <3>2. \E m \in recv_kvs[w] : m.keys = SliceOf(want[w], x)
      BY <1>0, <1>4, <1>10, <2>2, <3>1 DEF AnswersInv, AnswersComplete
    <3>3. QED
      BY <1>0, <2>2, <3>1, <3>2
  <2>3. CASE v # w
    BY <1>0, <1>1, <1>2, <1>3, <1>10, <2>3 DEF AnswersInv, AnswersComplete
  <2>4. QED
    BY <2>1, <2>2, <2>3
<1>11. QED
  BY <1>7, <1>8, <1>9, <1>10 DEF AnswersInv, AnswersGood, AnswersComplete

\* What a server gives: what was under way to v already, or a good answer for
\* a Get that was outstanding.
Given(s, v, m) ==
    \/ m \in Messages(toWorker[s][v])
    \/ GoodAnswer(m, v) /\ InRange(v) /\ m.keys = SliceOf(want[v], s)

\* A step of server s that only gives good answers.
LEMMA AnswersInvServer ==
    ASSUME AnswersInv, NEW s \in Servers, UNCHANGED clientVars,
           \A v \in Workers, x \in Servers : Located3(v, x)' <=> Located3(v, x),
           \A v \in Workers, x \in Servers : x # s => toWorker'[x][v] = toWorker[x][v],
           \A v \in Workers : \A m \in Messages(toWorker'[s][v]) : Given(s, v, m)
    PROVE  AnswersInv'
<1>0. UNCHANGED <<clock, issued, want, tracker, recv_kvs>>
  BY DEF clientVars
<1>1. \A v \in Workers : \A m : (GoodAnswer(m, v)' <=> GoodAnswer(m, v)) /\ (InRange(v)' <=> InRange(v))
  BY <1>0 DEF GoodAnswer, InRange
<1>2. \A v \in Workers : /\ Outstanding(v)' = Outstanding(v)
                         /\ Waiting(v)' <=> Waiting(v)
  BY <1>0 DEF Outstanding, Located3, Waiting
<1>3. ASSUME NEW v \in Workers, NEW x \in Servers, NEW m \in Messages(toWorker'[x][v])
      PROVE  GoodAnswer(m, v)' /\ InRange(v)' /\ m.keys = SliceOf(want'[v], x)
  <2>1. CASE m \in Messages(toWorker[x][v])
    BY <1>0, <1>1, <2>1 DEF AnswersInv, AnswersGood
  <2>2. CASE x = s /\ m \notin Messages(toWorker[x][v])
    <3>1. Given(s, v, m)
      BY <1>3, <2>2
    <3>2. GoodAnswer(m, v) /\ InRange(v) /\ m.keys = SliceOf(want[v], s)
      BY <2>2, <3>1 DEF Given
    <3>3. QED
      BY <1>0, <1>1, <2>2, <3>2
  <2>3. QED
    BY <1>3, <2>1, <2>2
<1>4. ASSUME NEW v \in Workers
      PROVE  /\ \A m \in recv_kvs'[v] : GoodAnswer(m, v)' /\ InRange(v)' /\ m.keys \subseteq want'[v]
             /\ ~Waiting(v)' => recv_kvs'[v] = {}
  BY <1>0, <1>1, <1>2 DEF AnswersInv, AnswersGood
<1>5. AnswersComplete'
  BY <1>0, <1>2 DEF AnswersInv, AnswersComplete
<1>6. QED
  BY <1>3, <1>4, <1>5 DEF AnswersInv, AnswersGood

LEMMA AnswersInvServerAdd ==
    ASSUME ClockInv, GetInv, AnswersInv, NEW s \in Servers, NEW w \in Workers, ServerAdd(s, w)
    PROVE  AnswersInv'
<1>1. UNCHANGED clientVars /\ UNCHANGED toWorker
  BY DEF ServerAdd
<1>2. \A v \in Workers, x \in Servers : Located3(v, x)' <=> Located3(v, x)
  BY GetInvServerAdd
<1>3. QED
  BY <1>1, <1>2, AnswersInvServer DEF Given

\* The message an answer adds to its channel.
LEMMA OneMoreAnswer ==
    ASSUME TypeOK, NEW s \in Servers, NEW v \in Workers, NEW K \in SUBSET Keys,
           toWorker'[s][v] = Append(toWorker[s][v], StorageGet(storage[s], K)),
           GoodAnswer(StorageGet(storage[s], K), v), InRange(v), K = SliceOf(want[v], s)
    PROVE  \A m \in Messages(toWorker'[s][v]) : Given(s, v, m)
<1>1. toWorker[s][v] \in Seq(Answer) /\ storage[s] \in SUBSET Increment
  BY DEF TypeOK, KVTypeOK, ServerTypeOK
<1>2. StorageGet(storage[s], K) \in Answer /\ StorageGet(storage[s], K).keys = K
  BY <1>1 DEF StorageGet, Answer
<1>3. Messages(toWorker'[s][v]) = Messages(toWorker[s][v]) \cup {StorageGet(storage[s], K)}
  BY <1>1, <1>2, MessagesPush
<1>4. QED
  BY <1>2, <1>3 DEF Given

LEMMA AnswersInvServerGet ==
    ASSUME ClockInv, AddInv, GetInv, AnswersInv, NEW s \in Servers, NEW w \in Workers,
           ServerGet(s, w)
    PROVE  AnswersInv'
<1> DEFINE h == Head(toServer[w][s])
           req == [sender |-> w, keys |-> h.keys, iter |-> h.iter]
<1>0. /\ toServer[w][s] # <<>> /\ h.flag = "kGet" /\ Dequeue(s, w)
      /\ UNCHANGED clientVars
      /\ TypeOK /\ KVTypeOK /\ ServerTypeOK
  BY DEF ServerGet, Push, RequestOf, Received, ClockInv, TypeOK
<1>1. \A v \in Workers, x \in Servers : Located3(v, x)' <=> Located3(v, x)
  BY GetInvServerGet
<1>2. CASE TooFarAhead(s, w)
  <2>1. UNCHANGED toWorker
    BY <1>2 DEF ServerGet, RequestOf
  <2>2. QED
    BY <1>0, <1>1, <2>1, AnswersInvServer DEF Given
<1>3. CASE ~TooFarAhead(s, w)
  <2>1. Reply(s, storage[s], {req})
    BY <1>3 DEF ServerGet, RequestOf
  <2>2. toServer'[w][s] = <<>> /\ Messages(toServer[w][s]) = Messages(toServer'[w][s]) \cup {h}
    BY <1>0, TailLocated DEF GetInv, GetsLocated
  <2>3. h \in Request /\ h.keys = SliceOf(want[w], s) /\ h.keys \in SUBSET Keys /\ req \in Pending
    <3>1. h \in Request
      BY <1>0, DequeueEffect, TypedParts
    <3>2. h.keys = SliceOf(want[w], s)
      BY <1>0, <2>2 DEF GetInv, GetsLocated, Located
    <3>3. QED
      BY <3>1, <3>2 DEF Request, Pending
  <2>4. clock[w] = Progress(s, w) /\ clock[w] \in Int /\ Progress(s, w) \in Int
    <3>1. h.iter = Progress(s, w) /\ TellsTime(toServer'[w][s], ClockAfter(h), clock[w])
      BY <1>0, Dequeued, ClockParts
    <3>2. ClockAfter(h) = Progress(s, w)
      BY <1>0, <3>1 DEF ClockAfter
    <3>3. clock[w] \in Int
      BY <1>0, TableAssumption DEF KVTypeOK, Clocks
    <3>4. QED
      BY <2>2, <3>1, <3>2, <3>3 DEF TellsTime
  <2> DEFINE b == MinClock(s)
  <2>5. /\ b \in Int /\ clock[w] <= b + Staleness
        /\ \A v \in Workers : b <= clock[v]
        /\ \A v \in Workers : \A m \in Messages(toServer[v][s]) : b <= m.iter
    BY <1>3, <2>4, ClockParts, MinClockBounds, StalenessAssumption DEF TooFarAhead
  <2>6. \A m \in Messages(toServer[w][s]) : m.flag # "kAdd"
    <3>1. Messages(toServer'[w][s]) = {}
      BY <2>2, EmptySeq DEF Messages
    <3>2. QED
      BY <1>0, <2>2, <3>1
  <2>7. ASSUME NEW v \in Workers, NEW m \in Messages(toServer[v][s]), m.flag = "kAdd"
        PROVE  v # w /\ m.iter >= b
    <3>1. m.iter \in Int
      <4>1. m \in Request
        BY <1>0, MessagesType DEF KVTypeOK
      <4>2. QED
        BY <4>1, TableAssumption DEF Request, Clocks
    <3>2. b <= m.iter
      BY <2>5
    <3>3. QED
      BY <2>5, <2>6, <2>7, <3>1, <3>2
  <2>8. \A k \in h.keys : Owner[k] = s
    BY <2>3 DEF SliceOf
  <2> HIDE DEF b
  <2>9. GoodAnswer(StorageGet(storage[s], h.keys), w) /\ InRange(w)
    BY <1>0, <2>3, <2>5, <2>7, <2>8, GoodWhenApplied, InRangeOfBound
  <2>10. /\ toWorker'[s][w] = Append(toWorker[s][w], StorageGet(storage[s], h.keys))
         /\ \A v \in Workers, x \in Servers : (v # w \/ x # s) => toWorker'[x][v] = toWorker[x][v]
    <3> DEFINE reqs == {req}
    <3>1. reqs \in SUBSET Pending /\ Reply(s, storage[s], reqs)
      BY <2>1, <2>3
    <3>2. req \in reqs /\ \A r \in reqs : r.sender = w /\ r.keys = h.keys
      OBVIOUS
    <3> HIDE DEF reqs, req, h
    <3>3. /\ (\E r \in reqs : r.sender = w) =>
                \E r \in reqs : /\ r.sender = w
                               /\ toWorker'[s][w] = Append(toWorker[s][w], StorageGet(storage[s], r.keys))
          /\ \A v \in Workers : (\A r \in reqs : r.sender # v) => toWorker'[s][v] = toWorker[s][v]
          /\ \A x \in Servers : x # s => toWorker'[x] = toWorker[x]
      BY <1>0, <3>1, ReplyEffect, TypedParts
    <3>4. QED
      BY <3>2, <3>3
  <2>11. ASSUME NEW v \in Workers, NEW m \in Messages(toWorker'[s][v]) PROVE Given(s, v, m)
    <3>1. CASE v = w
      BY <1>0, <2>3, <2>9, <2>10, <2>11, <3>1, OneMoreAnswer
    <3>2. CASE v # w
      BY <2>10, <2>11, <3>2 DEF Given
    <3>3. QED
      BY <3>1, <3>2
  <2>12. QED
    BY <1>0, <1>1, <2>10, <2>11, AnswersInvServer
<1>4. QED
  BY <1>2, <1>3

LEMMA AnswersInvServerClock ==
    ASSUME ClockInv, AddInv, GetInv, AnswersInv, NEW s \in Servers, NEW w \in Workers,
           ServerClock(s, w)
    PROVE  AnswersInv'
<1> DEFINE pt == progress_tracker[s]
           c0 == ChangedMinClock(pt, w)
<1>0. /\ UNCHANGED clientVars
      /\ TypeOK /\ KVTypeOK /\ ServerTypeOK
      /\ progress_tracker' = [progress_tracker EXCEPT ![s] = Advance(pt, w)]
  BY DEF ServerClock, ClockInv, TypeOK
<1>1. \A v \in Workers, x \in Servers : Located3(v, x)' <=> Located3(v, x)
  BY GetInvServerClock
<1>2. CASE c0 = -1
  <2>1. UNCHANGED toWorker
    BY <1>2 DEF ServerClock
  <2>2. QED
    BY <1>0, <1>1, <2>1, AnswersInvServer DEF Given
<1>3. CASE c0 # -1
  <2>1. Reply(s, storage[s], buffer[s][c0])
    BY <1>3 DEF ServerClock
  <2>2. MinClock(s)' = c0
    BY <1>0, <1>3 DEF Advance, ChangedMinClock, MinClock, ServerTypeOK
  <2>3. c0 \in Clocks
    <3>1. MinClock(s)' \in Clocks
      <4>1. ServerTypeOK'
        BY ClockInvServerClock DEF ClockInv, TypeOK
      <4>2. QED
        BY <4>1 DEF ServerTypeOK, MinClock
    <3>2. QED
      BY <2>2, <3>1
  <2>4. /\ c0 \in Int
        /\ \A v \in Workers : c0 <= clock[v]
        /\ \A v \in Workers : \A m \in Messages(toServer[v][s]) : m.flag = "kAdd" => c0 <= m.iter
    <3>1. TimeInv /\ TimeInv'
      BY ClockInvServerClock DEF ClockInv, TypeOK, TimeInv
    <3>2. /\ toServer[w][s] # <<>> /\ Head(toServer[w][s]).flag = "kClock" /\ Dequeue(s, w)
          /\ UNCHANGED clock
      BY DEF ServerClock, Received, clientVars
    <3>3. QED
      BY <2>2, <3>1, <3>2, MovedMinClockBounds
  <2> HIDE DEF c0
  <2>5. buffer[s][c0] \in SUBSET Pending
    BY <1>0, <2>3 DEF TypeOK
  <2>6. /\ \A v \in Workers :
              (\E r \in buffer[s][c0] : r.sender = v) =>
                  \E r \in buffer[s][c0] :
                      /\ r.sender = v
                      /\ toWorker'[s][v] = Append(toWorker[s][v], StorageGet(storage[s], r.keys))
        /\ \A v \in Workers :
              (\A r \in buffer[s][c0] : r.sender # v) => toWorker'[s][v] = toWorker[s][v]
        /\ \A x \in Servers : x # s => toWorker'[x] = toWorker[x]
    <3> DEFINE reqs == buffer[s][c0]
    <3>1. reqs \in SUBSET Pending /\ Reply(s, storage[s], reqs) /\ TypeOK
      BY <1>0, <2>1, <2>5
    <3> HIDE DEF reqs
    <3>2. /\ \A v \in Workers :
                (\E r \in reqs : r.sender = v) =>
                    \E r \in reqs :
                        /\ r.sender = v
                        /\ toWorker'[s][v] = Append(toWorker[s][v], StorageGet(storage[s], r.keys))
          /\ \A v \in Workers :
                (\A r \in reqs : r.sender # v) => toWorker'[s][v] = toWorker[s][v]
          /\ \A x \in Servers : x # s => toWorker'[x] = toWorker[x]
      BY <3>1, ReplyEffect, TypedParts
    <3>3. QED
      BY <3>2 DEF reqs
  <2>7. ASSUME NEW v \in Workers, NEW r \in buffer[s][c0], r.sender = v
        PROVE  /\ GoodAnswer(StorageGet(storage[s], r.keys), v) /\ InRange(v)
               /\ r.keys \in SUBSET Keys /\ r.keys = SliceOf(want[v], s)
    <3>1. c0 + Staleness = clock[v] /\ r.keys = SliceOf(want[v], s)
      BY <2>3, <2>7 DEF GetInv, GetsParked
    <3>2. r.keys \in SUBSET Keys
      BY <2>5, <2>7 DEF Pending
    <3>3. \A k \in r.keys : Owner[k] = s
      BY <3>1 DEF SliceOf
    <3>4. toServer[v][s] = <<>>
      <4>1. Parked(v, s)
        BY <2>3, <2>7 DEF Parked
      <4>2. QED
        BY <4>1 DEF GetInv, GetsLocated, Located
    <3>5. Messages(toServer[v][s]) = {}
      BY <3>4, EmptySeq DEF Messages
    <3>6. clock[v] \in Int /\ clock[v] <= c0 + Staleness
      BY <1>0, <2>4, <3>1, TableAssumption, StalenessAssumption DEF KVTypeOK, Clocks
    <3>7. ASSUME NEW u \in Workers, NEW m \in Messages(toServer[u][s]), m.flag = "kAdd"
          PROVE  u # v /\ m.iter >= c0
      <4>1. m \in Request
        BY <1>0, MessagesType DEF KVTypeOK
      <4>2. m.iter \in Int
        BY <4>1, TableAssumption DEF Request, Clocks
      <4>3. QED
        BY <2>4, <3>5, <3>7, <4>2
    <3>8. QED
      BY <1>0, <2>4, <3>1, <3>2, <3>3, <3>6, <3>7, GoodWhenApplied, InRangeOfBound
  <2>8. ASSUME NEW v \in Workers, NEW m \in Messages(toWorker'[s][v]) PROVE Given(s, v, m)
    <3>1. CASE \E r \in buffer[s][c0] : r.sender = v
      <4>1. PICK r \in buffer[s][c0] :
               /\ r.sender = v
               /\ toWorker'[s][v] = Append(toWorker[s][v], StorageGet(storage[s], r.keys))
        BY <2>6, <3>1
      <4>2. QED
        BY <1>0, <2>7, <2>8, <4>1, OneMoreAnswer
    <3>2. CASE \A r \in buffer[s][c0] : r.sender # v
      BY <2>6, <2>8, <3>2 DEF Given
    <3>3. QED
      BY <3>1, <3>2
  <2>9. QED
    BY <1>0, <1>1, <2>6, <2>8, AnswersInvServer
<1>4. QED
  BY <1>2, <1>3

LEMMA AnswersInvNext == Inv /\ [Next]_vars => AnswersInv'
<1> SUFFICES ASSUME Inv, [Next]_vars PROVE AnswersInv'
  OBVIOUS
<1>0. TypeOK /\ ClockInv /\ AddInv /\ GetInv /\ AnswersInv
  BY DEF Inv, ClockInv
<1>1. ASSUME NEW w \in Workers, Client(w) PROVE AnswersInv'
  BY <1>0, <1>1, AnswersInvGet, AnswersInvAdd, AnswersInvClock DEF Client
<1>2. ASSUME NEW s \in Servers, NEW w \in Workers, Server(s, w) PROVE AnswersInv'
  BY <1>0, <1>2, AnswersInvServerClock, AnswersInvServerAdd, AnswersInvServerGet DEF Server
<1>3. ASSUME NEW s \in Servers, NEW w \in Workers, Helper(s, w) PROVE AnswersInv'
  BY <1>0, <1>3, AnswersInvHelper
<1>4. CASE UNCHANGED vars
  <2>1. /\ UNCHANGED <<clock, issued, want, tracker, recv_kvs, toServer, toWorker, buffer>>
    BY <1>4 DEF vars, kvVars, clientVars, serverVars
  <2>2. \A w \in Workers : Outstanding(w)' = Outstanding(w)
    BY <2>1 DEF Outstanding, Sent, Parked, Answered
  <2>3. QED
    BY <1>0, <2>1, <2>2 DEF AnswersInv, AnswersGood, GoodAnswer, InRange, Waiting, AnswersComplete
<1>5. QED
  BY <1>1, <1>2, <1>3, <1>4 DEF Next, TaskDone

LEMMA InvInit == Init => Inv
<1> SUFFICES ASSUME Init PROVE AnswersInv
  BY ClockInvInit, AddInvInit, GetInvInit DEF Inv
<1>1. \A w \in Workers : ~Waiting(w) /\ recv_kvs[w] = {}
  BY DEF Init, KVInit, Waiting
<1>2. \A s \in Servers, w \in Workers : Messages(toWorker[s][w]) = {}
  BY EmptySeq DEF Init, KVInit, Messages
<1>3. QED
  BY <1>1, <1>2 DEF AnswersInv, AnswersGood, AnswersComplete

LEMMA InvNext == Inv /\ [Next]_vars => Inv'
<1>1. Inv => TypeOK /\ ClockInv /\ AddInv /\ GetInv
  BY DEF Inv, ClockInv
<1>2. QED
  BY <1>1, ClockInvNext, AddInvNext, GetInvNext, AnswersInvNext DEF Inv

LEMMA InvAlways == Spec => []Inv
BY InvInit, InvNext, PTL DEF Spec

-----------------------------------------------------------------------------
\* The inductive invariant holds throughout: every Get and Add of a worker is
\* where the queues of flexps can have it, and every answer is good.
THEOREM InvariantHolds == Spec => []IInv
<1>1. Inv => IInv
  BY DEF Inv, ClockInv, AddInv, GetInv, AnswersInv, IInv
<1>2. QED
  BY <1>1, InvAlways, PTL

\* Bounded staleness: an answer on its way holds every Add that was called more
\* than Staleness iterations before the asking worker's clock (SSPModel::Get).
THEOREM AnswersAlwaysFresh == Spec => []AnswersFreshEnough
<1>1. Inv => AnswersFreshEnough
  BY DEF Inv, AnswersInv, AnswersGood, GoodAnswer, Messages, AnswersFreshEnough
<1>2. QED
  BY <1>1, InvAlways, PTL

\* Read your own writes: an answer holds every Add of the worker it is for.
THEOREM AnswersAlwaysHoldOwnAdds == Spec => []AnswersHoldOwnAdds
<1>1. Inv => AnswersHoldOwnAdds
  BY DEF Inv, AnswersInv, AnswersGood, GoodAnswer, Messages, AnswersHoldOwnAdds
<1>2. QED
  BY <1>1, InvAlways, PTL

\* When the last answer that AppBlocker counts on is there, the slices are the
\* keys asked for.
LEMMA LastAnswerCompletes ==
    ASSUME Inv, NEW s \in Servers, NEW w \in Workers, toWorker[s][w] # <<>>,
           tracker[w].expected = tracker[w].current + 1
    PROVE  UNION {m.keys : m \in recv_kvs[w] \cup {Head(toWorker[s][w])}} = want[w]
<1> DEFINE h == Head(toWorker[s][w])
<1>0. TypeOK /\ KVTypeOK /\ GetInv /\ AnswersInv
  BY DEF Inv, ClockInv, TypeOK
<1>1. h.keys = SliceOf(want[w], s)
  <2>1. h \in Messages(toWorker[s][w])
    BY <1>0, MessagesPop DEF KVTypeOK
  <2>2. QED
    BY <1>0, <2>1 DEF AnswersInv, AnswersGood
<1>2. Outstanding(w) = {s}
  <2>1. Cardinality(Outstanding(w)) = 1
    <3>1. tracker[w].current \in Nat
      BY <1>0 DEF KVTypeOK
    <3>2. tracker[w].expected = tracker[w].current + Cardinality(Outstanding(w))
      BY <1>0 DEF GetInv, ResponsesCounted
    <3>3. QED
      BY <3>1, <3>2, OutstandingFinite
  <2>2. s \in Outstanding(w)
    BY DEF Outstanding, Answered
  <2>3. PICK x : Outstanding(w) = {x}
    BY <2>1, OutstandingFinite, FS_Singleton
  <2>4. QED
    BY <2>2, <2>3
<1>3. Waiting(w)
  BY <1>0, <1>2, WaitingIsOutstanding DEF GetInv
<1> HIDE DEF h
<1>4. \A m \in recv_kvs[w] \cup {h} : m.keys \subseteq want[w]
  BY <1>0, <1>1 DEF AnswersInv, AnswersGood, SliceOf
<1>5. ASSUME NEW k \in want[w]
      PROVE  \E m \in recv_kvs[w] \cup {h} : k \in m.keys
  <2>1. k \in SliceOf(want[w], Owner[k]) /\ Owner[k] \in Involved(want[w])
    BY DEF SliceOf, Involved
  <2>2. CASE Owner[k] = s
    BY <1>1, <2>1, <2>2
  <2>3. CASE Owner[k] # s
    <3>1. Owner[k] \in Involved(want[w]) \ Outstanding(w)
      BY <1>2, <2>1, <2>3
    <3>2. QED
      BY <1>0, <1>3, <2>1, <3>1 DEF AnswersInv, AnswersComplete
  <2>4. QED
    BY <2>2, <2>3
<1>6. UNION {m.keys : m \in recv_kvs[w] \cup {h}} = want[w]
  BY <1>4, <1>5
<1>7. QED
  BY <1>6 DEF h

\* When AppBlocker::AddResponse runs the finish handle, the slices received are
\* the keys asked for: the CHECKs of KVTableBox::HandleFinish never fail.
THEOREM SlicesAlwaysComplete == Spec => []SlicesComplete
<1>1. Inv => SlicesComplete
  BY LastAnswerCompletes DEF SlicesComplete
<1>2. QED
  BY <1>1, InvAlways, PTL

-----------------------------------------------------------------------------
(* The table implements BoundedStaleness                                    *)

Blocked == [w \in Workers |-> Waiting(w)]

LEMMA BlockedStep ==
    ASSUME NEW w \in Workers, \A v \in Workers : v # w => (Waiting(v)' <=> Waiting(v)),
           NEW b \in BOOLEAN, Waiting(w)' <=> b
    PROVE  Blocked' = [Blocked EXCEPT ![w] = b]
<1>1. \A v \in Workers : Waiting(v)' \in BOOLEAN /\ Waiting(v) \in BOOLEAN
  BY DEF Waiting
<1>2. Waiting(w)' = b
  BY <1>1
<1>3. \A v \in Workers : v # w => Waiting(v)' = Waiting(v)
  BY <1>1
<1>4. QED
  BY <1>2, <1>3 DEF Blocked

LEMMA BlockedUnchanged ==
    ASSUME \A v \in Workers : Waiting(v)' <=> Waiting(v)
    PROVE  Blocked' = Blocked
<1>1. \A v \in Workers : Waiting(v)' = Waiting(v)
  BY DEF Waiting
<1>2. QED
  BY <1>1 DEF Blocked

LEMMA StartsAsPromised == Init => Promise!Init
<1> SUFFICES ASSUME Init PROVE Promise!Init
  OBVIOUS
<1>1. \A w \in Workers : Waiting(w) = FALSE
  BY DEF Init, KVInit, Waiting
<1>2. QED
  BY <1>1 DEF Init, KVInit, Promise!Init

LEMMA GetAsks ==
    ASSUME TypeOK, NEW w \in Workers, NEW K \in GetKeys, ClientGet(w, K)
    PROVE  Promise!Ask(w)
<1>0. /\ ~Waiting(w) /\ want[w] = {}
      /\ K \in SUBSET Keys /\ K # {}
      /\ want' = [want EXCEPT ![w] = K]
      /\ tracker' = [tracker EXCEPT ![w] = [expected |-> NumReqs(K), current |-> 0]]
      /\ UNCHANGED <<clock, issued, vals>>
  BY TableAssumption DEF ClientGet
<1>1. NumReqs(K) # 0
  <2>1. Involved(K) # {} /\ Involved(K) \subseteq Servers
    BY <1>0, TableAssumption DEF Involved
  <2>2. QED
    BY <2>1, TableAssumption, FS_Subset, FS_EmptySet DEF NumReqs
<1>2. /\ tracker'[w] = [expected |-> NumReqs(K), current |-> 0]
      /\ \A v \in Workers : v # w => tracker'[v] = tracker[v]
  BY <1>0 DEF TypeOK, KVTypeOK
<1>3. Waiting(w)' <=> TRUE
  BY <1>1, <1>2 DEF Waiting
<1>4. \A v \in Workers : v # w => (Waiting(v)' <=> Waiting(v))
  BY <1>2 DEF Waiting
<1>5. Blocked' = [Blocked EXCEPT ![w] = TRUE]
  BY <1>3, <1>4, BlockedStep
<1>6. Promise!AskFor(w, K)
  BY <1>0, <1>5 DEF Promise!AskFor, Blocked
<1>7. K \in (SUBSET Keys) \ {{}}
  BY <1>0
<1>8. QED
  BY <1>6, <1>7 DEF Promise!Ask

LEMMA CallsAsPromised ==
    ASSUME TypeOK, NEW w \in Workers, Client(w)
    PROVE  Promise!Next
<1>1. ASSUME NEW K \in GetKeys, ClientGet(w, K) PROVE Promise!Next
  BY <1>1, GetAsks DEF Promise!Next
<1>2. ASSUME NEW K \in AddKeys, ClientAdd(w, K) PROVE Promise!Add(w)
  <2>1. K \in SUBSET Keys /\ ~Waiting(w) /\ UNCHANGED <<clock, want, tracker, vals>>
    BY <1>2, TableAssumption DEF ClientAdd
  <2>2. issued' = issued \cup {[worker |-> w, iter |-> clock[w], key |-> k] : k \in K}
    BY <1>2 DEF ClientAdd
  <2>3. Blocked' = Blocked
    BY <2>1, BlockedUnchanged DEF Waiting
  <2>4. QED
    BY <2>1, <2>2, <2>3 DEF Promise!Add, Promise!AddTo, Blocked
<1>3. ASSUME ClientClock(w) PROVE Promise!Clock(w)
  <2>1. /\ ~Waiting(w) /\ UNCHANGED <<issued, tracker>>
        /\ clock' = [clock EXCEPT ![w] = @ + 1]
        /\ want' = [want EXCEPT ![w] = {}]
        /\ vals' = [vals EXCEPT ![w] = {}]
    BY <1>3 DEF ClientClock
  <2>2. Blocked' = Blocked
    BY <2>1, BlockedUnchanged DEF Waiting
  <2>3. QED
    BY <2>1, <2>2 DEF Promise!Clock, Blocked
<1>4. QED
  BY <1>1, <1>2, <1>3 DEF Client, Promise!Next

\* The helper's last answer makes a value that BoundedStaleness allows; the
\* ones before it change nothing there.
LEMMA HelperAnswers ==
    ASSUME Inv, NEW s \in Servers, NEW w \in Workers, Helper(s, w)
    PROVE  [Promise!Next]_(Promise!vars)
<1> DEFINE h == Head(toWorker[s][w])
           got == recv_kvs[w] \cup {h}
           finish == tracker[w].expected = tracker[w].current + 1
           seen == UNION {m.adds : m \in got}
<1>0. /\ toWorker[s][w] # <<>>
      /\ vals' = [vals EXCEPT ![w] = IF finish THEN seen ELSE @]
      /\ tracker' = [tracker EXCEPT ![w].current = @ + 1]
      /\ UNCHANGED <<clock, issued, want>>
      /\ TypeOK /\ KVTypeOK /\ GetInv /\ AnswersInv
  BY DEF Helper, HelperResponse, HandleMsg, HandleFinish, Inv, ClockInv, TypeOK
<1>1. /\ Waiting(w)' <=> ~finish
      /\ \A v \in Workers : v # w => (Waiting(v)' <=> Waiting(v))
  BY <1>0 DEF KVTypeOK, Waiting
<1>2. Waiting(w) /\ h \in Messages(toWorker[s][w])
  <2>1. s \in Outstanding(w) /\ h \in Messages(toWorker[s][w])
    BY <1>0, AnswerTaken
  <2>2. QED
    BY <1>0, <2>1, WaitingIsOutstanding DEF GetInv
<1>3. CASE ~finish
  <2>1. vals' = vals
    BY <1>0, <1>3 DEF KVTypeOK
  <2>2. Blocked' = Blocked
    BY <1>1, <1>2, <1>3, BlockedUnchanged
  <2>3. QED
    BY <1>0, <2>1, <2>2 DEF Promise!vars, Blocked
<1>4. CASE finish
  <2>1. UNION {m.keys : m \in got} = want[w]
    BY <1>0, <1>4, LastAnswerCompletes
  <2>2. \A m \in got : GoodAnswer(m, w)
    BY <1>0, <1>2 DEF AnswersInv, AnswersGood
  <2>3. \A m \in got : m.keys \subseteq want[w]
    BY <2>1
  <2> HIDE DEF got, h
  <2>4. seen \subseteq Promise!Visible(w)
    BY <2>2, <2>3 DEF GoodAnswer, Promise!Visible
  <2>5. Promise!Owed(w) \subseteq seen
    <3> SUFFICES ASSUME NEW a \in Promise!Owed(w) PROVE a \in seen
      OBVIOUS
    <3>1. /\ a \in issued /\ a.key \in want[w]
          /\ a.worker = w \/ a.iter + Staleness < clock[w]
      BY DEF Promise!Owed, Promise!Visible
    <3>2. PICK m \in got : a.key \in m.keys
      BY <2>1, <3>1
    <3>3. a \in m.adds
      BY <2>2, <3>1, <3>2 DEF GoodAnswer
    <3>4. QED
      BY <3>2, <3>3
  <2>6. vals' = [vals EXCEPT ![w] = seen]
    BY <1>0, <1>4
  <2>7. Blocked' = [Blocked EXCEPT ![w] = FALSE] /\ Blocked[w]
    BY <1>1, <1>2, <1>4, BlockedStep DEF Blocked
  <2> HIDE DEF seen, finish
  <2>8. Promise!InWindow(w)
    BY <1>0, <1>2 DEF AnswersInv, AnswersGood, InRange, Promise!InWindow
  <2>9. Promise!Answer(w)
    <3> DEFINE early == seen \ Promise!Owed(w)
    <3>1. early \in SUBSET (Promise!Visible(w) \ Promise!Owed(w))
      BY <2>4
    <3>2. seen = Promise!Owed(w) \cup early
      BY <2>5
    <3>3. vals' = [vals EXCEPT ![w] = Promise!Owed(w) \cup early]
      BY <2>6, <3>2
    <3> HIDE DEF early
    <3>4. QED
      BY <1>0, <2>7, <2>8, <3>1, <3>3 DEF Promise!Answer, Blocked
  <2>10. QED
    BY <2>9 DEF Promise!Next
<1>5. QED
  BY <1>3, <1>4

LEMMA StepsAsPromised == Inv /\ [Next]_vars => [Promise!Next]_(Promise!vars)
<1> SUFFICES ASSUME Inv, [Next]_vars PROVE [Promise!Next]_(Promise!vars)
  OBVIOUS
<1>0. TypeOK
  BY DEF Inv, ClockInv
<1>1. ASSUME NEW w \in Workers, Client(w) PROVE Promise!Next
  BY <1>0, <1>1, CallsAsPromised
<1>2. ASSUME NEW s \in Servers, NEW w \in Workers, Helper(s, w)
      PROVE  [Promise!Next]_(Promise!vars)
  BY <1>2, HelperAnswers
<1>3. ASSUME UNCHANGED clientVars PROVE UNCHANGED Promise!vars
  <2>1. UNCHANGED <<clock, issued, want, tracker, vals>>
    BY <1>3 DEF clientVars
  <2>2. Blocked' = Blocked
    BY <2>1, BlockedUnchanged DEF Waiting
  <2>3. QED
    BY <2>1, <2>2 DEF Promise!vars, Blocked
<1>4. ASSUME NEW s \in Servers, NEW w \in Workers, Server(s, w) PROVE UNCHANGED clientVars
  BY <1>4 DEF Server, ServerClock, ServerAdd, ServerGet
<1>5. UNCHANGED vars => UNCHANGED clientVars
  BY DEF vars, kvVars
<1>6. QED
  BY <1>1, <1>2, <1>3, <1>4, <1>5 DEF Next, TaskDone

\* An SSPTable of any size implements BoundedStaleness: workers cannot tell
\* the message-passing table, with its servers, buffers and queues, from one
\* that answers each Get with some state inside the staleness window.
THEOREM PromiseKept == Spec => KeepsPromise
<1>1. Spec => [][Promise!Next]_(Promise!vars)
  <2>1. Inv /\ [Next]_vars => [Promise!Next]_(Promise!vars)
    BY StepsAsPromised
  <2>2. QED
    BY <2>1, InvAlways, PTL DEF Spec
<1>2. Spec => Promise!Init
  BY StartsAsPromised DEF Spec
<1>3. QED
  BY <1>1, <1>2, PTL DEF KeepsPromise, Promise!Spec

-----------------------------------------------------------------------------
(* An ASPTable is an SSPTable whose staleness no worker can exceed, so that no *)
(* Get is ever parked; what is proved above holds for it as well.  It has no   *)
(* buffer: that the variable stays empty restricts none of its behaviours.    *)

ASP == INSTANCE ASPTable
NothingParked == buffer = [s \in Servers |-> [c \in Clocks |-> {}]]

LEMMA ASPStarts == ASP!Init /\ NothingParked => Init
BY DEF ASP!Init, ASP!KVInit, ASP!ServerInit, ASP!TrackerInit, Init, KVInit, ServerInit,
       TrackerInit, NothingParked, Clocks

\* SSPModel::Get never parks one: nobody is more than MaxClock ahead.
LEMMA NeverTooFarAhead ==
    ASSUME ClockInv, Staleness = MaxClock, NEW s \in Servers, NEW w \in Workers
    PROVE  ~TooFarAhead(s, w)
<1>1. Progress(s, w) \in Clocks /\ MinClock(s) \in Clocks
  BY ClockParts DEF TimeInv, ServerTypeOK, Progress, MinClock
<1>2. QED
  BY <1>1, TableAssumption DEF TooFarAhead, Clocks

LEMMA NobodyReleased ==
    ASSUME ClockInv, NEW s \in Servers
    PROVE  Reply(s, storage[s], {}) <=> toWorker' = toWorker
<1>1. toWorker \in [Servers -> [Workers -> Seq(Answer)]]
  BY ClockParts DEF KVTypeOK
<1>2. [toWorker EXCEPT ![s] = [w \in Workers |-> toWorker[s][w]]] = toWorker
  BY <1>1
<1>3. Reply(s, storage[s], {}) <=> toWorker' = [toWorker EXCEPT ![s] = [w \in Workers |-> toWorker[s][w]]]
  BY DEF Reply
<1>4. QED
  BY <1>2, <1>3

LEMMA ASPServerIsSSPServer ==
    ASSUME ClockInv, Staleness = MaxClock, NothingParked, NothingParked',
           NEW s \in Servers, NEW w \in Workers, ASP!Server(s, w)
    PROVE  Server(s, w)
<1>0. UNCHANGED buffer
  BY DEF NothingParked
<1>1. CASE ASP!ServerClock(s, w)
  <2> DEFINE c == ChangedMinClock(progress_tracker[s], w)
  <2>1. /\ Received(s, w, "kClock") /\ Dequeue(s, w)
        /\ progress_tracker' = [progress_tracker EXCEPT ![s] = Advance(@, w)]
        /\ UNCHANGED <<clientVars, storage>> /\ toWorker' = toWorker
    BY <1>1 DEF ASP!ServerClock, ASP!Received, ASP!Dequeue, ASP!Advance, ASP!IsUniqueMin,
                Received, Dequeue, Advance, IsUniqueMin, ASP!clientVars, clientVars
  <2>2. c # -1 => buffer[s][c] = {} /\ Pop(s, c)
    <3>1. SUFFICES ASSUME c # -1 PROVE buffer[s][c] = {} /\ Pop(s, c)
      OBVIOUS
    <3>2. c \in Clocks
      BY <2>1, <3>1, ChangedMinInBounds
    <3> HIDE DEF c
    <3>3. QED
      BY <3>2 DEF NothingParked, Pop
  <2>3. QED
    BY <1>0, <2>1, <2>2, NobodyReleased DEF Server, ServerClock
<1>2. CASE ASP!ServerAdd(s, w)
  BY <1>0, <1>2 DEF ASP!ServerAdd, ASP!Received, ASP!Dequeue, ASP!Increments, ASP!clientVars,
              Server, ServerAdd, Received, Dequeue, Increments, clientVars
<1>3. CASE ASP!ServerGet(s, w)
  <2> DEFINE req == RequestOf(w, Head(toServer[w][s]))
  <2>1. /\ Received(s, w, "kGet") /\ Dequeue(s, w)
        /\ UNCHANGED <<clientVars, progress_tracker, storage>>
    BY <1>3 DEF ASP!ServerGet, ASP!Received, ASP!Dequeue, Received, Dequeue, ASP!clientVars, clientVars
  <2>2. Reply(s, storage[s], {req})
    BY <1>3 DEF ASP!ServerGet, ASP!Reply, ASP!RequestOf, ASP!StorageGet, Reply, RequestOf, StorageGet
  <2>3. QED
    BY <1>0, <2>1, <2>2, NeverTooFarAhead DEF Server, ServerGet
<1>4. QED
  BY <1>1, <1>2, <1>3 DEF ASP!Server

LEMMA SameNumReqs == \A K \in SUBSET Keys : ASP!NumReqs(K) = NumReqs(K)
BY DEF ASP!NumReqs, NumReqs, ASP!Involved, Involved, ASP!Cardinality, ASP!IsFiniteSet, Cardinality, IsFiniteSet

LEMMA ASPStepIsSSPStep ==
    ASSUME ClockInv, Staleness = MaxClock, NothingParked, NothingParked',
           [ASP!Next]_(ASP!vars)
    PROVE  [Next]_vars
<1>0. UNCHANGED buffer
  BY DEF NothingParked
<1>1. ASSUME NEW w \in Workers, ASP!Client(w) PROVE Client(w)
  <2>1. ASSUME NEW K \in GetKeys, ASP!ClientGet(w, K) PROVE ClientGet(w, K)
    BY <2>1, SameNumReqs, TableAssumption
       DEF ASP!ClientGet, ASP!Waiting, ASP!Involved, ASP!SliceOf, ASP!Send,
           ClientGet, Waiting, Involved, SliceOf, Send
  <2>2. ASSUME NEW K \in AddKeys, ASP!ClientAdd(w, K) PROVE ClientAdd(w, K)
    BY <2>2 DEF ASP!ClientAdd, ASP!Waiting, ASP!Involved, ASP!SliceOf, ASP!Send,
                ClientAdd, Waiting, Involved, SliceOf, Send
  <2>3. ASSUME ASP!ClientClock(w) PROVE ClientClock(w)
    BY <2>3 DEF ASP!ClientClock, ASP!Waiting, ASP!ClockedServers, ClientClock, Waiting, ClockedServers
  <2>4. UNCHANGED serverVars
    BY <1>0, <1>1 DEF ASP!Client, ASP!serverVars, serverVars
  <2>5. QED
    BY <1>1, <2>1, <2>2, <2>3, <2>4 DEF ASP!Client, Client
<1>2. ASSUME NEW s \in Servers, NEW w \in Workers, ASP!Helper(s, w) PROVE Helper(s, w)
  BY <1>0, <1>2 DEF ASP!Helper, ASP!HelperResponse, ASP!HandleMsg, ASP!HandleFinish, ASP!serverVars,
              Helper, HelperResponse, HandleMsg, HandleFinish, serverVars
<1>3. ASSUME UNCHANGED ASP!vars PROVE UNCHANGED vars
  BY <1>0, <1>3 DEF ASP!vars, ASP!kvVars, ASP!clientVars, ASP!serverVars, vars, kvVars, clientVars, serverVars
<1>4. QED
  BY <1>1, <1>2, <1>3, ASPServerIsSSPServer DEF ASP!Next, ASP!TaskDone, Next

\* ASPModel does what SSPModel would do with a staleness that covers the whole
\* task, and buffers that stay empty.
THEOREM ASPTableIsSSPTable ==
    ASSUME Staleness = MaxClock
    PROVE  ASP!Spec /\ []NothingParked => Spec
<1>1. ASP!Init /\ NothingParked => Init /\ ClockInv
  BY ASPStarts, ClockInvInit
<1>2. ClockInv /\ NothingParked /\ NothingParked' /\ [ASP!Next]_(ASP!vars) => [Next]_vars /\ ClockInv'
  BY ASPStepIsSSPStep, ClockInvNext
<1>3. QED
  BY <1>1, <1>2, PTL DEF ASP!Spec, Spec

\* So an ASPTable keeps what BoundedStaleness promises without a bound: its
\* workers read their own Adds, and no others than were called.
THEOREM ASPPromiseKept ==
    ASSUME Staleness = MaxClock
    PROVE  ASP!Spec /\ []NothingParked => ASP!KeepsPromise
<1>1. Promise!Init => ASP!Promise!Init
  BY DEF Promise!Init, ASP!Promise!Init, ASP!Waiting, Waiting
<1>2. [Promise!Next]_(Promise!vars) => [ASP!Promise!Next]_(ASP!Promise!vars)
  BY DEF Promise!Next, Promise!Add, Promise!AddTo, Promise!Clock, Promise!Ask, Promise!AskFor,
         Promise!Answer, Promise!InWindow, Promise!Owed, Promise!Visible, Promise!vars, Waiting,
         ASP!Promise!Next, ASP!Promise!Add, ASP!Promise!AddTo, ASP!Promise!Clock, ASP!Promise!Ask,
         ASP!Promise!AskFor, ASP!Promise!Answer, ASP!Promise!InWindow, ASP!Promise!Owed,
         ASP!Promise!Visible, ASP!Promise!vars, ASP!Waiting
<1>3. QED
  BY <1>1, <1>2, ASPTableIsSSPTable, PromiseKept, PTL
     DEF KeepsPromise, Promise!Spec, ASP!KeepsPromise, ASP!Promise!Spec
=============================================================================
