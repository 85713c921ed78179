---------------------------- MODULE GradientProofs ----------------------------
(***************************************************************************)
(* The training loop of GradientLoop, for any number of workers, servers,    *)
(* keys and iterations, any staleness and any batches: it uses its table as   *)
(* SSPTable allows, so that it inherits what is proved of one; and writing    *)
(* deltas again while messages point into it alters nothing that the next     *)
(* Get asks for.                                                            *)
(***************************************************************************)
EXTENDS GradientLoop, SSPTableProofs

Blocks == 0 .. MaxClock
Pushed == [block : Blocks, holds : SUBSET Iters]

LoopTyped ==
    /\ at \in [Workers -> {"get", "train", "add", "clock", "done"}]
    /\ future_keys \in Batches
    /\ deltas \in [Workers -> [block : Blocks, capacity : Nat]]
    /\ memory \in [Workers -> [Blocks -> SUBSET Iters]]
    /\ pushed \in [Workers -> Seq(Pushed)]

\* An iteration runs between two Clocks, has one Add, and moves deltas to a new
\* block at most once.
InIteration(w) == at[w] \in {"train", "add", "clock"}
IterationsCounted ==
    \A w \in Workers :
        /\ InIteration(w) => clock[w] \in Iters
        /\ Len(pushed[w]) = IF at[w] = "clock" THEN clock[w] + 1 ELSE clock[w]
        /\ deltas[w].block <= IF at[w] \in {"add", "clock"} THEN clock[w] + 1 ELSE clock[w]

\* The block of the Add of w in iteration i holds what it held then.
Intact(w, i) == memory[w][pushed[w][i + 1].block] = pushed[w][i + 1].holds

\* The Get of the iteration after i asks s.
AskedNext(w, s, i) == i + 1 \in Iters /\ s \in Involved(future_keys[w][i + 1])
LeftOutNext(w, s, i) == i + 1 \in Iters /\ s \notin Involved(future_keys[w][i + 1])

\* w has not trained again since iteration i, and will not before s has
\* answered the Get of the iteration after it.
NotYetOverwritten(w, s, i) ==
    clock[w] = i + 1 /\ (at[w] = "get" \/ (at[w] = "train" /\ Sent(w, s)))

\* An Add on its way to s was called, and its block is intact unless the next
\* Get leaves s out; when that Get asks s, its request follows the Add.
AddIntact(w, s, m) ==
    m.flag = "kAdd" =>
        /\ m.iter < Len(pushed[w])
        /\ Intact(w, m.iter) \/ LeftOutNext(w, s, m.iter)
        /\ (m.iter < clock[w] /\ AskedNext(w, s, m.iter)) => NotYetOverwritten(w, s, m.iter)
AddsIntact ==
    \A w \in Workers, s \in Servers : \A m \in Messages(toServer[w][s]) : AddIntact(w, s, m)

LoopInv == LoopTyped /\ IterationsCounted /\ AddsIntact /\ AlteredOnlyUnasked

-----------------------------------------------------------------------------
(* The loop uses its table as SSPTable allows                               *)

LEMMA BatchTyped ==
    ASSUME BatchesAssumption, LoopTyped, NEW w \in Workers, NEW i \in Iters
    PROVE  /\ future_keys[w][i] \in GetKeys /\ future_keys[w][i] \in AddKeys
           /\ future_keys[w][i] \in SUBSET Keys
           /\ IsFiniteSet(future_keys[w][i])
<1>1. future_keys[w][i] \in GetKeys \cap AddKeys
  BY DEF BatchesAssumption, LoopTyped
<1>2. QED
  BY <1>1, TableAssumption DEF BatchesAssumption

\* Every step of the loop is a step of the table, or none.
LEMMA LoopRunsTable ==
    ASSUME BatchesAssumption, LoopInv, [GradientNext]_gradientVars
    PROVE  [Next]_vars
<1>1. LoopTyped
  BY DEF LoopInv
<1>2. ASSUME NEW w \in Workers, Lambda(w) PROVE [Next]_vars
  <2>1. ASSUME Get(w) PROVE Client(w)
    <3>1. future_keys[w][clock[w]] \in GetKeys
      BY <1>1, <2>1, BatchTyped DEF Get
    <3>2. QED
      BY <2>1, <3>1 DEF Get, Client
  <2>2. ASSUME Add(w) PROVE Client(w)
    <3>1. clock[w] \in Iters
      BY <2>2 DEF Add, LoopInv, IterationsCounted, InIteration
    <3>2. future_keys[w][clock[w]] \in AddKeys
      BY <1>1, <3>1, BatchTyped
    <3>3. QED
      BY <2>2, <3>2 DEF Add, Client
  <2>3. ASSUME FinalGet(w) PROVE Client(w)
    BY <2>3 DEF FinalGet, Client, BatchesAssumption
  <2>4. ASSUME Clock(w) PROVE Client(w)
    BY <2>4 DEF Clock, Client
  <2>5. Train(w) => UNCHANGED vars
    BY DEF Train
  <2>6. QED
    BY <1>2, <2>1, <2>2, <2>3, <2>4, <2>5 DEF Lambda, Next
<1>3. ASSUME NEW s \in Servers, NEW w \in Workers,
             ApplyAdd(s, w) \/ ServerClock(s, w) \/ ServerGet(s, w) \/ Helper(s, w)
      PROVE  Next
  BY <1>3 DEF ApplyAdd, Server, Next
<1>4. UNCHANGED gradientVars => UNCHANGED vars
  BY DEF gradientVars
<1>5. QED
  BY <1>2, <1>3, <1>4 DEF GradientNext

-----------------------------------------------------------------------------
(* The invariant of the loop                                                *)

LEMMA LoopInvInit == GradientInit => LoopInv
<1> SUFFICES ASSUME GradientInit PROVE LoopInv
  OBVIOUS
<1>0. 0 \in Blocks /\ MaxClock \in Nat
  BY TableAssumption DEF Blocks
<1>1. LoopTyped
  <2>1. <<>> \in Seq(Pushed)
    BY EmptySeq
  <2>2. QED
    BY <1>0, <2>1 DEF GradientInit, LoopTyped, Blocks
<1>2. IterationsCounted
  BY <1>0, EmptySeq DEF GradientInit, Init, KVInit, IterationsCounted, InIteration
<1>3. AddsIntact
  <2>1. \A w \in Workers, s \in Servers : Messages(toServer[w][s]) = {}
    BY EmptySeq DEF GradientInit, Init, KVInit, Messages
  <2>2. QED
    BY <2>1 DEF AddsIntact
<1>4. AlteredOnlyUnasked
  BY DEF GradientInit, AlteredOnlyUnasked
<1>5. QED
  BY <1>1, <1>2, <1>3, <1>4 DEF LoopInv

\* The Add m of w is as intact as it was if nothing that AddIntact speaks of
\* has changed for w.
LEMMA AddStaysIntact ==
    ASSUME NEW w \in Workers, NEW s \in Servers, NEW m, AddIntact(w, s, m),
           at'[w] = at[w], clock'[w] = clock[w], pushed'[w] = pushed[w],
           memory'[w] = memory[w], future_keys' = future_keys,
           Sent(w, s) => Sent(w, s)'
    PROVE  AddIntact(w, s, m)'
<1>1. /\ Intact(w, m.iter)' <=> Intact(w, m.iter)
      /\ LeftOutNext(w, s, m.iter)' <=> LeftOutNext(w, s, m.iter)
      /\ AskedNext(w, s, m.iter)' <=> AskedNext(w, s, m.iter)
  BY DEF Intact, LeftOutNext, AskedNext
<1>2. NotYetOverwritten(w, s, m.iter) => NotYetOverwritten(w, s, m.iter)'
  BY DEF NotYetOverwritten
<1>3. QED
  BY <1>1, <1>2 DEF AddIntact

\* A step of worker w leaves the Adds of the other workers intact.
LEMMA OthersStayIntact ==
    ASSUME AddsIntact, NEW w \in Workers, NEW v \in Workers, v # w,
           NEW s \in Servers, toServer'[v][s] = toServer[v][s],
           at'[v] = at[v], clock'[v] = clock[v], pushed'[v] = pushed[v],
           memory'[v] = memory[v], future_keys' = future_keys
    PROVE  \A m \in Messages(toServer'[v][s]) : AddIntact(v, s, m)'
<1>1. Sent(v, s)' <=> Sent(v, s)
  BY DEF Sent
<1>2. \A m \in Messages(toServer'[v][s]) : AddIntact(v, s, m)
  BY DEF AddsIntact
<1>3. QED
  BY <1>1, <1>2, AddStaysIntact

\* Iterations are numbers, also those of messages.
LEMMA MessageIter ==
    ASSUME TypeOK, NEW w \in Workers, NEW s \in Servers, NEW m \in Messages(toServer[w][s])
    PROVE  m \in Request /\ m.iter \in Nat /\ clock[w] \in Nat
<1>1. toServer[w][s] \in Seq(Request) /\ clock[w] \in Clocks
  BY DEF TypeOK, KVTypeOK
<1>2. m \in Request
  BY <1>1, MessagesType
<1>3. QED
  BY <1>1, <1>2, TableAssumption DEF Request, Clocks

LEMMA LoopInvGet ==
    ASSUME BatchesAssumption, Inv, LoopInv, NEW w \in Workers, Get(w)
    PROVE  LoopInv'
<1> DEFINE K == future_keys[w][clock[w]]
<1>0. /\ TypeOK /\ LoopTyped /\ IterationsCounted /\ AddsIntact /\ AlteredOnlyUnasked
      /\ at[w] = "get" /\ clock[w] \in Iters
      /\ Send(w, "kGet", K)
      /\ at' = [at EXCEPT ![w] = "train"]
      /\ UNCHANGED <<clock, future_keys, deltas, memory, pushed, altered>>
  BY DEF Inv, ClockInv, LoopInv, Get, ClientGet
<1>1. LoopTyped'
  BY <1>0 DEF LoopTyped
<1>2. at'[w] = "train" /\ \A v \in Workers : v # w => at'[v] = at[v]
  BY <1>0 DEF LoopTyped
<1>3. IterationsCounted'
  BY <1>0, <1>2 DEF IterationsCounted, InIteration
<1>4. AlteredOnlyUnasked'
  BY <1>0 DEF AlteredOnlyUnasked
<1>5. ASSUME NEW v \in Workers, v # w, NEW s \in Servers
      PROVE  \A m \in Messages(toServer'[v][s]) : AddIntact(v, s, m)'
  <2>1. K \in SUBSET Keys
    BY <1>0, BatchTyped
  <2>2. toServer'[v][s] = toServer[v][s]
    BY <1>0, <1>5, <2>1, SendEffect, TypedParts
  <2>3. QED
    BY <1>0, <1>2, <1>5, <2>2, OthersStayIntact
<1>6. ASSUME NEW s \in Servers, NEW m \in Messages(toServer'[w][s]), m.flag = "kAdd"
      PROVE  AddIntact(w, s, m)'
  <2>1. K \in SUBSET Keys
    BY <1>0, BatchTyped
  <2> DEFINE g == Slice(w, "kGet", K, s)
  <2>2. g.flag = "kGet"
    BY DEF Slice
  <2>3. /\ s \in Involved(K) => Messages(toServer'[w][s]) = Messages(toServer[w][s]) \cup {g}
        /\ s \notin Involved(K) => toServer'[w][s] = toServer[w][s]
    BY <1>0, <2>1, SendEffect, TypedParts
  <2> HIDE DEF g
  <2>4. m \in Messages(toServer[w][s])
    BY <1>6, <2>2, <2>3
  <2>5. s \in Involved(K) => Sent(w, s)'
    BY <2>2, <2>3 DEF Sent
  <2>6. m.iter \in Nat /\ clock[w] \in Nat /\ AddIntact(w, s, m)
    BY <1>0, <2>4, MessageIter DEF AddsIntact
  <2>7. /\ Intact(w, m.iter)' <=> Intact(w, m.iter)
        /\ LeftOutNext(w, s, m.iter)' <=> LeftOutNext(w, s, m.iter)
        /\ AskedNext(w, s, m.iter)' <=> AskedNext(w, s, m.iter)
    BY <1>0 DEF Intact, LeftOutNext, AskedNext
  <2>8. ASSUME m.iter < clock[w], AskedNext(w, s, m.iter)
        PROVE  NotYetOverwritten(w, s, m.iter)'
    <3>1. clock[w] = m.iter + 1
      BY <1>6, <2>6, <2>8 DEF AddIntact, NotYetOverwritten
    <3>2. s \in Involved(K)
      BY <2>8, <3>1 DEF AskedNext
    <3>3. QED
      BY <1>0, <1>2, <2>5, <3>1, <3>2 DEF NotYetOverwritten
  <2>9. QED
    BY <1>0, <1>6, <2>6, <2>7, <2>8 DEF AddIntact
<1>7. AddsIntact'
  <2>1. \A s \in Servers : \A m \in Messages(toServer'[w][s]) : AddIntact(w, s, m)'
    BY <1>6 DEF AddIntact
  <2>2. QED
    BY <1>5, <2>1 DEF AddsIntact
<1>8. QED
  BY <1>1, <1>3, <1>4, <1>7 DEF LoopInv

LEMMA LoopInvFinalGet ==
    ASSUME BatchesAssumption, Inv, LoopInv, NEW w \in Workers, FinalGet(w)
    PROVE  LoopInv'
<1>0. /\ TypeOK /\ LoopTyped /\ IterationsCounted /\ AddsIntact /\ AlteredOnlyUnasked
      /\ at[w] = "get" /\ clock[w] = MaxClock /\ Keys \in SUBSET Keys
      /\ Send(w, "kGet", Keys)
      /\ at' = [at EXCEPT ![w] = "done"]
      /\ UNCHANGED <<clock, future_keys, deltas, memory, pushed, altered>>
  BY DEF Inv, ClockInv, LoopInv, FinalGet, ClientGet
<1>1. LoopTyped'
  BY <1>0 DEF LoopTyped
<1>2. at'[w] = "done" /\ \A v \in Workers : v # w => at'[v] = at[v]
  BY <1>0 DEF LoopTyped
<1>3. IterationsCounted'
  BY <1>0, <1>2 DEF IterationsCounted, InIteration
<1>4. AlteredOnlyUnasked'
  BY <1>0 DEF AlteredOnlyUnasked
<1>5. ASSUME NEW v \in Workers, v # w, NEW s \in Servers
      PROVE  \A m \in Messages(toServer'[v][s]) : AddIntact(v, s, m)'
  <2>1. toServer'[v][s] = toServer[v][s]
    BY <1>0, <1>5, SendEffect, TypedParts
  <2>2. QED
    BY <1>0, <1>2, <1>5, <2>1, OthersStayIntact
<1>6. ASSUME NEW s \in Servers, NEW m \in Messages(toServer'[w][s]), m.flag = "kAdd"
      PROVE  AddIntact(w, s, m)'
  <2> DEFINE g == Slice(w, "kGet", Keys, s)
  <2>2. g.flag = "kGet"
    BY DEF Slice
  <2>3. /\ s \in Involved(Keys) => Messages(toServer'[w][s]) = Messages(toServer[w][s]) \cup {g}
        /\ s \notin Involved(Keys) => toServer'[w][s] = toServer[w][s]
    BY <1>0, SendEffect, TypedParts
  <2> HIDE DEF g
  <2>4. m \in Messages(toServer[w][s])
    BY <1>6, <2>2, <2>3
  <2>6. m.iter \in Nat /\ clock[w] \in Nat /\ AddIntact(w, s, m)
    BY <1>0, <2>4, MessageIter DEF AddsIntact
  <2>7. /\ Intact(w, m.iter)' <=> Intact(w, m.iter)
        /\ LeftOutNext(w, s, m.iter)' <=> LeftOutNext(w, s, m.iter)
        /\ AskedNext(w, s, m.iter)' <=> AskedNext(w, s, m.iter)
    BY <1>0 DEF Intact, LeftOutNext, AskedNext
  <2>8. ~(m.iter < clock[w] /\ AskedNext(w, s, m.iter))
    <3> SUFFICES ASSUME m.iter < clock[w], AskedNext(w, s, m.iter) PROVE FALSE
      OBVIOUS
    <3>1. clock[w] = m.iter + 1
      BY <1>6, <2>6 DEF AddIntact, NotYetOverwritten
    <3>2. m.iter + 1 \in Iters
      BY DEF AskedNext
    <3>3. QED
      BY <1>0, <3>1, <3>2, TableAssumption DEF Iters
  <2>9. QED
    BY <1>0, <1>6, <2>6, <2>7, <2>8 DEF AddIntact
<1>7. AddsIntact'
  <2>1. \A s \in Servers : \A m \in Messages(toServer'[w][s]) : AddIntact(w, s, m)'
    BY <1>6 DEF AddIntact
  <2>2. QED
    BY <1>5, <2>1 DEF AddsIntact
<1>8. QED
  BY <1>1, <1>3, <1>4, <1>7 DEF LoopInv

\* SArray::resize moves deltas by at most one block.
LEMMA ResizedType ==
    ASSUME BatchesAssumption, LoopTyped, NEW w \in Workers, clock[w] \in Iters,
           deltas[w].block <= clock[w]
    PROVE  /\ Resized(w) \in [block : Blocks, capacity : Nat]
           /\ Resized(w).block <= clock[w] + 1
<1> DEFINE size == Cardinality(future_keys[w][clock[w]])
<1>1. size \in Nat
  BY BatchTyped, FS_CardinalityType
<1>2. deltas[w] \in [block : Blocks, capacity : Nat]
  BY DEF LoopTyped
<1>3. deltas[w].block \in Nat /\ clock[w] \in Nat /\ MaxClock \in Nat /\ clock[w] < MaxClock
  BY <1>2, TableAssumption DEF Blocks, Iters
<1>4. deltas[w].block + 1 \in Blocks
  BY <1>3 DEF Blocks
<1> HIDE DEF size
<1>5. Resized(w) = IF size <= deltas[w].capacity THEN deltas[w]
                   ELSE [block |-> deltas[w].block + 1, capacity |-> size]
  BY DEF Resized, size
<1>6. CASE size <= deltas[w].capacity
  BY <1>2, <1>3, <1>5, <1>6
<1>7. CASE ~(size <= deltas[w].capacity)
  BY <1>1, <1>3, <1>4, <1>5, <1>7
<1>8. QED
  BY <1>6, <1>7

LEMMA LoopInvTrain ==
    ASSUME BatchesAssumption, Inv, LoopInv, NEW w \in Workers, Train(w)
    PROVE  LoopInv'
<1> DEFINE new == memory[w][deltas[w].block] \cup {clock[w]}
<1>0. /\ TypeOK /\ LoopTyped /\ IterationsCounted /\ AddsIntact /\ AlteredOnlyUnasked
      /\ at[w] = "train" /\ ~Waiting(w) /\ clock[w] \in Iters
      /\ deltas' = [deltas EXCEPT ![w] = Resized(w)]
      /\ memory' = [memory EXCEPT ![w][Resized(w).block] = new]
      /\ at' = [at EXCEPT ![w] = "add"]
      /\ UNCHANGED <<clock, toServer, future_keys, pushed, altered>>
  BY DEF Inv, ClockInv, LoopInv, Train, vars, kvVars, clientVars, IterationsCounted, InIteration
<1>1. /\ deltas[w].block <= clock[w] /\ Len(pushed[w]) = clock[w]
      /\ clock[w] \in Nat
  BY <1>0, TableAssumption DEF IterationsCounted, Iters
<1>2. /\ Resized(w) \in [block : Blocks, capacity : Nat]
      /\ Resized(w).block <= clock[w] + 1
  BY <1>0, <1>1, ResizedType
<1>3. LoopTyped'
  <2>1. deltas[w].block \in Blocks
    BY <1>0 DEF LoopTyped
  <2>2. new \in SUBSET Iters
    BY <1>0, <2>1 DEF LoopTyped
  <2>3. Resized(w).block \in Blocks
    BY <1>2
  <2> HIDE DEF new
  <2>4. memory' \in [Workers -> [Blocks -> SUBSET Iters]]
    BY <1>0, <2>2, <2>3 DEF LoopTyped
  <2>5. QED
    BY <1>0, <1>2, <2>4 DEF LoopTyped
<1>4. /\ at'[w] = "add" /\ deltas'[w] = Resized(w)
      /\ \A v \in Workers : v # w => at'[v] = at[v] /\ deltas'[v] = deltas[v] /\ memory'[v] = memory[v]
  BY <1>0 DEF LoopTyped
<1>5. IterationsCounted'
  <2> SUFFICES ASSUME NEW v \in Workers
               PROVE  /\ InIteration(v)' => clock'[v] \in Iters
                      /\ Len(pushed'[v]) = IF at'[v] = "clock" THEN clock'[v] + 1 ELSE clock'[v]
                      /\ deltas'[v].block <= IF at'[v] \in {"add", "clock"} THEN clock'[v] + 1 ELSE clock'[v]
    BY DEF IterationsCounted
  <2>1. CASE v = w
    BY <1>0, <1>1, <1>2, <1>4, <2>1
  <2>2. CASE v # w
    BY <1>0, <1>4, <2>2 DEF IterationsCounted, InIteration
  <2>3. QED
    BY <2>1, <2>2
<1>6. AlteredOnlyUnasked'
  BY <1>0 DEF AlteredOnlyUnasked
<1>7. ASSUME NEW s \in Servers, NEW m \in Messages(toServer'[w][s]), m.flag = "kAdd"
      PROVE  AddIntact(w, s, m)'
  <2>1. m \in Messages(toServer[w][s])
    BY <1>0, <1>7
  <2>2. m.iter \in Nat /\ clock[w] \in Nat /\ AddIntact(w, s, m)
    BY <1>0, <2>1, MessageIter DEF AddsIntact
  <2>3. ~Sent(w, s)
    BY <1>0, IdleHasNothing DEF Inv, GetInv
  <2>4. m.iter < clock[w] /\ ~AskedNext(w, s, m.iter)
    BY <1>0, <1>1, <1>7, <2>2, <2>3 DEF AddIntact, NotYetOverwritten
  <2>5. m.iter + 1 \in Iters
    BY <1>0, <2>2, <2>4, TableAssumption DEF Iters
  <2>6. LeftOutNext(w, s, m.iter)' /\ ~AskedNext(w, s, m.iter)'
    BY <1>0, <2>4, <2>5 DEF LeftOutNext, AskedNext
  <2>7. m.iter < Len(pushed'[w])
    BY <1>0, <1>1, <2>4
  <2>8. QED
    BY <2>6, <2>7 DEF AddIntact
<1>8. AddsIntact'
  <2>1. \A s \in Servers : \A m \in Messages(toServer'[w][s]) : AddIntact(w, s, m)'
    BY <1>7 DEF AddIntact
  <2>2. ASSUME NEW v \in Workers, v # w, NEW s \in Servers
        PROVE  \A m \in Messages(toServer'[v][s]) : AddIntact(v, s, m)'
    BY <1>0, <1>4, <2>2, OthersStayIntact
  <2>3. QED
    BY <2>1, <2>2 DEF AddsIntact
<1>9. QED
  BY <1>3, <1>5, <1>6, <1>8 DEF LoopInv

LEMMA LoopInvClock ==
    ASSUME BatchesAssumption, Inv, LoopInv, NEW w \in Workers, Clock(w)
    PROVE  LoopInv'
<1>0. /\ TypeOK /\ LoopTyped /\ IterationsCounted /\ AddsIntact /\ AlteredOnlyUnasked
      /\ at[w] = "clock" /\ ClientClock(w) /\ clock[w] \in Iters
      /\ clock' = [clock EXCEPT ![w] = @ + 1]
      /\ at' = [at EXCEPT ![w] = "get"]
      /\ UNCHANGED <<future_keys, deltas, memory, pushed, altered>>
  BY DEF Inv, ClockInv, LoopInv, Clock, ClientClock, IterationsCounted, InIteration
<1>1. LoopTyped'
  BY <1>0 DEF LoopTyped
<1>2. /\ at'[w] = "get" /\ clock'[w] = clock[w] + 1 /\ clock[w] \in Nat
      /\ \A v \in Workers : v # w => at'[v] = at[v] /\ clock'[v] = clock[v]
  BY <1>0, TableAssumption DEF LoopTyped, TypeOK, KVTypeOK, Iters
<1>3. IterationsCounted'
  <2> SUFFICES ASSUME NEW v \in Workers
               PROVE  /\ InIteration(v)' => clock'[v] \in Iters
                      /\ Len(pushed'[v]) = IF at'[v] = "clock" THEN clock'[v] + 1 ELSE clock'[v]
                      /\ deltas'[v].block <= IF at'[v] \in {"add", "clock"} THEN clock'[v] + 1 ELSE clock'[v]
    BY DEF IterationsCounted
  <2>1. CASE v = w
    BY <1>0, <1>2, <2>1 DEF IterationsCounted, InIteration
  <2>2. CASE v # w
    BY <1>0, <1>2, <2>2 DEF IterationsCounted, InIteration
  <2>3. QED
    BY <2>1, <2>2
<1>4. AlteredOnlyUnasked'
  BY <1>0 DEF AlteredOnlyUnasked
<1>5. ASSUME NEW v \in Workers, v # w, NEW s \in Servers
      PROVE  \A m \in Messages(toServer'[v][s]) : AddIntact(v, s, m)'
  <2>1. toServer'[v][s] = toServer[v][s]
    BY <1>0, <1>5, ClockEffect, TypedParts
  <2>2. QED
    BY <1>0, <1>2, <1>5, <2>1, OthersStayIntact
<1>6. ASSUME NEW s \in Servers, NEW m \in Messages(toServer'[w][s]), m.flag = "kAdd"
      PROVE  AddIntact(w, s, m)'
  <2>1. m \in Messages(toServer[w][s])
    <3> DEFINE c == [flag |-> "kClock", keys |-> {}, iter |-> clock[w]]
    <3>1. c.flag = "kClock"
      OBVIOUS
    <3>2. Messages(toServer'[w][s]) = Messages(toServer[w][s]) \cup {c}
      BY <1>0, ClockEffect, TypedParts
    <3> HIDE DEF c
    <3>3. QED
      BY <1>6, <3>1, <3>2
  <2>2. m.iter \in Nat /\ clock[w] \in Nat /\ AddIntact(w, s, m)
    BY <1>0, <2>1, MessageIter DEF AddsIntact
  <2>3. /\ Intact(w, m.iter)' <=> Intact(w, m.iter)
        /\ LeftOutNext(w, s, m.iter)' <=> LeftOutNext(w, s, m.iter)
        /\ AskedNext(w, s, m.iter)' <=> AskedNext(w, s, m.iter)
    BY <1>0 DEF Intact, LeftOutNext, AskedNext
  <2>4. ASSUME m.iter < clock'[w], AskedNext(w, s, m.iter)
        PROVE  NotYetOverwritten(w, s, m.iter)'
    <3>1. ~(m.iter < clock[w])
      BY <1>0, <1>6, <2>2, <2>4 DEF AddIntact, NotYetOverwritten
    <3>2. clock'[w] = m.iter + 1
      BY <1>2, <2>2, <2>4, <3>1
    <3>3. QED
      BY <1>2, <3>2 DEF NotYetOverwritten
  <2>5. QED
    BY <1>0, <1>6, <2>2, <2>3, <2>4 DEF AddIntact
<1>7. AddsIntact'
  <2>1. \A s \in Servers : \A m \in Messages(toServer'[w][s]) : AddIntact(w, s, m)'
    BY <1>6 DEF AddIntact
  <2>2. QED
    BY <1>5, <2>1 DEF AddsIntact
<1>8. QED
  BY <1>1, <1>3, <1>4, <1>7 DEF LoopInv

LEMMA LoopInvAdd ==
    ASSUME BatchesAssumption, Inv, LoopInv, NEW w \in Workers, Add(w)
    PROVE  LoopInv'
<1> DEFINE K == future_keys[w][clock[w]]
           p == [block |-> deltas[w].block, holds |-> memory[w][deltas[w].block]]
<1>0. /\ TypeOK /\ LoopTyped /\ IterationsCounted /\ AddsIntact /\ AlteredOnlyUnasked
      /\ at[w] = "add" /\ clock[w] \in Iters
      /\ Send(w, "kAdd", K)
      /\ pushed' = [pushed EXCEPT ![w] = Append(@, p)]
      /\ at' = [at EXCEPT ![w] = "clock"]
      /\ UNCHANGED <<clock, future_keys, deltas, memory, altered>>
  <2>1. TypeOK /\ LoopTyped /\ IterationsCounted /\ AddsIntact /\ AlteredOnlyUnasked
    BY DEF Inv, ClockInv, LoopInv
  <2>2. at[w] = "add" /\ ClientAdd(w, K)
    BY DEF Add
  <2>3. clock[w] \in Iters
    BY <2>1, <2>2 DEF IterationsCounted, InIteration
  <2>4. Send(w, "kAdd", K) /\ UNCHANGED clock
    BY <2>2 DEF ClientAdd
  <2>5. /\ pushed' = [pushed EXCEPT ![w] = Append(@, p)]
        /\ at' = [at EXCEPT ![w] = "clock"]
        /\ UNCHANGED <<future_keys, deltas, memory, altered>>
    BY DEF Add
  <2>6. QED
    BY <2>1, <2>2, <2>3, <2>4, <2>5
<1>1. K \in SUBSET Keys
  BY <1>0, BatchTyped
<1>2. /\ p \in Pushed /\ pushed[w] \in Seq(Pushed)
      /\ Len(pushed[w]) = clock[w] /\ clock[w] \in Nat
  <2>1. deltas[w].block \in Blocks
    BY <1>0 DEF LoopTyped
  <2>2. memory[w][deltas[w].block] \in SUBSET Iters
    BY <1>0, <2>1 DEF LoopTyped
  <2>3. p \in Pushed
    BY <2>1, <2>2 DEF Pushed
  <2>4. QED
    BY <1>0, <2>3, TableAssumption DEF LoopTyped, IterationsCounted, Iters
<1> HIDE DEF K
<1>3. /\ Append(pushed[w], p) \in Seq(Pushed)
      /\ Len(Append(pushed[w], p)) = clock[w] + 1
      /\ \A i \in 1 .. clock[w] : Append(pushed[w], p)[i] = pushed[w][i]
      /\ Append(pushed[w], p)[clock[w] + 1] = p
  BY <1>2, AppendProperties
<1>4. /\ at'[w] = "clock" /\ pushed'[w] = Append(pushed[w], p)
      /\ \A v \in Workers : v # w => at'[v] = at[v] /\ pushed'[v] = pushed[v]
  BY <1>0 DEF LoopTyped
<1>5. p.block = deltas[w].block /\ p.holds = memory[w][deltas[w].block]
  OBVIOUS
<1> HIDE DEF p
<1>6. LoopTyped'
  BY <1>0, <1>3 DEF LoopTyped
<1>7. IterationsCounted'
  <2> SUFFICES ASSUME NEW v \in Workers
               PROVE  /\ InIteration(v)' => clock'[v] \in Iters
                      /\ Len(pushed'[v]) = IF at'[v] = "clock" THEN clock'[v] + 1 ELSE clock'[v]
                      /\ deltas'[v].block <= IF at'[v] \in {"add", "clock"} THEN clock'[v] + 1 ELSE clock'[v]
    BY DEF IterationsCounted
  <2>1. CASE v = w
    <3>1. deltas[w].block <= clock[w] + 1
      BY <1>0 DEF IterationsCounted
    <3>2. QED
      BY <1>0, <1>3, <1>4, <2>1, <3>1
  <2>2. CASE v # w
    BY <1>0, <1>4, <2>2 DEF IterationsCounted, InIteration
  <2>3. QED
    BY <2>1, <2>2
<1>8. AlteredOnlyUnasked'
  BY <1>0 DEF AlteredOnlyUnasked
<1>9. ASSUME NEW v \in Workers, v # w, NEW s \in Servers
      PROVE  \A m \in Messages(toServer'[v][s]) : AddIntact(v, s, m)'
  <2>1. toServer'[v][s] = toServer[v][s]
    BY <1>0, <1>1, <1>9, SendEffect, TypedParts
  <2>2. QED
    BY <1>0, <1>4, <1>9, <2>1, OthersStayIntact
<1>10. ASSUME NEW s \in Servers, NEW m \in Messages(toServer'[w][s]), m.flag = "kAdd"
       PROVE  AddIntact(w, s, m)'
  <2> DEFINE a == Slice(w, "kAdd", K, s)
  <2>1. a.iter = clock[w]
    BY DEF Slice
  <2>2. \/ m \in Messages(toServer[w][s])
        \/ m = a
    <3>1. \/ toServer'[w][s] = toServer[w][s]
          \/ Messages(toServer'[w][s]) = Messages(toServer[w][s]) \cup {a}
      BY <1>0, <1>1, SendEffect, TypedParts
    <3> HIDE DEF a
    <3>2. QED
      BY <1>10, <3>1
  <2> HIDE DEF a
  <2>3. CASE m = a
    <3>1. m.iter = clock[w]
      BY <2>1, <2>3
    <3>2. pushed'[w][m.iter + 1] = p
      BY <1>3, <1>4, <3>1
    <3>3. Intact(w, m.iter)'
      BY <1>0, <1>5, <3>2 DEF Intact
    <3>4. m.iter < Len(pushed'[w]) /\ ~(m.iter < clock'[w])
      BY <1>0, <1>2, <1>3, <1>4, <3>1
    <3>5. QED
      BY <3>3, <3>4 DEF AddIntact
  <2>4. CASE m \in Messages(toServer[w][s])
    <3>1. m.iter \in Nat /\ clock[w] \in Nat /\ AddIntact(w, s, m)
      BY <1>0, <2>4, MessageIter DEF AddsIntact
    <3>2. m.iter < clock[w]
      BY <1>2, <1>10, <3>1 DEF AddIntact
    <3>3. pushed'[w][m.iter + 1] = pushed[w][m.iter + 1]
      BY <1>2, <1>3, <1>4, <3>1, <3>2
    <3>4. /\ Intact(w, m.iter)' <=> Intact(w, m.iter)
          /\ LeftOutNext(w, s, m.iter)' <=> LeftOutNext(w, s, m.iter)
          /\ AskedNext(w, s, m.iter)' <=> AskedNext(w, s, m.iter)
      BY <1>0, <3>3 DEF Intact, LeftOutNext, AskedNext
    <3>5. ~AskedNext(w, s, m.iter)
      BY <1>0, <1>10, <3>1, <3>2 DEF AddIntact, NotYetOverwritten
    <3>6. m.iter < Len(pushed'[w])
      BY <1>2, <1>3, <1>4, <3>1, <3>2
    <3>7. QED
      BY <1>10, <3>1, <3>4, <3>5, <3>6 DEF AddIntact
  <2>5. QED
    BY <2>2, <2>3, <2>4
<1>11. AddsIntact'
  <2>1. \A s \in Servers : \A m \in Messages(toServer'[w][s]) : AddIntact(w, s, m)'
    BY <1>10 DEF AddIntact
  <2>2. QED
    BY <1>9, <2>1 DEF AddsIntact
<1>12. QED
  BY <1>6, <1>7, <1>8, <1>11 DEF LoopInv

\* A server that takes a message of w leaves the Adds behind it intact: when the
\* next Get of w asks it, that request is the last in the channel.
LEMMA LoopInvDequeue ==
    ASSUME Inv, LoopInv, NEW s \in Servers, NEW w \in Workers,
           toServer[w][s] # <<>>, Dequeue(s, w),
           UNCHANGED <<clock, at, future_keys, deltas, memory, pushed>>
    PROVE  LoopTyped' /\ IterationsCounted' /\ AddsIntact'
<1>0. TypeOK /\ GetsLocated /\ LoopTyped /\ IterationsCounted /\ AddsIntact
  BY DEF Inv, ClockInv, GetInv, LoopInv
<1>1. LoopTyped' /\ IterationsCounted'
  BY <1>0 DEF LoopTyped, IterationsCounted, InIteration
<1>2. ASSUME NEW v \in Workers, NEW x \in Servers, v # w \/ x # s
      PROVE  \A m \in Messages(toServer'[v][x]) : AddIntact(v, x, m)'
  <2>1. toServer'[v][x] = toServer[v][x]
    BY <1>0, <1>2, DequeueEffect, TypedParts
  <2>2. Sent(v, x)' <=> Sent(v, x)
    BY <2>1 DEF Sent
  <2>3. \A m \in Messages(toServer'[v][x]) : AddIntact(v, x, m)
    BY <1>0, <2>1 DEF AddsIntact
  <2>4. QED
    BY <2>2, <2>3, AddStaysIntact
<1>3. ASSUME NEW m \in Messages(toServer'[w][s]) PROVE AddIntact(w, s, m)'
  <2>1. toServer[w][s] \in Seq(Request) /\ toServer'[w][s] = Tail(toServer[w][s])
    BY <1>0 DEF TypeOK, KVTypeOK, Dequeue
  <2>2. Messages(toServer[w][s]) = Messages(toServer'[w][s]) \cup {Head(toServer[w][s])}
    BY <1>0, DequeueEffect, TypedParts
  <2>3. AddIntact(w, s, m)
    BY <1>0, <1>3, <2>2 DEF AddsIntact
  <2>4. Head(toServer[w][s]).flag # "kGet"
    <3>1. /\ Head(toServer[w][s]) = toServer[w][s][1]
          /\ Len(toServer[w][s]) \in Nat \ {0}
          /\ Len(toServer'[w][s]) = Len(toServer[w][s]) - 1
      BY <2>1, PopOne
    <3>2. toServer'[w][s] # <<>>
      BY <1>3, EmptySeq DEF Messages
    <3>3. Len(toServer'[w][s]) # 0
      BY <2>1, <3>2, PopOne, EmptySeq
    <3> DEFINE n == Len(toServer[w][s])
    <3>4. n \in Nat \ {0} /\ n - 1 # 0
      BY <3>1, <3>3
    <3> HIDE DEF n
    <3>5. 1 \in 1 .. n - 1
      BY <3>4
    <3>6. 1 \in 1 .. Len(toServer[w][s]) - 1
      BY <3>5 DEF n
    <3>7. QED
      BY <1>0, <3>1, <3>6 DEF GetsLocated, Located
  <2>5. Sent(w, s) => Sent(w, s)'
    BY <2>2, <2>4 DEF Sent
  <2>6. QED
    BY <2>3, <2>5, AddStaysIntact
<1>4. AddsIntact'
  BY <1>2, <1>3 DEF AddsIntact
<1>5. QED
  BY <1>1, <1>4

\* What the server sums up is what Add was given, unless the next Get of the
\* worker leaves this server out.
LEMMA LoopInvApply ==
    ASSUME Inv, LoopInv, NEW s \in Servers, NEW w \in Workers, ApplyAdd(s, w)
    PROVE  LoopInv'
<1> DEFINE m == Head(toServer[w][s])
           a == [server |-> s, worker |-> w, iter |-> m.iter]
<1>0. /\ TypeOK /\ AddsIntact /\ AlteredOnlyUnasked
      /\ toServer[w][s] # <<>> /\ m.flag = "kAdd" /\ Dequeue(s, w)
      /\ UNCHANGED <<clock, at, future_keys, deltas, memory, pushed>>
      /\ altered' = IF Intact(w, m.iter) THEN altered ELSE altered \cup {a}
  BY DEF Inv, ClockInv, LoopInv, ApplyAdd, ServerAdd, Received, Intact, clientVars
<1>1. LoopTyped' /\ IterationsCounted' /\ AddsIntact'
  BY <1>0, LoopInvDequeue
<1>2. m \in Messages(toServer[w][s])
  BY <1>0, DequeueEffect, TypedParts
<1>3. a.server = s /\ a.worker = w /\ a.iter = m.iter
  OBVIOUS
<1> HIDE DEF a, m
<1>4. Intact(w, m.iter) \/ LeftOutNext(w, s, m.iter)
  BY <1>0, <1>2 DEF AddsIntact, AddIntact
<1>5. AlteredOnlyUnasked'
  BY <1>0, <1>3, <1>4 DEF AlteredOnlyUnasked, LeftOutNext
<1>6. QED
  BY <1>1, <1>5 DEF LoopInv

\* A step that leaves the loops and the requests alone.
LEMMA LoopInvUntouched ==
    ASSUME LoopInv,
           UNCHANGED <<toServer, clock, at, future_keys, deltas, memory, pushed, altered>>
    PROVE  LoopInv'
<1>1. LoopTyped' /\ IterationsCounted'
  BY DEF LoopInv, LoopTyped, IterationsCounted, InIteration
<1>2. AddsIntact'
  BY DEF LoopInv, AddsIntact, AddIntact, Intact, LeftOutNext, AskedNext, NotYetOverwritten, Sent
<1>3. AlteredOnlyUnasked'
  BY DEF LoopInv, AlteredOnlyUnasked
<1>4. QED
  BY <1>1, <1>2, <1>3 DEF LoopInv

LEMMA LoopInvOther ==
    ASSUME Inv, LoopInv, NEW s \in Servers, NEW w \in Workers,
           ServerClock(s, w) \/ ServerGet(s, w) \/ Helper(s, w), UNCHANGED loopVars
    PROVE  LoopInv'
<1>0. /\ UNCHANGED <<clock, at, future_keys, deltas, memory, pushed, altered>>
  BY DEF ServerClock, ServerGet, Helper, HelperResponse, clientVars, loopVars
<1>1. AlteredOnlyUnasked'
  BY <1>0 DEF LoopInv, AlteredOnlyUnasked
<1>2. CASE ServerClock(s, w) \/ ServerGet(s, w)
  <2>1. toServer[w][s] # <<>> /\ Dequeue(s, w)
    BY <1>2 DEF ServerClock, ServerGet, Received
  <2>2. QED
    BY <1>0, <1>1, <2>1, LoopInvDequeue DEF LoopInv
<1>3. CASE Helper(s, w)
  <2>1. UNCHANGED toServer
    BY <1>3 DEF Helper, HelperResponse
  <2>2. QED
    BY <1>0, <2>1, LoopInvUntouched
<1>4. QED
  BY <1>2, <1>3

-----------------------------------------------------------------------------
(* The theorems                                                             *)

BothInv == Inv /\ LoopInv

LEMMA BothInvNext == BatchesAssumption /\ BothInv /\ [GradientNext]_gradientVars => BothInv'
<1> SUFFICES ASSUME BatchesAssumption, Inv, LoopInv, [GradientNext]_gradientVars
             PROVE  Inv' /\ LoopInv'
  BY DEF BothInv
<1>1. Inv'
  BY LoopRunsTable, InvNext
<1>2. ASSUME NEW w \in Workers, Lambda(w) PROVE LoopInv'
  BY <1>2, LoopInvGet, LoopInvTrain, LoopInvAdd, LoopInvClock, LoopInvFinalGet DEF Lambda
<1>3. ASSUME NEW s \in Servers, NEW w \in Workers,
             \/ ApplyAdd(s, w)
             \/ (ServerClock(s, w) \/ ServerGet(s, w) \/ Helper(s, w)) /\ UNCHANGED loopVars
      PROVE  LoopInv'
  BY <1>3, LoopInvApply, LoopInvOther
<1>4. CASE UNCHANGED gradientVars
  <2>1. UNCHANGED <<toServer, clock, at, future_keys, deltas, memory, pushed, altered>>
    BY <1>4 DEF gradientVars, loopVars, vars, kvVars, clientVars
  <2>2. QED
    BY <1>1, <2>1, LoopInvUntouched
<1>5. QED
  BY <1>1, <1>2, <1>3, <1>4 DEF GradientNext

LEMMA BothInvAlways == BatchesAssumption => (GradientSpec => []BothInv)
<1>1. GradientInit => BothInv
  BY InvInit, LoopInvInit DEF GradientInit, BothInv
<1>2. SUFFICES ASSUME BatchesAssumption PROVE GradientSpec => []BothInv
  OBVIOUS
<1>3. BothInv /\ [GradientNext]_gradientVars => BothInv'
  BY <1>2, BothInvNext
<1>4. QED
  BY <1>1, <1>3, PTL DEF GradientSpec

\* The training loop uses its table as SSPTable describes the use of one.
THEOREM GradientLoopRunsTable == BatchesAssumption => (GradientSpec => Spec)
<1>1. SUFFICES ASSUME BatchesAssumption PROVE GradientSpec => Spec
  OBVIOUS
<1>2. GradientSpec => []BothInv
  BY <1>1, BothInvAlways
<1>3. BothInv /\ [GradientNext]_gradientVars => [Next]_vars
  BY <1>1, LoopRunsTable DEF BothInv
<1>4. GradientInit => Init
  BY DEF GradientInit
<1>5. QED
  BY <1>2, <1>3, <1>4, PTL DEF GradientSpec, Spec

\* So its gradients are computed from parameters that hold all updates of more
\* than Staleness iterations ago, and those of the worker itself (SSPModel::Get).
THEOREM GradientsFromFreshAnswers ==
    BatchesAssumption => (GradientSpec => [](AnswersFreshEnough /\ AnswersHoldOwnAdds))
BY GradientLoopRunsTable, AnswersAlwaysFresh, AnswersAlwaysHoldOwnAdds, PTL

\* examples2/logistic_regression.cpp writes deltas again, block and all, while
\* messages of the iteration before may still point into it.  A server applies
\* something else than what Add was given only if it has no key of the batch that
\* the Get in between asked for: any other server had to take the Add off the
\* channel first, before it could answer and let the worker train again.
THEOREM AlteredOnlyWhenUnasked ==
    BatchesAssumption => (GradientSpec => []AlteredOnlyUnasked)
<1>1. BothInv => AlteredOnlyUnasked
  BY DEF BothInv, LoopInv
<1>2. QED
  BY <1>1, BothInvAlways, PTL
=============================================================================
