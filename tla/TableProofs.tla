--------------------------- MODULE TableProofs --------------------------
(***************************************************************************)
(* Lemmas about the parts that the tables of all consistency models share:   *)
(* sequences of messages, the progress tracker, what the steps of workers     *)
(* and servers do to the channels, and the layer of the inductive invariants  *)
(* that does not depend on the model: types, exact minima, and channels that   *)
(* tell how far their worker's clock is ahead of the progress counted for it.  *)
(***************************************************************************)
EXTENDS Table, SequenceTheorems, FiniteSetTheorems, TLAPS

\* What a step of a client does to one channel: nothing, or one message more.
LEMMA PushOne ==
    ASSUME NEW q \in Seq(Request), NEW m \in Request
    PROVE  /\ Append(q, m) \in Seq(Request)
           /\ Append(q, m) # <<>>
           /\ Len(Append(q, m)) = Len(q) + 1
           /\ Len(q) \in Nat
           /\ \A i \in 1 .. Len(q) : Append(q, m)[i] = q[i]
           /\ Append(q, m)[Len(q) + 1] = m
BY AppendProperties, LenProperties

LEMMA PopOne ==
    ASSUME NEW q \in Seq(Request), q # <<>>
    PROVE  /\ Head(q) = q[1] /\ Head(q) \in Request
           /\ Tail(q) \in Seq(Request)
           /\ Len(q) \in Nat \ {0}
           /\ Len(Tail(q)) = Len(q) - 1
           /\ \A i \in 1 .. Len(q) - 1 : Tail(q)[i] = q[i + 1]
BY HeadTailProperties, EmptySeq

LEMMA MessagesPush ==
    ASSUME NEW S, NEW q \in Seq(S), NEW m \in S
    PROVE  Messages(Append(q, m)) = Messages(q) \cup {m}
<1> DEFINE r == Append(q, m)
<1>1. /\ Len(q) \in Nat /\ Len(r) = Len(q) + 1
      /\ \A i \in 1 .. Len(q) : r[i] = q[i]
      /\ r[Len(q) + 1] = m
  BY AppendProperties, LenProperties
<1> HIDE DEF r
<1>2. ASSUME NEW x \in Messages(r) PROVE x \in Messages(q) \cup {m}
  <2>1. PICK i \in 1 .. Len(r) : x = r[i]
    BY DEF Messages
  <2>2. CASE i = Len(q) + 1
    BY <1>1, <2>1, <2>2
  <2>3. CASE i \in 1 .. Len(q)
    BY <1>1, <2>1, <2>3 DEF Messages
  <2>4. QED
    BY <1>1, <2>2, <2>3
<1>3. ASSUME NEW x \in Messages(q) PROVE x \in Messages(r)
  <2>1. PICK i \in 1 .. Len(q) : x = q[i]
    BY DEF Messages
  <2>2. i \in 1 .. Len(r) /\ x = r[i]
    BY <1>1, <2>1
  <2>3. QED
    BY <2>2 DEF Messages
<1>4. m \in Messages(r)
  <2>1. Len(r) \in 1 .. Len(r) /\ r[Len(r)] = m
    BY <1>1
  <2>2. QED
    BY <2>1 DEF Messages
<1>5. Messages(r) = Messages(q) \cup {m}
  BY <1>2, <1>3, <1>4
<1>6. QED
  BY <1>5 DEF r

LEMMA MessagesPop ==
    ASSUME NEW S, NEW q \in Seq(S), q # <<>>
    PROVE  Messages(q) = Messages(Tail(q)) \cup {Head(q)}
<1> DEFINE r == Tail(q)
<1>1. /\ Len(q) \in Nat \ {0} /\ Len(r) = Len(q) - 1
      /\ \A i \in 1 .. Len(r) : r[i] = q[i + 1]
      /\ Head(q) = q[1]
  BY HeadTailProperties, EmptySeq
<1> HIDE DEF r
<1>2. ASSUME NEW x \in Messages(q) PROVE x \in Messages(r) \cup {q[1]}
  <2>1. PICK i \in 1 .. Len(q) : x = q[i]
    BY DEF Messages
  <2>2. CASE i = 1
    BY <2>1, <2>2
  <2>3. CASE i # 1
    <3>1. i - 1 \in 1 .. Len(r) /\ r[i - 1] = x
      BY <1>1, <2>1, <2>3
    <3>2. QED
      BY <3>1 DEF Messages
  <2>4. QED
    BY <2>2, <2>3
<1>3. ASSUME NEW x \in Messages(r) PROVE x \in Messages(q)
  <2>1. PICK i \in 1 .. Len(r) : x = r[i]
    BY DEF Messages
  <2>2. i + 1 \in 1 .. Len(q) /\ x = q[i + 1]
    BY <1>1, <2>1
  <2>3. QED
    BY <2>2 DEF Messages
<1>4. q[1] \in Messages(q)
  <2>1. 1 \in 1 .. Len(q)
    BY <1>1
  <2>2. QED
    BY <2>1 DEF Messages
<1>5. Messages(q) = Messages(r) \cup {q[1]}
  BY <1>2, <1>3, <1>4
<1>6. QED
  BY <1>1, <1>5 DEF r

LEMMA MessagesType ==
    ASSUME NEW S, NEW q \in Seq(S)
    PROVE  Messages(q) \subseteq S /\ (q = <<>> <=> Messages(q) = {})
<1>1. Messages(q) \subseteq S
  BY ElementOfSeq DEF Messages
<1>2. q = <<>> => Messages(q) = {}
  BY EmptySeq DEF Messages
<1>3. q # <<>> => Messages(q) # {}
  BY MessagesPop
<1>4. QED
  BY <1>1, <1>2, <1>3

-----------------------------------------------------------------------------
(* Channels and clocks                                                      *)

LEMMA ClockAfterType ==
    ASSUME NEW q \in Seq(Request)
    PROVE  \A i \in 1 .. Len(q) : /\ q[i].iter \in Int
                                  /\ ClockAfter(q[i]) \in Int
                                  /\ q[i].iter <= ClockAfter(q[i])
<1>1. MaxClock \in Nat
  BY TableAssumption
<1>2. \A i \in 1 .. Len(q) : q[i] \in Request
  BY ElementOfSeq
<1>3. \A m \in Request : m.iter \in Int /\ ClockAfter(m) \in Int /\ m.iter <= ClockAfter(m)
  BY <1>1 DEF Request, Clocks, ClockAfter
<1>4. QED
  BY <1>2, <1>3

LEMMA TellsTimePush ==
    ASSUME NEW q \in Seq(Request), NEW m \in Request, NEW p \in Int, NEW c \in Int,
           TellsTime(q, p, c), m.iter = c
    PROVE  TellsTime(Append(q, m), p, ClockAfter(m))
<1> DEFINE r == Append(q, m)
<1>0. \A i \in 1 .. Len(q) : /\ q[i].iter \in Int
                             /\ ClockAfter(q[i]) \in Int
                             /\ q[i].iter <= ClockAfter(q[i])
  BY ClockAfterType
<1>1. /\ r \in Seq(Request) /\ r # <<>>
      /\ Len(q) \in Nat /\ Len(r) = Len(q) + 1
      /\ \A i \in 1 .. Len(q) : r[i] = q[i]
      /\ r[Len(q) + 1] = m
  BY PushOne
<1> HIDE DEF r
<1>2. r[1].iter = p
  <2>1. CASE q = <<>>
    BY <1>1, <2>1, EmptySeq DEF TellsTime
  <2>2. CASE q # <<>>
    BY <1>1, <2>2, EmptySeq DEF TellsTime
  <2>3. QED
    BY <2>1, <2>2
<1>3. Len(q) >= 1 => ClockAfter(q[Len(q)]) = c
  BY EmptySeq DEF TellsTime
<1>4. \A i \in 1 .. Len(q) : ClockAfter(q[i]) <= c
  <2> TAKE i \in 1 .. Len(q)
  <2>1. CASE i = Len(q)
    BY <1>0, <1>1, <1>3, <2>1
  <2>2. CASE i < Len(q)
    <3>1. ClockAfter(q[i]) <= q[Len(q)].iter
      BY <1>1, <2>2 DEF TellsTime
    <3>2. Len(q) \in 1 .. Len(q)
      BY <1>1, <2>2
    <3>3. QED
      BY <1>0, <1>1, <1>3, <3>1, <3>2
  <2>3. QED
    BY <2>1, <2>2, <1>1
<1>5. \A i \in 1 .. Len(r) - 1 : r[i + 1].iter = ClockAfter(r[i])
  <2> TAKE i \in 1 .. Len(r) - 1
  <2>1. CASE i = Len(q)
    BY <1>1, <1>3, <2>1
  <2>2. CASE i < Len(q)
    BY <1>1, <2>2 DEF TellsTime
  <2>3. QED
    BY <2>1, <2>2, <1>1
<1>6. \A i, j \in 1 .. Len(r) : i < j => ClockAfter(r[i]) <= r[j].iter
  <2> SUFFICES ASSUME NEW i \in 1 .. Len(r), NEW j \in 1 .. Len(r), i < j
               PROVE  ClockAfter(r[i]) <= r[j].iter
    OBVIOUS
  <2>1. CASE j = Len(q) + 1
    <3>1. i \in 1 .. Len(q) /\ r[i] = q[i] /\ r[j] = m
      BY <1>1, <2>1
    <3>2. QED
      BY <1>4, <3>1
  <2>2. CASE j <= Len(q)
    <3>1. i \in 1 .. Len(q) /\ j \in 1 .. Len(q) /\ r[i] = q[i] /\ r[j] = q[j]
      BY <1>1, <2>2
    <3>2. QED
      BY <3>1 DEF TellsTime
  <2>3. QED
    BY <2>1, <2>2, <1>1
<1>7. QED
  BY <1>1, <1>2, <1>5, <1>6 DEF r, TellsTime

LEMMA TellsTimePop ==
    ASSUME NEW q \in Seq(Request), q # <<>>, NEW p \in Int, NEW c \in Int, TellsTime(q, p, c)
    PROVE  TellsTime(Tail(q), ClockAfter(Head(q)), c) /\ Head(q).iter = p
<1> DEFINE r == Tail(q)
<1>1. /\ Head(q) = q[1] /\ r \in Seq(Request)
      /\ Len(q) \in Nat \ {0} /\ Len(r) = Len(q) - 1
      /\ \A i \in 1 .. Len(q) - 1 : r[i] = q[i + 1]
  BY PopOne
<1>2. r = <<>> => Len(r) = 0
  BY EmptySeq
<1>3. r # <<>> => Len(r) >= 1
  BY <1>1, EmptySeq
<1> HIDE DEF r
<1>4. q[1].iter = p /\ ClockAfter(q[Len(q)]) = c
  BY DEF TellsTime
<1>5. r = <<>> => ClockAfter(q[1]) = c
  <2>1. r = <<>> => Len(q) = 1
    BY <1>1, <1>2
  <2>2. QED
    BY <1>4, <2>1
<1>6. r # <<>> => r[1].iter = ClockAfter(q[1]) /\ ClockAfter(r[Len(r)]) = c
  <2> SUFFICES ASSUME r # <<>> PROVE r[1].iter = ClockAfter(q[1]) /\ ClockAfter(r[Len(r)]) = c
    OBVIOUS
  <2>1. r[1] = q[2] /\ r[Len(r)] = q[Len(q)]
    BY <1>1, <1>3
  <2>2. q[1 + 1].iter = ClockAfter(q[1])
    BY <1>1, <1>3 DEF TellsTime
  <2>3. QED
    BY <1>1, <1>4, <2>1, <2>2
<1>7. \A i \in 1 .. Len(r) - 1 : r[i + 1].iter = ClockAfter(r[i])
  BY <1>1 DEF TellsTime
<1>8. \A i, j \in 1 .. Len(r) : i < j => ClockAfter(r[i]) <= r[j].iter
  <2> SUFFICES ASSUME NEW i \in 1 .. Len(r), NEW j \in 1 .. Len(r), i < j
               PROVE  ClockAfter(r[i]) <= r[j].iter
    OBVIOUS
  <2>1. r[i] = q[i + 1] /\ r[j] = q[j + 1] /\ i + 1 \in 1 .. Len(q) /\ j + 1 \in 1 .. Len(q)
    BY <1>1
  <2>2. QED
    BY <2>1 DEF TellsTime
<1>9. QED
  BY <1>1, <1>4, <1>5, <1>6, <1>7, <1>8 DEF TellsTime, r

\* The channel of a lagging server bounds its progress and dates its messages.
LEMMA TellsTimeBounds ==
    ASSUME NEW q \in Seq(Request), NEW p \in Int, NEW c \in Int, TellsTime(q, p, c)
    PROVE  /\ p <= c
           /\ \A i \in 1 .. Len(q) : p <= q[i].iter /\ ClockAfter(q[i]) <= c
<1>2. CASE q = <<>>
  BY <1>2, EmptySeq DEF TellsTime
<1>3. CASE q # <<>>
  <2>1. Len(q) \in Nat /\ Len(q) >= 1
    BY <1>3, EmptySeq
  <2>2. \A i \in 1 .. Len(q) : /\ q[i].iter \in Int
                               /\ ClockAfter(q[i]) \in Int
                               /\ q[i].iter <= ClockAfter(q[i])
    BY ClockAfterType
  <2>3. \A i \in 1 .. Len(q) : i = Len(q) \/ ClockAfter(q[i]) <= q[Len(q)].iter
    BY <2>1 DEF TellsTime
  <2>4. \A i \in 1 .. Len(q) : i = 1 \/ ClockAfter(q[1]) <= q[i].iter
    BY <2>1 DEF TellsTime
  <2>5. q[1].iter = p /\ ClockAfter(q[Len(q)]) = c
    BY <1>3 DEF TellsTime
  <2>6. 1 \in 1 .. Len(q) /\ Len(q) \in 1 .. Len(q)
    BY <2>1
  <2>7. \A i \in 1 .. Len(q) : ClockAfter(q[i]) <= c
    BY <2>2, <2>3, <2>5, <2>6
  <2>8. \A i \in 1 .. Len(q) : p <= q[i].iter
    BY <2>2, <2>4, <2>5, <2>6
  <2>9. QED
    BY <2>2, <2>6, <2>5, <2>7, <2>8
<1>4. QED
  BY <1>2, <1>3

-----------------------------------------------------------------------------
(* The tracker                                                              *)

\* ProgressTracker: moving the cached minimum only when the one thread at the
\* minimum advances keeps it exact.
LEMMA AdvanceKeepsMinimum ==
    ASSUME NEW T, NEW pt \in [progresses : [T -> Nat], min_clock : Nat], NEW t \in T,
           MinimumCached(pt)
    PROVE  MinimumCached(Advance(pt, t))
<1> DEFINE new == Advance(pt, t)
<1>0. PICK u \in T : pt.progresses[u] = pt.min_clock
  BY DEF MinimumCached
<1>1. /\ DOMAIN new.progresses = T
      /\ new.progresses[t] = pt.progresses[t] + 1
      /\ \A v \in T : v # t => new.progresses[v] = pt.progresses[v]
  BY DEF Advance
<1>2. CASE IsUniqueMin(pt, t)
  <2>1. new.min_clock = pt.min_clock + 1
    BY <1>2 DEF Advance
  <2>2. pt.progresses[t] = pt.min_clock /\ \A v \in T : v # t => pt.progresses[v] # pt.min_clock
    BY <1>2 DEF IsUniqueMin
  <2>3. \A v \in T : new.progresses[v] >= new.min_clock
    BY <1>1, <2>1, <2>2 DEF MinimumCached
  <2>4. QED
    BY <1>1, <2>1, <2>2, <2>3 DEF MinimumCached
<1>3. CASE ~IsUniqueMin(pt, t)
  <2>1. new.min_clock = pt.min_clock
    BY <1>3 DEF Advance
  <2>2. PICK v \in T : v # t /\ pt.progresses[v] = pt.min_clock
    BY <1>0, <1>3 DEF IsUniqueMin
  <2>3. \A x \in T : new.progresses[x] >= new.min_clock
    BY <1>1, <2>1 DEF MinimumCached
  <2>4. new.progresses[v] = new.min_clock
    BY <1>1, <2>1, <2>2
  <2>5. QED
    BY <1>1, <2>3, <2>4 DEF MinimumCached
<1>4. QED
  BY <1>2, <1>3

-----------------------------------------------------------------------------
(* What steps do to the channels                                            *)

\* The message of one call of w to s.
Slice(w, flag, K, s) == [flag |-> flag, keys |-> SliceOf(K, s), iter |-> clock[w]]

\* What the slices of one call add to the channels of its worker.
LEMMA SendEffect ==
    ASSUME KVTypeOK, NEW w \in Workers, NEW K \in SUBSET Keys, NEW s \in Servers,
           NEW flag \in {"kGet", "kAdd"}, Send(w, flag, K)
    PROVE  /\ Slice(w, flag, K, s) \in Request
           /\ s \in Involved(K) =>
                 /\ toServer'[w][s] = Append(toServer[w][s], Slice(w, flag, K, s))
                 /\ Messages(toServer'[w][s]) = Messages(toServer[w][s]) \cup {Slice(w, flag, K, s)}
           /\ s \notin Involved(K) => toServer'[w][s] = toServer[w][s]
           /\ \A v \in Workers : v # w => toServer'[v][s] = toServer[v][s]
<1>1. Slice(w, flag, K, s) \in Request /\ toServer[w][s] \in Seq(Request)
  BY DEF KVTypeOK, Request, SliceOf, Slice
<1>2. /\ s \in Involved(K) => toServer'[w][s] = Append(toServer[w][s], Slice(w, flag, K, s))
      /\ s \notin Involved(K) => toServer'[w][s] = toServer[w][s]
      /\ \A v \in Workers : v # w => toServer'[v][s] = toServer[v][s]
  BY DEF Send, KVTypeOK, Slice
<1>3. Messages(Append(toServer[w][s], Slice(w, flag, K, s))) =
         Messages(toServer[w][s]) \cup {Slice(w, flag, K, s)}
  BY <1>1, MessagesPush
<1>4. QED
  BY <1>1, <1>2, <1>3

LEMMA ClockEffect ==
    ASSUME KVTypeOK, NEW w \in Workers, ClientClock(w)
    PROVE  \A s \in Servers :
              LET m == [flag |-> "kClock", keys |-> {}, iter |-> clock[w]]
              IN  /\ m \in Request
                  /\ toServer'[w][s] = Append(toServer[w][s], m)
                  /\ Messages(toServer'[w][s]) = Messages(toServer[w][s]) \cup {m}
                  /\ \A v \in Workers : v # w => toServer'[v][s] = toServer[v][s]
<1> TAKE s \in Servers
<1> DEFINE m == [flag |-> "kClock", keys |-> {}, iter |-> clock[w]]
<1>1. m \in Request /\ toServer[w][s] \in Seq(Request)
  BY DEF KVTypeOK, Request
<1>2. /\ toServer'[w][s] = Append(toServer[w][s], m)
      /\ \A v \in Workers : v # w => toServer'[v][s] = toServer[v][s]
  BY DEF ClientClock, ClockedServers, KVTypeOK
<1> HIDE DEF m
<1>3. Messages(Append(toServer[w][s], m)) = Messages(toServer[w][s]) \cup {m}
  BY <1>1, MessagesPush
<1>4. QED
  BY <1>1, <1>2, <1>3 DEF m

\* What a server's step takes off the channels.
LEMMA DequeueEffect ==
    ASSUME KVTypeOK, NEW s \in Servers, NEW w \in Workers,
           toServer[w][s] # <<>>, Dequeue(s, w)
    PROVE  /\ Messages(toServer[w][s]) = Messages(toServer'[w][s]) \cup {Head(toServer[w][s])}
           /\ Head(toServer[w][s]) \in Request
           /\ \A v \in Workers, x \in Servers :
                 (v # w \/ x # s) => toServer'[v][x] = toServer[v][x]
<1>1. toServer[w][s] \in Seq(Request) /\ toServer'[w][s] = Tail(toServer[w][s])
  BY DEF Dequeue, KVTypeOK
<1>2. \A v \in Workers, x \in Servers :
         (v # w \/ x # s) => toServer'[v][x] = toServer[v][x]
  BY DEF Dequeue, KVTypeOK
<1>3. Head(toServer[w][s]) \in Request
  BY <1>1, HeadTailProperties
<1>4. QED
  BY <1>1, <1>2, <1>3, MessagesPop

\* The answers to parked or arriving Gets are well formed.
LEMMA ReplyType ==
    ASSUME KVTypeOK, NEW s \in Servers, NEW adds \in SUBSET Increment,
           NEW reqs \in SUBSET Pending, Reply(s, adds, reqs)
    PROVE  toWorker' \in [Servers -> [Workers -> Seq(Answer)]]
<1> DEFINE own(w) == {r \in reqs : r.sender = w}
           ans(w) == StorageGet(adds, (CHOOSE r \in own(w) : TRUE).keys)
<1>1. ASSUME NEW w \in Workers, own(w) # {} PROVE ans(w) \in Answer
  <2>1. (CHOOSE r \in own(w) : TRUE) \in Pending
    BY <1>1
  <2>2. (CHOOSE r \in own(w) : TRUE).keys \in SUBSET Keys
    BY <2>1 DEF Pending
  <2>3. QED
    BY <2>2 DEF StorageGet, Answer
<1> DEFINE f == [w \in Workers |-> IF own(w) = {} THEN toWorker[s][w]
                                   ELSE Append(toWorker[s][w], ans(w))]
<1>2. toWorker' = [toWorker EXCEPT ![s] = f]
  BY DEF Reply, KVTypeOK
<1> HIDE DEF ans, own
<1>3. ASSUME NEW w \in Workers PROVE f[w] \in Seq(Answer)
  <2>1. toWorker[s][w] \in Seq(Answer)
    BY DEF KVTypeOK
  <2>2. own(w) # {} => Append(toWorker[s][w], ans(w)) \in Seq(Answer)
    BY <1>1, <2>1, AppendProperties
  <2>3. QED
    BY <2>1, <2>2
<1>4. f \in [Workers -> Seq(Answer)]
  BY <1>3
<1>5. QED
  BY <1>2, <1>4 DEF KVTypeOK

\* Who gets an answer when a server replies to reqs, and which.
LEMMA ReplyEffect ==
    ASSUME KVTypeOK, NEW s \in Servers, NEW adds,
           NEW reqs \in SUBSET Pending, Reply(s, adds, reqs)
    PROVE  /\ \A v \in Workers :
                 (\E r \in reqs : r.sender = v) =>
                     \E r \in reqs : /\ r.sender = v
                                    /\ toWorker'[s][v] = Append(toWorker[s][v], StorageGet(adds, r.keys))
           /\ \A v \in Workers :
                 (\A r \in reqs : r.sender # v) => toWorker'[s][v] = toWorker[s][v]
           /\ \A x \in Servers : x # s => toWorker'[x] = toWorker[x]
<1> DEFINE own(v) == {r \in reqs : r.sender = v}
<1>1. ASSUME NEW v \in Workers
      PROVE  toWorker'[s][v] =
                IF own(v) = {} THEN toWorker[s][v]
                ELSE Append(toWorker[s][v], StorageGet(adds, (CHOOSE r \in own(v) : TRUE).keys))
  BY DEF Reply, KVTypeOK
<1>2. \A x \in Servers : x # s => toWorker'[x] = toWorker[x]
  BY DEF Reply, KVTypeOK
<1>3. ASSUME NEW v \in Workers, \E r \in reqs : r.sender = v
      PROVE  \E r \in reqs : /\ r.sender = v
                             /\ toWorker'[s][v] = Append(toWorker[s][v], StorageGet(adds, r.keys))
  <2>1. own(v) # {}
    BY <1>3
  <2>2. (CHOOSE r \in own(v) : TRUE) \in own(v)
    BY <2>1
  <2>3. (CHOOSE r \in own(v) : TRUE) \in reqs /\ (CHOOSE r \in own(v) : TRUE).sender = v
    BY <2>2
  <2>4. QED
    BY <1>1, <2>1, <2>3
<1>4. ASSUME NEW v \in Workers, \A r \in reqs : r.sender # v
      PROVE  toWorker'[s][v] = toWorker[s][v]
  BY <1>1, <1>4
<1>5. QED
  BY <1>2, <1>3, <1>4

-----------------------------------------------------------------------------
(* Types, exact minima, channels that tell time                             *)

TimeInv == KVTypeOK /\ ServerTypeOK /\ MinClockExact /\ ChannelsTellTime

LEMMA TimeInvInit == KVInit /\ ServerInit => TimeInv
<1> SUFFICES ASSUME KVInit, ServerInit PROVE TimeInv
  OBVIOUS
<1>0. 0 \in Clocks /\ Workers # {}
  BY TableAssumption DEF Clocks
<1>1. KVTypeOK /\ ServerTypeOK
  BY <1>0 DEF ServerInit, KVInit, KVTypeOK, ServerTypeOK, TrackerInit
<1>2. MinClockExact
  BY <1>0 DEF ServerInit, MinClockExact, MinimumCached, TrackerInit
<1>3. ChannelsTellTime
  BY EmptySeq DEF ServerInit, KVInit, ChannelsTellTime, TellsTime, TrackerInit, Progress
<1>4. QED
  BY <1>1, <1>2, <1>3 DEF TimeInv

LEMMA TimeInvGet ==
    ASSUME TimeInv, NEW w \in Workers, NEW K \in GetKeys, ClientGet(w, K), UNCHANGED <<progress_tracker, storage>>
    PROVE  TimeInv'
<1> DEFINE m(s) == [flag |-> "kGet", keys |-> SliceOf(K, s), iter |-> clock[w]]
<1>0. KVTypeOK /\ ServerTypeOK /\ ChannelsTellTime
  BY DEF TimeInv
<1>1. Cardinality(Involved(K)) \in Nat
  <2>1. Involved(K) \subseteq Servers
    BY TableAssumption DEF Involved
  <2>2. QED
    BY <2>1, TableAssumption, FS_Subset, FS_CardinalityType
<1>2. \A s \in Servers : m(s) \in Request /\ m(s).iter = clock[w] /\ ClockAfter(m(s)) = clock[w]
  BY <1>0, TableAssumption DEF KVTypeOK, Request, SliceOf, ClockAfter
<1>3. \A v \in Workers, s \in Servers :
         \/ toServer'[v][s] = toServer[v][s]
         \/ v = w /\ toServer'[v][s] = Append(toServer[v][s], m(s))
  BY <1>0 DEF ClientGet, Send, KVTypeOK
<1> HIDE DEF m
<1>4. toServer' \in [Workers -> [Servers -> Seq(Request)]]
  <2>1. toServer' = [v \in Workers |-> [s \in Servers |-> toServer'[v][s]]]
    BY <1>0 DEF ClientGet, Send, KVTypeOK
  <2>2. ASSUME NEW v \in Workers, NEW s \in Servers PROVE toServer'[v][s] \in Seq(Request)
    <3>1. toServer[v][s] \in Seq(Request) /\ m(s) \in Request
      BY <1>0, <1>2 DEF KVTypeOK
    <3>2. QED
      BY <1>3, <3>1, PushOne
  <2>3. QED
    BY <2>1, <2>2
<1>5. KVTypeOK' /\ ServerTypeOK'
  BY <1>0, <1>1, <1>4, TableAssumption DEF ClientGet, NumReqs, ServerTypeOK, KVTypeOK
<1>6. MinClockExact'
  BY DEF TimeInv, MinClockExact
<1>7. ChannelsTellTime'
  <2> SUFFICES ASSUME NEW v \in Workers, NEW s \in Servers
               PROVE  TellsTime(toServer'[v][s], Progress(s, v), clock[v])
    BY DEF ChannelsTellTime, ClientGet, Progress
  <2>1. toServer[v][s] \in Seq(Request) /\ Progress(s, v) \in Int /\ clock[v] \in Int
    BY <1>0 DEF KVTypeOK, ServerTypeOK, Progress, Clocks
  <2>2. TellsTime(toServer[v][s], Progress(s, v), clock[v])
    BY <1>0 DEF ChannelsTellTime
  <2>3. QED
    BY <1>2, <1>3, <2>1, <2>2, TellsTimePush
<1>8. QED
  BY <1>5, <1>6, <1>7 DEF TimeInv

LEMMA TimeInvAdd ==
    ASSUME TimeInv, NEW w \in Workers, NEW K \in AddKeys, ClientAdd(w, K), UNCHANGED <<progress_tracker, storage>>
    PROVE  TimeInv'
<1> DEFINE m(s) == [flag |-> "kAdd", keys |-> SliceOf(K, s), iter |-> clock[w]]
<1>0. KVTypeOK /\ ServerTypeOK /\ ChannelsTellTime
  BY DEF TimeInv
<1>2. \A s \in Servers : m(s) \in Request /\ m(s).iter = clock[w] /\ ClockAfter(m(s)) = clock[w]
  BY <1>0, TableAssumption DEF KVTypeOK, Request, SliceOf, ClockAfter
<1>3. \A v \in Workers, s \in Servers :
         \/ toServer'[v][s] = toServer[v][s]
         \/ v = w /\ toServer'[v][s] = Append(toServer[v][s], m(s))
  BY <1>0 DEF ClientAdd, Send, KVTypeOK
<1> HIDE DEF m
<1>4. toServer' \in [Workers -> [Servers -> Seq(Request)]]
  <2>1. toServer' = [v \in Workers |-> [s \in Servers |-> toServer'[v][s]]]
    BY <1>0 DEF ClientAdd, Send, KVTypeOK
  <2>2. ASSUME NEW v \in Workers, NEW s \in Servers PROVE toServer'[v][s] \in Seq(Request)
    <3>1. toServer[v][s] \in Seq(Request) /\ m(s) \in Request
      BY <1>0, <1>2 DEF KVTypeOK
    <3>2. QED
      BY <1>3, <3>1, PushOne
  <2>3. QED
    BY <2>1, <2>2
<1>5. KVTypeOK' /\ ServerTypeOK'
  <2>1. \A k \in K : [worker |-> w, iter |-> clock[w], key |-> k] \in Increment
    BY <1>0, TableAssumption DEF KVTypeOK, Increment
  <2>2. issued' \in SUBSET Increment
    BY <1>0, <2>1 DEF ClientAdd, KVTypeOK
  <2>3. QED
    BY <1>0, <1>4, <2>2 DEF ClientAdd, ServerTypeOK, KVTypeOK
<1>6. MinClockExact'
  BY DEF TimeInv, MinClockExact
<1>7. ChannelsTellTime'
  <2> SUFFICES ASSUME NEW v \in Workers, NEW s \in Servers
               PROVE  TellsTime(toServer'[v][s], Progress(s, v), clock[v])
    BY DEF ChannelsTellTime, ClientAdd, Progress
  <2>1. toServer[v][s] \in Seq(Request) /\ Progress(s, v) \in Int /\ clock[v] \in Int
    BY <1>0 DEF KVTypeOK, ServerTypeOK, Progress, Clocks
  <2>2. TellsTime(toServer[v][s], Progress(s, v), clock[v])
    BY <1>0 DEF ChannelsTellTime
  <2>3. QED
    BY <1>2, <1>3, <2>1, <2>2, TellsTimePush
<1>8. QED
  BY <1>5, <1>6, <1>7 DEF TimeInv

LEMMA TimeInvClock ==
    ASSUME TimeInv, NEW w \in Workers, ClientClock(w), UNCHANGED <<progress_tracker, storage>>
    PROVE  TimeInv'
<1> DEFINE m == [flag |-> "kClock", keys |-> {}, iter |-> clock[w]]
<1>0. KVTypeOK /\ ServerTypeOK /\ ChannelsTellTime
  BY DEF TimeInv
<1>2. m \in Request /\ m.iter = clock[w] /\ ClockAfter(m) = clock[w] + 1
  BY <1>0 DEF KVTypeOK, Request, ClockAfter
<1>3. \A s \in Servers :
         /\ toServer'[w][s] = Append(toServer[w][s], m)
         /\ \A v \in Workers : v # w => toServer'[v][s] = toServer[v][s]
  BY <1>0 DEF ClientClock, ClockedServers, KVTypeOK
<1> HIDE DEF m
<1>4. toServer' \in [Workers -> [Servers -> Seq(Request)]]
  <2>1. toServer' = [v \in Workers |-> [s \in Servers |-> toServer'[v][s]]]
    BY <1>0 DEF ClientClock, ClockedServers, KVTypeOK
  <2>2. ASSUME NEW v \in Workers, NEW s \in Servers PROVE toServer'[v][s] \in Seq(Request)
    <3>1. toServer[v][s] \in Seq(Request)
      BY <1>0 DEF KVTypeOK
    <3>2. QED
      BY <1>2, <1>3, <3>1, PushOne
  <2>3. QED
    BY <2>1, <2>2
<1>5. KVTypeOK' /\ ServerTypeOK'
  <2>1. clock' \in [Workers -> Clocks]
    BY <1>0, TableAssumption DEF ClientClock, KVTypeOK, Clocks
  <2>2. QED
    BY <1>0, <1>4, <2>1 DEF ClientClock, ServerTypeOK, KVTypeOK
<1>6. MinClockExact'
  BY DEF TimeInv, MinClockExact
<1>7. ChannelsTellTime'
  <2> SUFFICES ASSUME NEW v \in Workers, NEW s \in Servers
               PROVE  TellsTime(toServer'[v][s], Progress(s, v), clock'[v])
    BY DEF ChannelsTellTime, Progress
  <2>1. toServer[v][s] \in Seq(Request) /\ Progress(s, v) \in Int /\ clock[v] \in Int
    BY <1>0 DEF KVTypeOK, ServerTypeOK, Progress, Clocks
  <2>2. TellsTime(toServer[v][s], Progress(s, v), clock[v])
    BY <1>0 DEF ChannelsTellTime
  <2>3. CASE v = w
    <3>1. clock'[v] = ClockAfter(m)
      BY <1>0, <1>2, <2>3 DEF ClientClock, ClockedServers, KVTypeOK
    <3>2. QED
      BY <1>2, <1>3, <2>1, <2>2, <2>3, <3>1, TellsTimePush
  <2>4. CASE v # w
    <3>1. clock'[v] = clock[v]
      BY <1>0, <2>4 DEF ClientClock, ClockedServers, KVTypeOK
    <3>2. QED
      BY <1>3, <2>2, <2>4, <3>1
  <2>5. QED
    BY <2>3, <2>4
<1>8. QED
  BY <1>5, <1>6, <1>7 DEF TimeInv

LEMMA TimeInvHelper ==
    ASSUME TimeInv, NEW s \in Servers, NEW w \in Workers, HelperResponse(s, w), UNCHANGED <<progress_tracker, storage>>
    PROVE  TimeInv'
<1>0. KVTypeOK /\ ServerTypeOK /\ ChannelsTellTime /\ MinClockExact
  BY DEF TimeInv
<1> DEFINE q == toWorker[s][w]
<1>1. q \in Seq(Answer) /\ q # <<>> /\ Head(q) \in Answer /\ Tail(q) \in Seq(Answer)
  <2>1. q \in Seq(Answer) /\ q # <<>>
    BY <1>0 DEF KVTypeOK, HelperResponse, HandleFinish, HandleMsg
  <2>2. QED
    BY <2>1, HeadTailProperties
<1>2. toWorker' \in [Servers -> [Workers -> Seq(Answer)]]
  BY <1>0, <1>1 DEF HelperResponse, HandleFinish, HandleMsg, KVTypeOK
<1>3. tracker' \in [Workers -> [expected : Nat, current : Nat]]
  BY <1>0 DEF HelperResponse, HandleFinish, HandleMsg, KVTypeOK
<1> DEFINE got == recv_kvs[w] \cup {Head(q)}
<1>4. got \subseteq Answer /\ UNION {m.adds : m \in got} \subseteq Increment
  <2>1. got \subseteq Answer
    BY <1>0, <1>1 DEF KVTypeOK
  <2>2. \A m \in got : m.adds \subseteq Increment
    BY <2>1 DEF Answer
  <2>3. QED
    BY <2>1, <2>2
<1>5. recv_kvs' \in [Workers -> SUBSET Answer] /\ vals' \in [Workers -> SUBSET Increment]
  BY <1>0, <1>4 DEF HelperResponse, HandleFinish, HandleMsg, KVTypeOK
<1>6. KVTypeOK' /\ ServerTypeOK'
  BY <1>0, <1>2, <1>3, <1>5 DEF HelperResponse, HandleFinish, HandleMsg, ServerTypeOK, KVTypeOK
<1>7. MinClockExact' /\ ChannelsTellTime'
  BY <1>0 DEF HelperResponse, HandleFinish, HandleMsg, MinClockExact, ChannelsTellTime, Progress
<1>8. QED
  BY <1>6, <1>7 DEF TimeInv

\* A server thread takes the next message of w: it is dated by the progress
\* counted so far, and the rest of the channel starts after it.
LEMMA Dequeued ==
    ASSUME TimeInv, NEW s \in Servers, NEW w \in Workers,
           toServer[w][s] # <<>>, Dequeue(s, w)
    PROVE  /\ toServer' \in [Workers -> [Servers -> Seq(Request)]]
           /\ \A v \in Workers, x \in Servers :
                 (v # w \/ x # s) => toServer'[v][x] = toServer[v][x]
           /\ toServer'[w][s] = Tail(toServer[w][s])
           /\ Head(toServer[w][s]) \in Request
           /\ Head(toServer[w][s]).iter = Progress(s, w)
           /\ TellsTime(Tail(toServer[w][s]), ClockAfter(Head(toServer[w][s])), clock[w])
           /\ ClockAfter(Head(toServer[w][s])) \in Int
           /\ ClockAfter(Head(toServer[w][s])) <= clock[w]
<1> DEFINE q == toServer[w][s]
<1>0. KVTypeOK /\ ServerTypeOK /\ ChannelsTellTime
  BY DEF TimeInv
<1>1. q \in Seq(Request) /\ Progress(s, w) \in Int /\ clock[w] \in Int
  BY <1>0 DEF KVTypeOK, ServerTypeOK, Progress, Clocks
<1>2. TellsTime(q, Progress(s, w), clock[w])
  BY <1>0 DEF ChannelsTellTime
<1>3. /\ Head(q) = q[1] /\ Head(q) \in Request
      /\ Tail(q) \in Seq(Request)
      /\ 1 \in 1 .. Len(q)
  BY <1>1, PopOne
<1>4. TellsTime(Tail(q), ClockAfter(Head(q)), clock[w]) /\ Head(q).iter = Progress(s, w)
  BY <1>1, <1>2, TellsTimePop
<1>5. ClockAfter(q[1]) <= clock[w] /\ ClockAfter(q[1]) \in Int
  BY <1>1, <1>2, <1>3, TellsTimeBounds, ClockAfterType
<1>6. toServer' \in [Workers -> [Servers -> Seq(Request)]]
  BY <1>0, <1>3 DEF Dequeue, KVTypeOK
<1>7. /\ \A v \in Workers, x \in Servers :
             (v # w \/ x # s) => toServer'[v][x] = toServer[v][x]
      /\ toServer'[w][s] = Tail(q)
  BY <1>0 DEF Dequeue, KVTypeOK
<1>8. QED
  BY <1>3, <1>4, <1>5, <1>6, <1>7

\* Channels still tell the time after s has handled the next message of w and
\* counted it.
LEMMA CountedTellsTime ==
    ASSUME TimeInv, NEW s \in Servers, NEW w \in Workers,
           toServer[w][s] # <<>>, Dequeue(s, w), UNCHANGED clock,
           Progress(s, w)' = ClockAfter(Head(toServer[w][s])),
           \A v \in Workers, x \in Servers :
               (v # w \/ x # s) => Progress(x, v)' = Progress(x, v)
    PROVE  ChannelsTellTime'
<1> SUFFICES ASSUME NEW v \in Workers, NEW x \in Servers
             PROVE  TellsTime(toServer'[v][x], Progress(x, v)', clock[v])
  BY DEF ChannelsTellTime
<1>1. CASE v = w /\ x = s
  BY <1>1, Dequeued
<1>2. CASE v # w \/ x # s
  <2>1. toServer'[v][x] = toServer[v][x] /\ Progress(x, v)' = Progress(x, v)
    BY <1>2, Dequeued
  <2>2. QED
    BY <2>1 DEF TimeInv, ChannelsTellTime
<1>3. QED
  BY <1>1, <1>2

\* A server counts a Clock, or answers or applies another message.
LEMMA TimeInvServer ==
    ASSUME TimeInv, NEW s \in Servers, NEW w \in Workers,
           toServer[w][s] # <<>>, Dequeue(s, w), UNCHANGED clientVars,
           toWorker' \in [Servers -> [Workers -> Seq(Answer)]],
           storage' \in [Servers -> SUBSET Increment],
           IF Head(toServer[w][s]).flag = "kClock"
           THEN progress_tracker' = [progress_tracker EXCEPT ![s] = Advance(@, w)]
           ELSE UNCHANGED progress_tracker
    PROVE  TimeInv'
<1> DEFINE m == Head(toServer[w][s])
           pt == progress_tracker[s]
<1>0. KVTypeOK /\ ServerTypeOK /\ MinClockExact
  BY DEF TimeInv
<1>1. m.iter = Progress(s, w) /\ toServer' \in [Workers -> [Servers -> Seq(Request)]]
  BY Dequeued
<1>2. KVTypeOK'
  BY <1>0, <1>1 DEF clientVars, KVTypeOK
<1>3. CASE m.flag # "kClock"
  <2>1. UNCHANGED progress_tracker
    BY <1>3
  <2>2. ServerTypeOK' /\ MinClockExact'
    BY <1>0, <2>1 DEF ServerTypeOK, MinClockExact
  <2>3. Progress(s, w)' = ClockAfter(m)
    BY <1>1, <1>3, <2>1 DEF Progress, ClockAfter
  <2>4. ChannelsTellTime'
    BY <2>1, <2>3, CountedTellsTime DEF Progress, clientVars
  <2>5. QED
    BY <1>2, <2>2, <2>4 DEF TimeInv
<1>4. CASE m.flag = "kClock"
  <2>1. ClockAfter(m) = Progress(s, w) + 1
    BY <1>1, <1>4 DEF ClockAfter
  <2>2. Progress(s, w) + 1 \in Clocks
    <3>1. Progress(s, w) \in Clocks /\ clock[w] \in Clocks
      BY <1>0 DEF ServerTypeOK, KVTypeOK, Progress
    <3>2. Progress(s, w) + 1 <= clock[w]
      BY <2>1, Dequeued
    <3>3. QED
      BY <3>1, <3>2, TableAssumption DEF Clocks
  <2>3. /\ pt \in [progresses : [Workers -> Clocks], min_clock : Clocks]
        /\ progress_tracker' = [progress_tracker EXCEPT ![s] = Advance(pt, w)]
    BY <1>0, <1>4 DEF ServerTypeOK
  <2>4. Advance(pt, w) \in [progresses : [Workers -> Clocks], min_clock : Clocks]
    BY <2>2, <2>3 DEF Advance, IsUniqueMin, Progress
  <2>5. ServerTypeOK'
    BY <1>0, <2>3, <2>4 DEF ServerTypeOK
  <2>6. MinClockExact'
    <3> SUFFICES ASSUME NEW x \in Servers PROVE MinimumCached(progress_tracker'[x])
      BY DEF MinClockExact
    <3>1. CASE x = s
      <4>1. progress_tracker'[x] = Advance(pt, w)
        BY <1>0, <2>3, <3>1 DEF ServerTypeOK
      <4>2. pt \in [progresses : [Workers -> Nat], min_clock : Nat]
        BY <2>3 DEF Clocks
      <4>3. QED
        BY <1>0, <4>1, <4>2, AdvanceKeepsMinimum DEF MinClockExact
    <3>2. CASE x # s
      BY <1>0, <2>3, <3>2 DEF MinClockExact, ServerTypeOK
    <3>3. QED
      BY <3>1, <3>2
  <2>7. Progress(s, w)' = ClockAfter(m)
    BY <1>0, <2>1, <2>3 DEF Advance, Progress, ServerTypeOK
  <2>8. \A v \in Workers, x \in Servers :
           (v # w \/ x # s) => Progress(x, v)' = Progress(x, v)
    BY <1>0, <2>3 DEF Advance, Progress, ServerTypeOK
  <2>9. ChannelsTellTime'
    BY <2>7, <2>8, CountedTellsTime DEF clientVars
  <2>10. QED
    BY <1>2, <2>5, <2>6, <2>9 DEF TimeInv
<1>5. QED
  BY <1>3, <1>4

\* A minimum that moves goes up by one, to a clock; it never goes down.
LEMMA AdvanceMoves ==
    ASSUME ServerTypeOK, NEW s \in Servers, NEW w \in Workers
    PROVE  /\ ChangedMinClock(progress_tracker[s], w) # -1
              => /\ ChangedMinClock(progress_tracker[s], w) = MinClock(s) + 1
                 /\ Advance(progress_tracker[s], w).min_clock = MinClock(s) + 1
           /\ ChangedMinClock(progress_tracker[s], w) = -1
              => Advance(progress_tracker[s], w).min_clock = MinClock(s)
BY DEF ServerTypeOK, ChangedMinClock, Advance, MinClock, Clocks

\* A minimum bounds the clock behind a channel and the requests in it.
LEMMA ChannelBounds ==
    ASSUME NEW mc \in Int, NEW p \in Int, NEW c \in Int, NEW q \in Seq(Request),
           TellsTime(q, p, c), mc <= p
    PROVE  mc <= c /\ \A m \in Messages(q) : mc <= m.iter
<1>1. /\ p <= c
      /\ \A i \in 1 .. Len(q) : p <= q[i].iter
  BY TellsTimeBounds
<1>2. \A i \in 1 .. Len(q) : q[i].iter \in Int
  BY ClockAfterType
<1>3. QED
  BY <1>1, <1>2 DEF Messages

\* The minimum of a server bounds the clocks of all workers and the iterations
\* of all requests on their way to it.
LEMMA MinClockBounds ==
    ASSUME TimeInv, NEW s \in Servers
    PROVE  /\ MinClock(s) \in Int
           /\ \A v \in Workers : /\ MinClock(s) <= clock[v]
                                 /\ \A m \in Messages(toServer[v][s]) : MinClock(s) <= m.iter
<1>0. KVTypeOK /\ ServerTypeOK
  BY DEF TimeInv
<1>1. /\ MinClock(s) \in Int
      /\ \A v \in Workers : Progress(s, v) \in Int /\ clock[v] \in Int
      /\ \A v \in Workers : toServer[v][s] \in Seq(Request)
  BY <1>0, TableAssumption DEF KVTypeOK, ServerTypeOK, MinClock, Progress, Clocks
<1>2. \A v \in Workers : MinClock(s) <= Progress(s, v)
  BY <1>0, <1>1 DEF TimeInv, MinClockExact, MinimumCached, MinClock, Progress, ServerTypeOK
<1>3. \A v \in Workers : TellsTime(toServer[v][s], Progress(s, v), clock[v])
  BY DEF TimeInv, ChannelsTellTime
<1>4. QED
  BY <1>1, <1>2, <1>3, ChannelBounds

\* So does a minimum that a Clock has just moved, for the Adds: the message
\* that is gone was no Add.
LEMMA MovedMinClockBounds ==
    ASSUME TimeInv, TimeInv', NEW s \in Servers, NEW w \in Workers, toServer[w][s] # <<>>,
           Head(toServer[w][s]).flag = "kClock", Dequeue(s, w), UNCHANGED clock
    PROVE  /\ MinClock(s)' \in Int
           /\ \A v \in Workers :
                 /\ MinClock(s)' <= clock[v]
                 /\ \A m \in Messages(toServer[v][s]) : m.flag = "kAdd" => MinClock(s)' <= m.iter
<1>0. KVTypeOK' /\ ServerTypeOK' /\ KVTypeOK
  BY DEF TimeInv
<1>1. /\ MinClock(s)' \in Int
      /\ \A v \in Workers : Progress(s, v)' \in Int /\ clock'[v] \in Int
      /\ \A v \in Workers : toServer'[v][s] \in Seq(Request)
  <2>1. MinClock(s)' \in Int /\ \A v \in Workers : Progress(s, v)' \in Int
    BY <1>0, TableAssumption DEF ServerTypeOK, MinClock, Progress, Clocks
  <2>2. clock' \in [Workers -> Clocks] /\ toServer' \in [Workers -> [Servers -> Seq(Request)]]
    BY <1>0 DEF KVTypeOK
  <2>3. QED
    BY <2>1, <2>2, TableAssumption DEF Clocks
<1>2. \A v \in Workers : MinClock(s)' <= Progress(s, v)'
  BY <1>0, <1>1 DEF TimeInv, MinClockExact, MinimumCached, MinClock, Progress, ServerTypeOK
<1>3. \A v \in Workers : TellsTime(toServer'[v][s], Progress(s, v)', clock'[v])
  BY <1>0 DEF TimeInv, ChannelsTellTime
<1>4. \A v \in Workers : /\ MinClock(s)' <= clock'[v]
                         /\ \A m \in Messages(toServer'[v][s]) : MinClock(s)' <= m.iter
  BY <1>1, <1>2, <1>3, ChannelBounds
<1>5. ASSUME NEW v \in Workers, NEW m \in Messages(toServer[v][s]), m.flag = "kAdd"
      PROVE  m \in Messages(toServer'[v][s])
  <2>1. CASE v = w
    BY <1>0, <1>5, <2>1, DequeueEffect
  <2>2. CASE v # w
    BY <1>0, <2>2, DequeueEffect
  <2>3. QED
    BY <2>1, <2>2
<1>6. QED
  BY <1>0, <1>1, <1>4, <1>5
=============================================================================
