----------------------------- MODULE EngineProofs -----------------------------
(***************************************************************************)
(* The Engine's tasks, for any number of nodes and tasks, any staleness and   *)
(* any lambdas that end with a Get.  What is between the parts is told by      *)
(* counting messages of a kind in the queues that they pass:                 *)
(*  - a node's worker ends when it has its answers; a Get is the last request  *)
(*    on its way from a worker to a server, so that then nothing of this        *)
(*    worker is on its way (FlowInv, PendingInv);                            *)
(*  - barrier_count is what the node has heard of the others' Barriers beyond   *)
(*    those it has left, so that nobody begins a task while a worker of the     *)
(*    one before it still runs (BarrierInv);                                 *)
(*  - a reset or its answer is on its way while the node waits for it, and       *)
(*    afterwards the tracker is that of the task (ResetInv);                   *)
(*  - an Add that was called is in the storage or on its way (StorageInv).      *)
(***************************************************************************)
EXTENDS Engine, SequenceTheorems, FiniteSetTheorems, TLAPS

\* How many messages of a queue are in X.
Count(q, X) == Cardinality({i \in 1 .. Len(q) : q[i] \in X})
One(x, X) == IF x \in X THEN 1 ELSE 0

\* Nothing of X is behind a message of G.
LastIn(q, G, X) == \A i, j \in 1 .. Len(q) : i < j /\ q[i] \in G => q[j] \notin X

-----------------------------------------------------------------------------
(* Counting the messages of a queue                                        *)

LEMMA CountBasics ==
    ASSUME NEW S, NEW q \in Seq(S), NEW X
    PROVE  /\ IsFiniteSet({i \in 1 .. Len(q) : q[i] \in X})
           /\ Count(q, X) \in Nat
           /\ Count(q, X) = 0 <=> \A i \in 1 .. Len(q) : q[i] \notin X
           /\ \A Y : X \subseteq Y => Count(q, X) <= Count(q, Y)
<1>1. Len(q) \in Nat
  BY LenProperties
<1>2. \A Y : {i \in 1 .. Len(q) : q[i] \in Y} \in SUBSET (1 .. Len(q))
  OBVIOUS
<1>3. IsFiniteSet(1 .. Len(q))
  BY <1>1, FS_Interval
<1>4. \A Y : IsFiniteSet({i \in 1 .. Len(q) : q[i] \in Y})
  BY <1>2, <1>3, FS_Subset
<1>5. Count(q, X) \in Nat
  BY <1>4, FS_CardinalityType DEF Count
<1>6. Count(q, X) = 0 <=> {i \in 1 .. Len(q) : q[i] \in X} = {}
  BY <1>4, FS_EmptySet DEF Count
<1>7. ASSUME NEW Y, X \subseteq Y PROVE Count(q, X) <= Count(q, Y)
  <2>1. {i \in 1 .. Len(q) : q[i] \in X} \in SUBSET {i \in 1 .. Len(q) : q[i] \in Y}
    BY <1>7
  <2>2. QED
    BY <1>4, <2>1, FS_Subset DEF Count
<1>8. QED
  BY <1>4, <1>5, <1>6, <1>7

LEMMA CountEmpty == ASSUME NEW X PROVE Count(<<>>, X) = 0
<1>1. <<>> \in Seq({}) /\ \A i \in 1 .. Len(<<>>) : <<>>[i] \notin X
  BY EmptySeq
<1>2. QED
  BY <1>1, CountBasics

\* The messages of q in X, told by a bijection from what a sum counts.
LEMMA CountConcat ==
    ASSUME NEW S, NEW q \in Seq(S), NEW r \in Seq(S), NEW X
    PROVE  /\ q \o r \in Seq(S)
           /\ Count(q \o r, X) = Count(q, X) + Count(r, X)
<1> DEFINE A == {i \in 1 .. Len(q) : q[i] \in X}
           B == {i \in 1 .. Len(r) : r[i] \in X}
           C == {i \in Len(q) + 1 .. Len(q) + Len(r) : (q \o r)[i] \in X}
           f == [i \in B |-> i + Len(q)]
<1>1. /\ Len(q) \in Nat /\ Len(r) \in Nat /\ q \o r \in Seq(S)
      /\ Len(q \o r) = Len(q) + Len(r)
      /\ \A i \in 1 .. Len(q) + Len(r) : (q \o r)[i] = IF i <= Len(q) THEN q[i] ELSE r[i - Len(q)]
  BY LenProperties, ConcatProperties
<1>2. {i \in 1 .. Len(q \o r) : (q \o r)[i] \in X} = A \cup C
  <2>1. \A i \in 1 .. Len(q) : (q \o r)[i] = q[i]
    BY <1>1
  <2>2. 1 .. Len(q \o r) = 1 .. Len(q) \cup Len(q) + 1 .. Len(q) + Len(r)
    BY <1>1
  <2>3. QED
    BY <2>1, <2>2
<1>3. A \cap C = {}
  BY <1>1
<1>4. IsFiniteSet(A) /\ IsFiniteSet(B)
  BY CountBasics
<1>5. f \in Bijection(B, C)
  <2>1. \A i \in B : i + Len(q) \in C
    BY <1>1
  <2>2. f \in [B -> C]
    BY <2>1
  <2>3. \A i, j \in B : f[i] = f[j] => i = j
    BY <1>1
  <2>4. \A j \in C : \E i \in B : f[i] = j
    <3> TAKE j \in C
    <3>1. j - Len(q) \in B /\ f[j - Len(q)] = j
      BY <1>1
    <3>2. QED
      BY <3>1
  <2>5. QED
    BY <2>2, <2>3, <2>4 DEF Bijection, Injection, Surjection, IsInjective
<1>6. IsFiniteSet(C) /\ Cardinality(C) = Cardinality(B)
  <2>1. ExistsBijection(B, C)
    BY <1>5 DEF ExistsBijection
  <2>2. QED
    BY <1>4, <2>1, FS_Bijection
<1>7. Cardinality(A \cup C) = Cardinality(A) + Cardinality(C) - Cardinality(A \cap C)
  BY <1>4, <1>6, FS_Union
<1>8. Cardinality(A \cap C) = 0 /\ Cardinality(A) \in Nat /\ Cardinality(C) \in Nat
  BY <1>3, <1>4, <1>6, FS_EmptySet, FS_CardinalityType
<1> HIDE DEF A, B, C, f
<1>9. Cardinality(A \cup C) = Cardinality(A) + Cardinality(B)
  BY <1>6, <1>7, <1>8
<1>10. QED
  BY <1>1, <1>2, <1>9 DEF A, B, Count

LEMMA CountSingle ==
    ASSUME NEW S, NEW q \in Seq(S), NEW X, NEW k \in 1 .. Len(q), q[k] \in X,
           \A i \in 1 .. Len(q) : q[i] \in X => i = k
    PROVE  Count(q, X) = 1
<1>1. {i \in 1 .. Len(q) : q[i] \in X} = {k}
  OBVIOUS
<1>2. QED
  BY <1>1, FS_Singleton DEF Count

LEMMA CountOne ==
    ASSUME NEW S, NEW x \in S, NEW X
    PROVE  <<x>> \in Seq(S) /\ Len(<<x>>) = 1 /\ <<x>>[1] = x /\ Count(<<x>>, X) = One(x, X)
<1> DEFINE r == <<x>>
<1>1. r \in Seq(S) /\ Len(r) = 1 /\ r[1] = x
  OBVIOUS
<1> HIDE DEF r
<1>2. \A i \in 1 .. Len(r) : i = 1
  BY <1>1
<1>3. CASE x \in X
  <2>1. 1 \in 1 .. Len(r) /\ r[1] \in X /\ \A i \in 1 .. Len(r) : r[i] \in X => i = 1
    BY <1>1, <1>2, <1>3
  <2>2. Count(r, X) = 1
    BY <1>1, <2>1, CountSingle
  <2>3. QED
    BY <1>1, <1>3, <2>2 DEF One, r
<1>4. CASE x \notin X
  <2>1. \A i \in 1 .. Len(r) : r[i] \notin X
    BY <1>1, <1>2, <1>4
  <2>2. Count(r, X) = 0
    BY <1>1, <2>1, CountBasics
  <2>3. QED
    BY <1>1, <1>4, <2>2 DEF One, r
<1>5. QED
  BY <1>3, <1>4

LEMMA CountAppend ==
    ASSUME NEW S, NEW q \in Seq(S), NEW x \in S, NEW X
    PROVE  /\ Append(q, x) \in Seq(S)
           /\ Count(Append(q, x), X) = Count(q, X) + One(x, X)
<1> DEFINE r == <<x>>
<1>1. Append(q, x) = q \o r /\ Append(q, x) \in Seq(S)
  BY AppendIsConcat, AppendProperties
<1>2. r \in Seq(S) /\ Count(r, X) = One(x, X)
  BY CountOne
<1> HIDE DEF r
<1>3. Count(q \o r, X) = Count(q, X) + Count(r, X)
  BY <1>2, CountConcat
<1>4. QED
  BY <1>1, <1>2, <1>3

LEMMA CountTail ==
    ASSUME NEW S, NEW q \in Seq(S), q # <<>>, NEW X
    PROVE  /\ Head(q) \in S /\ Tail(q) \in Seq(S)
           /\ Count(q, X) = One(Head(q), X) + Count(Tail(q), X)
<1> DEFINE h == <<Head(q)>>
           t == Tail(q)
           r == h \o t
<1>1. /\ Head(q) \in S /\ Head(q) = q[1] /\ t \in Seq(S) /\ Len(q) \in Nat \ {0}
      /\ Len(t) = Len(q) - 1
      /\ \A i \in 1 .. Len(t) : t[i] = q[i + 1]
  BY HeadTailProperties, EmptySeq
<1>2. h \in Seq(S) /\ Len(h) = 1 /\ h[1] = Head(q) /\ Count(h, X) = One(Head(q), X)
  BY <1>1, CountOne
<1> HIDE DEF h, t
<1>3. /\ r \in Seq(S) /\ Len(r) = Len(q) /\ Count(r, X) = Count(h, X) + Count(t, X)
      /\ \A i \in 1 .. Len(q) : r[i] = IF i <= 1 THEN h[i] ELSE t[i - 1]
  <2>1. /\ r \in Seq(S) /\ Len(r) = Len(h) + Len(t)
        /\ \A i \in 1 .. Len(h) + Len(t) : r[i] = IF i <= Len(h) THEN h[i] ELSE t[i - Len(h)]
    BY <1>1, <1>2, ConcatProperties
  <2>2. Len(h) + Len(t) = Len(q)
    BY <1>1, <1>2
  <2>3. QED
    BY <1>1, <1>2, <2>1, <2>2, CountConcat
<1> HIDE DEF r
<1>4. \A i \in 1 .. Len(q) : r[i] = q[i]
  <2> TAKE i \in 1 .. Len(q)
  <2>1. CASE i = 1
    BY <1>1, <1>2, <1>3, <2>1
  <2>2. CASE i > 1
    <3>1. i - 1 \in 1 .. Len(t) /\ (i - 1) + 1 = i
      BY <1>1, <2>2
    <3>2. r[i] = t[i - 1]
      BY <1>3, <2>2
    <3>3. QED
      BY <1>1, <3>1, <3>2
  <2>3. QED
    BY <2>1, <2>2
<1>5. r = q
  BY <1>3, <1>4, SeqEqual
<1>6. QED
  BY <1>1, <1>2, <1>3, <1>5 DEF t

-----------------------------------------------------------------------------
(* The order of a queue                                                    *)

LEMMA LastInConcat ==
    ASSUME NEW S, NEW q \in Seq(S), NEW r \in Seq(S), NEW G, NEW X,
           LastIn(q, G, X), LastIn(r, G, X), Count(q, G) = 0 \/ Count(r, X) = 0
    PROVE  LastIn(q \o r, G, X)
<1>1. /\ Len(q) \in Nat /\ Len(r) \in Nat
      /\ Len(q \o r) = Len(q) + Len(r)
      /\ \A i \in 1 .. Len(q) + Len(r) : (q \o r)[i] = IF i <= Len(q) THEN q[i] ELSE r[i - Len(q)]
  BY LenProperties, ConcatProperties
<1> SUFFICES ASSUME NEW i \in 1 .. Len(q) + Len(r), NEW j \in 1 .. Len(q) + Len(r), i < j,
                    (q \o r)[i] \in G
             PROVE  (q \o r)[j] \notin X
  BY <1>1 DEF LastIn
<1>2. CASE j <= Len(q)
  BY <1>1, <1>2 DEF LastIn
<1>3. CASE i > Len(q)
  <2>1. i - Len(q) \in 1 .. Len(r) /\ j - Len(q) \in 1 .. Len(r) /\ i - Len(q) < j - Len(q)
    BY <1>1, <1>3
  <2>2. QED
    BY <1>1, <1>3, <2>1 DEF LastIn
<1>4. CASE i <= Len(q) /\ j > Len(q)
  <2>1. i \in 1 .. Len(q) /\ q[i] \in G /\ j - Len(q) \in 1 .. Len(r) /\ (q \o r)[j] = r[j - Len(q)]
    BY <1>1, <1>4
  <2>2. Count(q, G) # 0
    BY <2>1, CountBasics
  <2>3. Count(r, X) = 0
    BY <2>2
  <2>4. QED
    BY <2>1, <2>3, CountBasics
<1>5. QED
  BY <1>1, <1>2, <1>3, <1>4

LEMMA LastInShort ==
    ASSUME NEW q, Len(q) \in {0, 1}, NEW G, NEW X
    PROVE  LastIn(q, G, X)
BY DEF LastIn

LEMMA LastInAppend ==
    ASSUME NEW S, NEW q \in Seq(S), NEW x \in S, NEW G, NEW X,
           LastIn(q, G, X), Count(q, G) = 0 \/ x \notin X
    PROVE  LastIn(Append(q, x), G, X)
<1> DEFINE r == <<x>>
<1>1. Append(q, x) = q \o r
  BY AppendIsConcat
<1>2. r \in Seq(S) /\ Len(r) = 1 /\ Count(r, X) = One(x, X)
  BY CountOne
<1> HIDE DEF r
<1>3. LastIn(r, G, X)
  BY <1>2, LastInShort
<1>4. Count(q, G) = 0 \/ Count(r, X) = 0
  BY <1>2 DEF One
<1>5. LastIn(q \o r, G, X)
  BY <1>2, <1>3, <1>4, LastInConcat
<1>6. QED
  BY <1>1, <1>5

LEMMA LastInTail ==
    ASSUME NEW S, NEW q \in Seq(S), q # <<>>, NEW G, NEW X, LastIn(q, G, X)
    PROVE  /\ LastIn(Tail(q), G, X)
           /\ Head(q) \in G => Count(Tail(q), X) = 0
<1>1. /\ Head(q) = q[1] /\ Tail(q) \in Seq(S) /\ Len(q) \in Nat \ {0}
      /\ Len(Tail(q)) = Len(q) - 1
      /\ \A i \in 1 .. Len(Tail(q)) : Tail(q)[i] = q[i + 1]
  BY HeadTailProperties, EmptySeq
<1>2. \A i \in 1 .. Len(Tail(q)) : i + 1 \in 1 .. Len(q) /\ 1 < i + 1
  BY <1>1
<1>3. LastIn(Tail(q), G, X)
  BY <1>1, <1>2 DEF LastIn
<1>4. Head(q) \in G => \A i \in 1 .. Len(Tail(q)) : Tail(q)[i] \notin X
  BY <1>1, <1>2 DEF LastIn
<1>5. QED
  BY <1>1, <1>3, <1>4, CountBasics

-----------------------------------------------------------------------------
(* The messages by their kinds, and where each kind may be                  *)

IsRequest(x) == x.at = "server" /\ x.adds = {} /\ x.flag \in {"kAdd", "kClock", "kGet"}

\* What worker w asks of server m, what servers answer it, the reset for its
\* task and the answer to that; what the main threads send.
Requests(w, m) == {x \in Message : IsRequest(x) /\ x.of = w /\ x.to = m}
Gets(w, m) == {x \in Requests(w, m) : x.flag = "kGet"}
Adds(w, m) == {x \in Requests(w, m) : x.flag = "kAdd"}
AnswersTo(w) == {x \in Message : x.at = "worker" /\ x.flag = "kGet" /\ x.of = w /\ x.to = w.node}
Resets(w) == {x \in Message : x.at = "server" /\ x.flag = "kReset" /\ x.of = w /\ x.to = w.node}
ResetsDone(w) == {x \in Message : x.at = "main" /\ x.flag = "kReset" /\ x.of = w /\ x.to = w.node}
Barriers == {x \in Message : x.at = "server" /\ x.flag = "kBarrier"}
Exits == {x \in Message : x.at = "server" /\ x.flag = "kExit"}

Sent(n) ==
    {x \in Message : \/ IsRequest(x) /\ x.of.node = n
                     \/ x \in Resets(x.of) /\ x.to = n
                     \/ x \in AnswersTo(x.of)
                     \/ x \in ResetsDone(x.of) /\ x.to = n
                     \/ x \in Exits}
OnWire(m, n) ==
    {x \in Message : /\ x.to = n
                     /\ \/ x \in Sent(m)
                        \/ x \in Barriers}
Work(n) ==
    {x \in Message : /\ x.to = n
                     /\ IsRequest(x) \/ x \in Resets(x.of) \/ x \in Exits}

QueuesTyped ==
    /\ send_queue \in [Nodes -> Seq(Message)]
    /\ wire \in [Nodes -> [Nodes -> Seq(Message)]]
    /\ work_queue \in [Nodes -> Seq(Message)]
    /\ \A n \in Nodes : send_queue[n] \in Seq(Sent(n))
    /\ \A m, n \in Nodes : wire[m][n] \in Seq(OnWire(m, n))
    /\ \A n \in Nodes : work_queue[n] \in Seq(Work(n))

\* Those of kind X that worker w has on their way to server m.
Asked(w, m, X) ==
    Count(send_queue[w.node], X) + Count(wire[w.node][m], X) + Count(work_queue[m], X)

-----------------------------------------------------------------------------
(* What a step does to a family of queues                                  *)

\* r is q with x added to queue n, with its head x taken off, with the messages
\* of s added.
Pushed(q, r, n, x) ==
    /\ r \in [Nodes -> Seq(Message)]
    /\ \A j \in Nodes : \A X : Count(r[j], X) = Count(q[j], X) + (IF j = n THEN One(x, X) ELSE 0)
    /\ \A j \in Nodes : \A G, X :
          LastIn(q[j], G, X) /\ (j # n \/ Count(q[j], G) = 0 \/ x \notin X) => LastIn(r[j], G, X)
    /\ \A j \in Nodes : \A T : q[j] \in Seq(T) /\ (j # n \/ x \in T) => r[j] \in Seq(T)

Popped(q, r, n, x) ==
    /\ r \in [Nodes -> Seq(Message)] /\ x \in Message
    /\ \A j \in Nodes : \A X : Count(q[j], X) = Count(r[j], X) + (IF j = n THEN One(x, X) ELSE 0)
    /\ \A j \in Nodes : \A G, X :
          LastIn(q[j], G, X) => LastIn(r[j], G, X) /\ (j = n /\ x \in G => Count(r[j], X) = 0)
    /\ \A j \in Nodes : \A T : q[j] \in Seq(T) => r[j] \in Seq(T) /\ (j = n => x \in T)

Extended(q, r, n, s) ==
    /\ r \in [Nodes -> Seq(Message)]
    /\ \A j \in Nodes : \A X : Count(r[j], X) = Count(q[j], X) + (IF j = n THEN Count(s, X) ELSE 0)
    /\ \A j \in Nodes : \A G, X :
          LastIn(q[j], G, X) /\ (j # n \/ Count(s, X) = 0 \/ (LastIn(s, G, X) /\ Count(q[j], G) = 0))
             => LastIn(r[j], G, X)
    /\ \A j \in Nodes : \A T : q[j] \in Seq(T) /\ (j # n \/ s \in Seq(T)) => r[j] \in Seq(T)

LEMMA PushEffect ==
    ASSUME NEW q \in [Nodes -> Seq(Message)], NEW n \in Nodes, NEW x \in Message,
           NEW r, r = [q EXCEPT ![n] = Append(@, x)]
    PROVE  Pushed(q, r, n, x)
<1>1. /\ r \in [Nodes -> Seq(Message)] /\ r[n] = Append(q[n], x)
      /\ \A j \in Nodes : j # n => r[j] = q[j]
  BY AppendProperties
<1>2. \A X : Count(r[n], X) = Count(q[n], X) + One(x, X)
  BY <1>1, CountAppend
<1>3. \A j \in Nodes : \A X : Count(r[j], X) = Count(q[j], X) + (IF j = n THEN One(x, X) ELSE 0)
  <2> TAKE j \in Nodes
  <2> TAKE X
  <2>1. Count(q[j], X) \in Nat
    BY CountBasics
  <2>2. QED
    BY <1>1, <1>2, <2>1
<1>4. \A G, X : LastIn(q[n], G, X) /\ (Count(q[n], G) = 0 \/ x \notin X) => LastIn(r[n], G, X)
  BY <1>1, LastInAppend
<1>5. \A T : x \in T /\ q[n] \in Seq(T) => r[n] \in Seq(T)
  BY <1>1, AppendProperties
<1>6. QED
  BY <1>1, <1>3, <1>4, <1>5 DEF Pushed

LEMMA PopEffect ==
    ASSUME NEW q \in [Nodes -> Seq(Message)], NEW n \in Nodes, q[n] # <<>>,
           NEW x, x = Head(q[n]), NEW r, r = [q EXCEPT ![n] = Tail(@)]
    PROVE  Popped(q, r, n, x)
<1>1. /\ r \in [Nodes -> Seq(Message)] /\ r[n] = Tail(q[n]) /\ x \in Message
      /\ \A j \in Nodes : j # n => r[j] = q[j]
  BY HeadTailProperties
<1>2. \A X : Count(q[n], X) = One(x, X) + Count(r[n], X)
  BY <1>1, CountTail
<1>3. \A j \in Nodes : \A X : Count(q[j], X) = Count(r[j], X) + (IF j = n THEN One(x, X) ELSE 0)
  <2> TAKE j \in Nodes
  <2> TAKE X
  <2>1. Count(q[j], X) \in Nat /\ Count(r[j], X) \in Nat /\ One(x, X) \in Nat
    BY <1>1, CountBasics DEF One
  <2>2. QED
    BY <1>1, <1>2, <2>1
<1>4. \A G, X : LastIn(q[n], G, X) => LastIn(r[n], G, X) /\ (x \in G => Count(r[n], X) = 0)
  BY <1>1, LastInTail
<1>5. \A T : q[n] \in Seq(T) => x \in T /\ r[n] \in Seq(T)
  BY <1>1, HeadTailProperties
<1>6. QED
  BY <1>1, <1>3, <1>4, <1>5 DEF Popped

LEMMA ExtendEffect ==
    ASSUME NEW q \in [Nodes -> Seq(Message)], NEW n \in Nodes, NEW s \in Seq(Message),
           NEW r, r = [q EXCEPT ![n] = @ \o s]
    PROVE  Extended(q, r, n, s)
<1>1. /\ r \in [Nodes -> Seq(Message)] /\ r[n] = q[n] \o s
      /\ \A j \in Nodes : j # n => r[j] = q[j]
  BY ConcatProperties
<1>2. \A X : Count(r[n], X) = Count(q[n], X) + Count(s, X)
  BY <1>1, CountConcat
<1>3. \A j \in Nodes : \A X : Count(r[j], X) = Count(q[j], X) + (IF j = n THEN Count(s, X) ELSE 0)
  <2> TAKE j \in Nodes
  <2> TAKE X
  <2>1. Count(q[j], X) \in Nat
    BY CountBasics
  <2>2. QED
    BY <1>1, <1>2, <2>1
<1>4. ASSUME NEW G, NEW X, LastIn(q[n], G, X),
             Count(s, X) = 0 \/ (LastIn(s, G, X) /\ Count(q[n], G) = 0)
      PROVE  LastIn(r[n], G, X)
  <2>1. Count(s, X) = 0 => LastIn(s, G, X)
    BY CountBasics DEF LastIn
  <2>2. QED
    BY <1>1, <1>4, <2>1, LastInConcat
<1>5. \A T : s \in Seq(T) /\ q[n] \in Seq(T) => r[n] \in Seq(T)
  BY <1>1, ConcatProperties
<1>6. QED
  BY <1>1, <1>3, <1>4, <1>5 DEF Extended

-----------------------------------------------------------------------------
(* The invariant                                                           *)

Places == {"run", "resetting", "reset", "starting", "working", "ending",
           "stopping", "joinReceiver", "joinSender", "stopped"}
Flags == {"kAdd", "kClock", "kGet"}
Tracker == UNION {[progresses : [T -> Nat], min_clock : Nat] : T \in SUBSET Thread}

StateTyped ==
    /\ pc \in [Nodes -> Places]
    /\ task \in [Nodes -> Tasks]
    /\ todo \in [Nodes -> Seq(Flags)]
    /\ pending \in [Nodes -> Nat]
    /\ running \in [Nodes -> SUBSET {"receiver", "sender", "server"}]
    /\ barrier_count \in [Nodes -> Nat]
    /\ progress_tracker \in [Nodes -> Tracker]
    /\ buffer \in [Nodes -> SUBSET [at : Nat, req : Message]]
    /\ storage \in [Nodes -> SUBSET Thread]
    /\ added \in SUBSET Thread

\* Where a worker is while it may call.
Active(w) == w.task = task[w.node] /\ pc[w.node] = "working"

Parked(w, m) == IF \E p \in buffer[m] : p.req.of = w THEN 1 ELSE 0
Answered(w, m) == Count(send_queue[m], AnswersTo(w)) + Count(wire[m][w.node], AnswersTo(w))
Outstanding(w, m) == Asked(w, m, Gets(w, m)) + Parked(w, m) + Answered(w, m)

\* A Get is the last request of w to m, wherever it is: nothing follows it in a
\* queue, and what it has left is empty.
GetIsLast(w, m) ==
    LET X == Requests(w, m)
        G == Gets(w, m)
        k == w.node
    IN  /\ LastIn(send_queue[k], G, X) /\ LastIn(wire[k][m], G, X) /\ LastIn(work_queue[m], G, X)
        /\ Count(wire[k][m], G) > 0 => Count(send_queue[k], X) = 0
        /\ Count(work_queue[m], G) > 0 => Count(send_queue[k], X) = 0 /\ Count(wire[k][m], X) = 0
        /\ Parked(w, m) + Answered(w, m) > 0 => Asked(w, m, X) = 0

\* A worker asks only while it works, and ends with a Get.
AsksOrders(w, m) ==
    /\ Outstanding(w, m) \in {0, 1}
    /\ ~Active(w) => Asked(w, m, Requests(w, m)) = 0 /\ Outstanding(w, m) = 0
    /\ todo[w.node] = <<>> /\ Asked(w, m, Requests(w, m)) > 0 => Asked(w, m, Gets(w, m)) > 0

FlowInv(w, m) == GetIsLast(w, m) /\ AsksOrders(w, m)

ParkedOnce ==
    \A n \in Nodes : /\ IsFiniteSet(buffer[n])
                     /\ \A p \in buffer[n] : p.req \in Gets(p.req.of, n)
                     /\ \A p, q \in buffer[n] : p.req = q.req => p = q

-----------------------------------------------------------------------------
(* Steps of the Sender, the receiver and the servers, for one worker and server *)

LEMMA CountsTyped ==
    ASSUME QueuesTyped
    PROVE  /\ \A j \in Nodes : \A X : Count(send_queue[j], X) \in Nat
           /\ \A i, j \in Nodes : \A X : Count(wire[i][j], X) \in Nat
           /\ \A j \in Nodes : \A X : Count(work_queue[j], X) \in Nat
           /\ \A j \in Nodes : \A X, Y : X \subseteq Y => Count(send_queue[j], X) <= Count(send_queue[j], Y)
           /\ \A i, j \in Nodes : \A X, Y : X \subseteq Y => Count(wire[i][j], X) <= Count(wire[i][j], Y)
           /\ \A j \in Nodes : \A X, Y : X \subseteq Y => Count(work_queue[j], X) <= Count(work_queue[j], Y)
<1>1. \A j \in Nodes : send_queue[j] \in Seq(Message) /\ work_queue[j] \in Seq(Message)
  BY DEF QueuesTyped
<1>2. \A i, j \in Nodes : wire[i][j] \in Seq(Message)
  BY DEF QueuesTyped
<1>3. \A q \in Seq(Message) : \A X, Y : Count(q, X) \in Nat /\ (X \subseteq Y => Count(q, X) <= Count(q, Y))
  BY CountBasics
<1>4. QED
  BY <1>1, <1>2, <1>3

\* What Sender::Send does: the head of the queue goes to the wire.
Forward(n) ==
    LET x == Head(send_queue[n])
    IN  /\ send_queue[n] # <<>> /\ x \notin Exits
        /\ send_queue' = [send_queue EXCEPT ![n] = Tail(@)]
        /\ wire' = [wire EXCEPT ![n][x.to] = Append(@, x)]
        /\ work_queue' = work_queue

LEMMA ForwardEffect ==
    ASSUME QueuesTyped, NEW n \in Nodes, Forward(n), NEW x, x = Head(send_queue[n])
    PROVE  /\ x \in Sent(n) /\ x \in Message /\ x.to \in Nodes
           /\ QueuesTyped'
           /\ Popped(send_queue, send_queue', n, x)
           /\ Pushed(wire[n], wire'[n], x.to, x)
           /\ \A i \in Nodes : i # n => wire'[i] = wire[i]
<1>1. /\ send_queue \in [Nodes -> Seq(Message)] /\ wire \in [Nodes -> [Nodes -> Seq(Message)]]
      /\ \A j \in Nodes : send_queue[j] \in Seq(Sent(j))
      /\ send_queue' = [send_queue EXCEPT ![n] = Tail(@)] /\ send_queue[n] # <<>>
      /\ wire' = [wire EXCEPT ![n][x.to] = Append(@, x)]
  BY DEF QueuesTyped, Forward
<1>2. Popped(send_queue, send_queue', n, x)
  BY <1>1, PopEffect
<1>3. /\ x \in Message /\ x \in Sent(n) /\ send_queue' \in [Nodes -> Seq(Message)]
      /\ \A j \in Nodes : send_queue'[j] \in Seq(Sent(j))
  BY <1>1, <1>2 DEF Popped
<1>4. x.to \in Nodes
  BY <1>3 DEF Message
<1>5. /\ wire[n] \in [Nodes -> Seq(Message)]
      /\ wire'[n] = [wire[n] EXCEPT ![x.to] = Append(@, x)]
      /\ \A i \in Nodes : i # n => wire'[i] = wire[i]
  BY <1>1, <1>4
<1>6. Pushed(wire[n], wire'[n], x.to, x)
  BY <1>3, <1>4, <1>5, PushEffect
<1>7. \A i, j \in Nodes : wire'[i][j] \in Seq(OnWire(i, j))
  <2>1. x \in OnWire(n, x.to)
    BY <1>3 DEF OnWire
  <2>2. \A j \in Nodes : wire[n][j] \in Seq(OnWire(n, j)) /\ (j # x.to \/ x \in OnWire(n, j))
    BY <2>1 DEF QueuesTyped
  <2>3. \A j \in Nodes : wire'[n][j] \in Seq(OnWire(n, j))
    BY <1>6, <2>2 DEF Pushed
  <2>4. QED
    BY <1>5, <2>3 DEF QueuesTyped
<1>8. wire' \in [Nodes -> [Nodes -> Seq(Message)]]
  <2>1. wire'[n] \in [Nodes -> Seq(Message)]
    BY <1>6 DEF Pushed
  <2>2. QED
    BY <1>1, <1>5, <2>1
<1>9. QueuesTyped'
  BY <1>3, <1>7, <1>8 DEF QueuesTyped, Forward
<1>10. QED
  BY <1>2, <1>3, <1>4, <1>5, <1>6, <1>9

\* What the Sender forwards is still on its way.
LEMMA ForwardConserves ==
    ASSUME QueuesTyped, NEW n \in Nodes, Forward(n), NEW i \in Nodes, NEW j \in Nodes,
           NEW X, \A y \in X : y.to = j
    PROVE  /\ Count(send_queue'[i], X) + Count(wire'[i][j], X)
                 = Count(send_queue[i], X) + Count(wire[i][j], X)
           /\ Count(send_queue'[i], X) \in Nat /\ Count(wire'[i][j], X) \in Nat
           /\ Count(send_queue[i], X) \in Nat /\ Count(wire[i][j], X) \in Nat
<1> DEFINE x == Head(send_queue[n])
<1>1. /\ QueuesTyped'
      /\ Popped(send_queue, send_queue', n, x)
      /\ Pushed(wire[n], wire'[n], x.to, x)
      /\ \A h \in Nodes : h # n => wire'[h] = wire[h]
  BY ForwardEffect
<1> HIDE DEF x
<1>2. /\ Count(send_queue[i], X) \in Nat /\ Count(wire[i][j], X) \in Nat
      /\ Count(send_queue'[i], X) \in Nat /\ Count(wire'[i][j], X) \in Nat
  <2>1. /\ send_queue[i] \in Seq(Message) /\ wire[i][j] \in Seq(Message)
        /\ send_queue'[i] \in Seq(Message) /\ wire'[i][j] \in Seq(Message)
    BY <1>1 DEF QueuesTyped
  <2>2. QED
    BY <2>1, CountBasics
<1>3. Count(send_queue[i], X) = Count(send_queue'[i], X) + (IF i = n THEN One(x, X) ELSE 0)
  BY <1>1 DEF Popped
<1>4. Count(wire'[i][j], X) = Count(wire[i][j], X) + (IF i = n /\ j = x.to THEN One(x, X) ELSE 0)
  <2>1. CASE i = n
    BY <1>1, <2>1 DEF Pushed
  <2>2. CASE i # n
    BY <1>1, <1>2, <2>2
  <2>3. QED
    BY <2>1, <2>2
<1>5. One(x, X) \in {0, 1} /\ (One(x, X) = 1 => x.to = j)
  BY DEF One
<1>6. QED
  BY <1>2, <1>3, <1>4, <1>5

LEMMA KindsOf ==
    ASSUME NEW w \in Thread, NEW m \in Nodes
    PROVE  /\ w.node \in Nodes
           /\ Gets(w, m) \subseteq Requests(w, m) /\ Adds(w, m) \subseteq Requests(w, m)
           /\ \A y \in Requests(w, m) : y \in Message /\ y.to = m /\ y.of = w /\ y.at = "server"
           /\ \A y \in AnswersTo(w) : y \in Message /\ y.to = w.node /\ y.of = w /\ y.at = "worker"
           /\ \A y \in Resets(w) : y \in Message /\ y.to = w.node /\ y.of = w
           /\ \A y \in ResetsDone(w) : y \in Message /\ y.to = w.node /\ y.of = w
<1>1. w.node \in Nodes
  BY DEF Thread
<1>2. Gets(w, m) \subseteq Requests(w, m) /\ Adds(w, m) \subseteq Requests(w, m)
  BY DEF Gets, Adds
<1>3. \A y \in Requests(w, m) : y \in Message /\ y.to = m /\ y.of = w /\ y.at = "server"
  BY DEF Requests, IsRequest
<1>4. \A y \in AnswersTo(w) : y \in Message /\ y.to = w.node /\ y.of = w /\ y.at = "worker"
  BY DEF AnswersTo
<1>5. \A y \in Resets(w) : y \in Message /\ y.to = w.node /\ y.of = w
  BY DEF Resets
<1>6. \A y \in ResetsDone(w) : y \in Message /\ y.to = w.node /\ y.of = w
  BY DEF ResetsDone
<1>7. QED
  BY <1>1, <1>2, <1>3, <1>4, <1>5, <1>6

LEMMA ForwardKeepsFlow ==
    ASSUME QueuesTyped, NEW n \in Nodes, Forward(n), UNCHANGED <<pc, task, todo, buffer>>,
           NEW w \in Thread, NEW m \in Nodes, FlowInv(w, m)
    PROVE  FlowInv(w, m)' /\ Outstanding(w, m)' = Outstanding(w, m)
<1> DEFINE x == Head(send_queue[n])
           X == Requests(w, m)
           G == Gets(w, m)
           A == AnswersTo(w)
           k == w.node
<1>1. /\ QueuesTyped' /\ x \in Message
      /\ Popped(send_queue, send_queue', n, x)
      /\ Pushed(wire[n], wire'[n], x.to, x)
      /\ \A h \in Nodes : h # n => wire'[h] = wire[h]
  BY ForwardEffect
<1>2. k \in Nodes /\ G \subseteq X /\ (\A y \in X : y.to = m) /\ (\A y \in A : y.to = k)
  BY KindsOf
<1>3. \A y \in G : y.to = m
  BY <1>2
<1>4. work_queue' = work_queue /\ Parked(w, m)' = Parked(w, m) /\ Active(w)' = Active(w)
  BY DEF Forward, Parked, Active
<1> HIDE DEF x, X, G, A, k
<1>5. /\ Count(send_queue'[k], X) + Count(wire'[k][m], X) = Count(send_queue[k], X) + Count(wire[k][m], X)
      /\ Count(send_queue'[k], X) \in Nat /\ Count(wire'[k][m], X) \in Nat
      /\ Count(send_queue[k], X) \in Nat /\ Count(wire[k][m], X) \in Nat
  BY <1>2, ForwardConserves
<1>6. /\ Count(send_queue'[k], G) + Count(wire'[k][m], G) = Count(send_queue[k], G) + Count(wire[k][m], G)
      /\ Count(send_queue'[k], G) \in Nat /\ Count(wire'[k][m], G) \in Nat
      /\ Count(send_queue[k], G) \in Nat /\ Count(wire[k][m], G) \in Nat
  BY <1>2, <1>3, ForwardConserves
<1>7. /\ Count(send_queue'[m], A) + Count(wire'[m][k], A) = Count(send_queue[m], A) + Count(wire[m][k], A)
      /\ Count(send_queue'[m], A) \in Nat /\ Count(wire'[m][k], A) \in Nat
      /\ Count(send_queue[m], A) \in Nat /\ Count(wire[m][k], A) \in Nat
  BY <1>2, ForwardConserves
<1>8. /\ Count(work_queue[m], X) \in Nat /\ Count(work_queue[m], G) \in Nat
      /\ Count(work_queue[m], G) <= Count(work_queue[m], X) /\ Count(wire[k][m], G) <= Count(wire[k][m], X)
      /\ Count(send_queue[k], G) <= Count(send_queue[k], X)
  BY <1>2, CountsTyped
<1>9. /\ Asked(w, m, X)' = Asked(w, m, X) /\ Asked(w, m, G)' = Asked(w, m, G)
      /\ Answered(w, m)' = Answered(w, m)
  BY <1>4, <1>5, <1>6, <1>7, <1>8 DEF Asked, Answered, X, G, A, k
<1>10. Outstanding(w, m)' = Outstanding(w, m)
  BY <1>4, <1>9 DEF Outstanding, G
<1>11. AsksOrders(w, m)'
  BY <1>4, <1>9, <1>10 DEF FlowInv, AsksOrders, X, G
<1>12. /\ Count(send_queue[k], X) = Count(send_queue'[k], X) + (IF k = n THEN One(x, X) ELSE 0)
       /\ Count(send_queue[k], G) = Count(send_queue'[k], G) + (IF k = n THEN One(x, G) ELSE 0)
  BY <1>1, <1>2 DEF Popped
<1>13. /\ LastIn(send_queue[k], G, X) /\ LastIn(wire[k][m], G, X) /\ LastIn(work_queue[m], G, X)
       /\ Count(wire[k][m], G) > 0 => Count(send_queue[k], X) = 0
       /\ Count(work_queue[m], G) > 0 => Count(send_queue[k], X) = 0 /\ Count(wire[k][m], X) = 0
       /\ Parked(w, m) + Answered(w, m) > 0 => Asked(w, m, X) = 0
  BY DEF FlowInv, GetIsLast, X, G, k
<1>14. LastIn(send_queue'[k], G, X) /\ (k = n /\ x \in G => Count(send_queue'[k], X) = 0)
  BY <1>1, <1>2, <1>13 DEF Popped
<1>15. k # n \/ x \notin X => wire'[k] = wire[k] \/ (k = n /\ x \notin X)
  BY <1>1, <1>2
<1>16. LastIn(wire'[k][m], G, X)
  <2>1. CASE k # n
    BY <1>1, <1>2, <1>13, <2>1
  <2>2. CASE k = n
    <3>1. Count(wire[k][m], G) = 0 \/ x \notin X
      BY <1>5, <1>6, <1>12, <1>13, <2>2 DEF One
    <3>2. QED
      BY <1>1, <1>13, <2>2, <3>1 DEF Pushed
  <2>3. QED
    BY <2>1, <2>2
<1>17. Count(wire'[k][m], G) > 0 => Count(send_queue'[k], X) = 0
  <2>1. CASE k = n /\ x \in G
    BY <1>14, <2>1
  <2>2. CASE ~(k = n /\ x \in G)
    <3>1. Count(wire'[k][m], G) = Count(wire[k][m], G)
      BY <1>6, <1>12, <2>2 DEF One
    <3>2. QED
      BY <1>5, <1>12, <1>13, <3>1 DEF One
  <2>3. QED
    BY <2>1, <2>2
<1>18. Count(work_queue[m], G) > 0 => Count(send_queue'[k], X) = 0 /\ Count(wire'[k][m], X) = 0
  BY <1>5, <1>13
<1>19. GetIsLast(w, m)'
  BY <1>4, <1>9, <1>13, <1>14, <1>16, <1>17, <1>18 DEF GetIsLast, X, G, k
<1>20. QED
  BY <1>10, <1>11, <1>19 DEF FlowInv

-----------------------------------------------------------------------------
(* Steps that leave the messages of a kind alone                            *)

\* The queues of q and r hold the same of V, and r keeps its order.
Alike(q, r, V) ==
    /\ \A j \in Nodes : \A Y : Y \subseteq V => Count(r[j], Y) = Count(q[j], Y)
    /\ \A j \in Nodes : \A G, Y : Y \subseteq V /\ LastIn(q[j], G, Y) => LastIn(r[j], G, Y)

LEMMA AlikeEffects ==
    ASSUME NEW q \in [Nodes -> Seq(Message)], NEW r, NEW V
    PROVE  /\ r = q => Alike(q, r, V)
           /\ \A n, x : Pushed(q, r, n, x) /\ x \notin V => Alike(q, r, V)
           /\ \A n, x : Popped(q, r, n, x) /\ x \notin V => Alike(q, r, V)
           /\ \A s \in Seq(Message) : \A n : Extended(q, r, n, s) /\ Count(s, V) = 0 => Alike(q, r, V)
<1>1. r = q => Alike(q, r, V)
  BY DEF Alike
<1>2. \A x, Y : x \notin V /\ Y \subseteq V => x \notin Y /\ One(x, Y) = 0
  BY DEF One
<1>3. \A j \in Nodes : \A Y : Count(q[j], Y) \in Nat
  BY CountBasics
<1>4. ASSUME NEW n, NEW x, Pushed(q, r, n, x), x \notin V PROVE Alike(q, r, V)
  <2>1. \A j \in Nodes : \A Y : Count(r[j], Y) = Count(q[j], Y) + (IF j = n THEN One(x, Y) ELSE 0)
    BY <1>4 DEF Pushed
  <2>2. \A j \in Nodes : \A Y : Y \subseteq V => Count(r[j], Y) = Count(q[j], Y)
    BY <1>2, <1>3, <1>4, <2>1
  <2>3. \A j \in Nodes : \A G, Y : Y \subseteq V /\ LastIn(q[j], G, Y) => LastIn(r[j], G, Y)
    BY <1>2, <1>4 DEF Pushed
  <2>4. QED
    BY <2>2, <2>3 DEF Alike
<1>5. ASSUME NEW n, NEW x, Popped(q, r, n, x), x \notin V PROVE Alike(q, r, V)
  <2>1. \A j \in Nodes : \A Y : Count(q[j], Y) = Count(r[j], Y) + (IF j = n THEN One(x, Y) ELSE 0)
    BY <1>5 DEF Popped
  <2>2. \A j \in Nodes : \A Y : Count(r[j], Y) \in Nat
    BY <1>5, CountBasics DEF Popped
  <2>3. ASSUME NEW j \in Nodes, NEW Y, Y \subseteq V PROVE Count(r[j], Y) = Count(q[j], Y)
    <3>1. One(x, Y) = 0
      BY <1>2, <1>5, <2>3
    <3>2. QED
      BY <2>1, <2>2, <3>1
  <2>4. \A j \in Nodes : \A G, Y : Y \subseteq V /\ LastIn(q[j], G, Y) => LastIn(r[j], G, Y)
    BY <1>5 DEF Popped
  <2>5. QED
    BY <2>3, <2>4 DEF Alike
<1>6. ASSUME NEW n, NEW s \in Seq(Message), Extended(q, r, n, s), Count(s, V) = 0 PROVE Alike(q, r, V)
  <2>1. \A j \in Nodes : \A Y : Count(r[j], Y) = Count(q[j], Y) + (IF j = n THEN Count(s, Y) ELSE 0)
    BY <1>6 DEF Extended
  <2>2. \A Y : Y \subseteq V => Count(s, Y) = 0
    <3> TAKE Y
    <3>1. Count(s, Y) \in Nat /\ (Y \subseteq V => Count(s, Y) <= Count(s, V))
      BY CountBasics
    <3>2. QED
      BY <1>6, <3>1
  <2>3. \A j \in Nodes : \A Y : Y \subseteq V => Count(r[j], Y) = Count(q[j], Y)
    BY <1>3, <2>1, <2>2
  <2>4. \A j \in Nodes : \A G, Y : Y \subseteq V /\ LastIn(q[j], G, Y) => LastIn(r[j], G, Y)
    BY <1>6, <2>2 DEF Extended
  <2>5. QED
    BY <2>3, <2>4 DEF Alike
<1>7. QED
  BY <1>1, <1>4, <1>5, <1>6

\* The messages by their flags.
Of(flags) == {x \in Message : x.flag \in flags}

\* All queues keep what they have of V.
Still(V) ==
    /\ Alike(send_queue, send_queue', V)
    /\ \A i \in Nodes : Alike(wire[i], wire'[i], V)
    /\ Alike(work_queue, work_queue', V)

LEMMA KindsByFlag ==
    ASSUME NEW w, NEW m
    PROVE  /\ Requests(w, m) \subseteq Of(Flags) /\ Gets(w, m) \subseteq Of(Flags)
           /\ Adds(w, m) \subseteq Of(Flags) /\ AnswersTo(w) \subseteq Of(Flags)
           /\ Resets(w) \subseteq Of({"kReset"}) /\ ResetsDone(w) \subseteq Of({"kReset"})
           /\ Barriers \subseteq Of({"kBarrier"}) /\ Exits \subseteq Of({"kExit"})
<1>1. Requests(w, m) \subseteq Of(Flags)
  BY DEF Requests, IsRequest, Of, Flags
<1>2. Gets(w, m) \subseteq Of(Flags) /\ Adds(w, m) \subseteq Of(Flags)
  BY <1>1 DEF Gets, Adds
<1>3. AnswersTo(w) \subseteq Of(Flags)
  BY DEF AnswersTo, Of, Flags
<1>4. Resets(w) \subseteq Of({"kReset"}) /\ ResetsDone(w) \subseteq Of({"kReset"})
  BY DEF Resets, ResetsDone, Of
<1>5. Barriers \subseteq Of({"kBarrier"}) /\ Exits \subseteq Of({"kExit"})
  BY DEF Barriers, Exits, Of
<1>6. QED
  BY <1>1, <1>2, <1>3, <1>4, <1>5

\* The calls of w to m and its answers stay where they are.
LEMMA StillKeepsFlow ==
    ASSUME Still(Of(Flags)), buffer' = buffer,
           NEW w \in Thread, NEW m \in Nodes, FlowInv(w, m),
           ~Active(w)' => Asked(w, m, Requests(w, m)) = 0 /\ Outstanding(w, m) = 0,
           todo'[w.node] = <<>> => todo[w.node] = <<>> \/ Asked(w, m, Requests(w, m)) = 0
    PROVE  FlowInv(w, m)' /\ Outstanding(w, m)' = Outstanding(w, m)
<1> DEFINE X == Requests(w, m)
           G == Gets(w, m)
           A == AnswersTo(w)
           k == w.node
<1>1. k \in Nodes /\ X \subseteq Of(Flags) /\ G \subseteq Of(Flags) /\ A \subseteq Of(Flags)
  BY KindsOf, KindsByFlag
<1>2. Parked(w, m)' = Parked(w, m)
  BY DEF Parked
<1> HIDE DEF X, G, A, k
<1>3. /\ Count(send_queue'[k], X) = Count(send_queue[k], X) /\ Count(send_queue'[k], G) = Count(send_queue[k], G)
      /\ Count(wire'[k][m], X) = Count(wire[k][m], X) /\ Count(wire'[k][m], G) = Count(wire[k][m], G)
      /\ Count(work_queue'[m], X) = Count(work_queue[m], X) /\ Count(work_queue'[m], G) = Count(work_queue[m], G)
      /\ Count(send_queue'[m], A) = Count(send_queue[m], A) /\ Count(wire'[m][k], A) = Count(wire[m][k], A)
  <2>1. /\ Alike(send_queue, send_queue', Of(Flags)) /\ Alike(work_queue, work_queue', Of(Flags))
        /\ Alike(wire[k], wire'[k], Of(Flags)) /\ Alike(wire[m], wire'[m], Of(Flags))
    BY <1>1 DEF Still
  <2>2. /\ Count(send_queue'[k], X) = Count(send_queue[k], X) /\ Count(send_queue'[k], G) = Count(send_queue[k], G)
        /\ Count(send_queue'[m], A) = Count(send_queue[m], A)
    BY <1>1, <2>1 DEF Alike
  <2>3. /\ Count(wire'[k][m], X) = Count(wire[k][m], X) /\ Count(wire'[k][m], G) = Count(wire[k][m], G)
        /\ Count(wire'[m][k], A) = Count(wire[m][k], A)
    BY <1>1, <2>1 DEF Alike
  <2>4. Count(work_queue'[m], X) = Count(work_queue[m], X) /\ Count(work_queue'[m], G) = Count(work_queue[m], G)
    BY <1>1, <2>1 DEF Alike
  <2>5. QED
    BY <2>2, <2>3, <2>4
<1>4. /\ LastIn(send_queue[k], G, X) => LastIn(send_queue'[k], G, X)
      /\ LastIn(wire[k][m], G, X) => LastIn(wire'[k][m], G, X)
      /\ LastIn(work_queue[m], G, X) => LastIn(work_queue'[m], G, X)
  BY <1>1 DEF Still, Alike
<1>5. /\ Asked(w, m, X)' = Asked(w, m, X) /\ Asked(w, m, G)' = Asked(w, m, G)
      /\ Answered(w, m)' = Answered(w, m)
  BY <1>3 DEF Asked, Answered, X, G, A, k
<1>6. Outstanding(w, m)' = Outstanding(w, m)
  BY <1>2, <1>5 DEF Outstanding, G
<1>7. AsksOrders(w, m)'
  BY <1>5, <1>6 DEF FlowInv, AsksOrders, X, G
<1>8. GetIsLast(w, m)'
  BY <1>2, <1>3, <1>4, <1>5 DEF FlowInv, GetIsLast, X, G, k
<1>9. QED
  BY <1>6, <1>7, <1>8 DEF FlowInv

-----------------------------------------------------------------------------
(* One request for each server, one answer for each Get                     *)

LEMMA EnumOfSet ==
    ASSUME NEW S, IsFiniteSet(S)
    PROVE  /\ Cardinality(S) \in Nat
           /\ SetToSeq(S) \in [1 .. Cardinality(S) -> S]
           /\ \A i, j \in 1 .. Cardinality(S) : SetToSeq(S)[i] = SetToSeq(S)[j] => i = j
           /\ \A x \in S : \E i \in 1 .. Cardinality(S) : SetToSeq(S)[i] = x
<1> DEFINE D == 1 .. Cardinality(S)
           f == SetToSeq(S)
<1>1. Cardinality(S) \in Nat /\ ExistsBijection(D, S)
  BY FS_CardinalityType
<1>2. \E g \in [D -> S] : IsInjective(g)
  BY <1>1 DEF ExistsBijection, Bijection, Injection
<1>3. f \in [D -> S] /\ IsInjective(f)
  BY <1>2 DEF SetToSeq
<1>4. f \in Injection(D, S)
  BY <1>3 DEF Injection
<1>5. IsFiniteSet(D) /\ Cardinality(D) = Cardinality(S)
  BY <1>1, FS_Interval
<1>6. f \in Surjection(D, S)
  BY <1>4, <1>5, FS_Injection
<1> HIDE DEF f
<1>7. \A i, j \in D : f[i] = f[j] => i = j
  BY <1>3 DEF IsInjective
<1>8. \A x \in S : \E i \in D : f[i] = x
  BY <1>6 DEF Surjection
<1>9. QED
  BY <1>1, <1>3, <1>7, <1>8 DEF f

\* What a call sends: to each server one request.
Round(w, flag) == [i \in 1 .. NumNodes |-> Request(w, ServerIds[i], flag)]

LEMMA RequestIs ==
    ASSUME NEW w \in Thread, NEW m \in Nodes, NEW flag \in Flags
    PROVE  LET x == Request(w, m, flag)
           IN  /\ x \in Message /\ x \in Requests(w, m)
               /\ x \in Gets(w, m) <=> flag = "kGet"
               /\ x \in Adds(w, m) <=> flag = "kAdd"
               /\ x.to = m /\ x.of = w /\ x.at = "server" /\ x.flag = flag
<1> DEFINE x == Request(w, m, flag)
<1>1. x \in Message /\ x.to = m /\ x.of = w /\ x.at = "server" /\ x.flag = flag /\ x.adds = {}
  BY DEF Request, Message, Flags
<1> HIDE DEF x
<1>2. x \in Requests(w, m)
  BY <1>1 DEF Requests, IsRequest, Flags
<1>3. QED
  BY <1>1, <1>2 DEF Gets, Adds, x

LEMMA RoundEffect ==
    ASSUME NEW w \in Thread, NEW flag \in Flags
    PROVE  /\ Round(w, flag) \in Seq(Message)
           /\ Round(w, flag) \in Seq(Sent(w.node))
           /\ \A m \in Nodes :
                 /\ Count(Round(w, flag), Requests(w, m)) = 1
                 /\ Count(Round(w, flag), Gets(w, m)) = IF flag = "kGet" THEN 1 ELSE 0
                 /\ Count(Round(w, flag), Adds(w, m)) = IF flag = "kAdd" THEN 1 ELSE 0
                 /\ \A G : G \subseteq Requests(w, m) => LastIn(Round(w, flag), G, Requests(w, m))
           /\ \A v : v # w => \A m : Count(Round(w, flag), Requests(v, m)) = 0
           /\ \A v : Count(Round(w, flag), AnswersTo(v)) = 0
           /\ Count(Round(w, flag), Of({"kReset", "kBarrier"})) = 0
<1> DEFINE s == Round(w, flag)
           D == 1 .. NumNodes
           e == ServerIds
<1>1. /\ NumNodes \in Nat /\ e \in [D -> Nodes]
      /\ \A i, j \in D : e[i] = e[j] => i = j
      /\ \A m \in Nodes : \E i \in D : e[i] = m
  BY EnumOfSet, EngineAssumption DEF NumNodes, ServerIds
<1>2. \A i \in D : s[i] = Request(w, e[i], flag)
  BY DEF Round
<1> HIDE DEF e
<1>3. \A i \in D : /\ s[i] \in Message /\ s[i] \in Requests(w, e[i])
                   /\ s[i] \in Gets(w, e[i]) <=> flag = "kGet"
                   /\ s[i] \in Adds(w, e[i]) <=> flag = "kAdd"
                   /\ s[i].to = e[i] /\ s[i].of = w /\ s[i].at = "server" /\ s[i].flag = flag
  BY <1>1, <1>2, RequestIs
<1>4. s \in Seq(Message) /\ Len(s) = NumNodes
  BY <1>1, <1>3 DEF Round
<1> HIDE DEF s
<1>5. s \in Seq(Sent(w.node))
  <2>1. \A i \in D : s[i] \in Sent(w.node)
    BY <1>1, <1>3 DEF Sent, Requests
  <2>2. QED
    BY <1>4, <2>1, ElementOfSeq, IsASeq
<1>6. ASSUME NEW m \in Nodes
      PROVE  /\ Count(s, Requests(w, m)) = 1
             /\ Count(s, Gets(w, m)) = IF flag = "kGet" THEN 1 ELSE 0
             /\ Count(s, Adds(w, m)) = IF flag = "kAdd" THEN 1 ELSE 0
             /\ \A G : G \subseteq Requests(w, m) => LastIn(s, G, Requests(w, m))
  <2>1. PICK k \in D : e[k] = m
    BY <1>1
  <2>2. \A i \in D : s[i] \in Requests(w, m) => i = k
    <3> TAKE i \in D
    <3>1. s[i] \in Requests(w, m) => e[i] = m
      BY <1>3 DEF Requests
    <3>2. QED
      BY <1>1, <2>1, <3>1
  <2>3. s[k] \in Requests(w, m) /\ (s[k] \in Gets(w, m) <=> flag = "kGet") /\ (s[k] \in Adds(w, m) <=> flag = "kAdd")
    BY <1>3, <2>1
  <2>4. Gets(w, m) \subseteq Requests(w, m) /\ Adds(w, m) \subseteq Requests(w, m)
    BY KindsOf
  <2>5. ASSUME NEW Y, Y \subseteq Requests(w, m) PROVE Count(s, Y) = IF s[k] \in Y THEN 1 ELSE 0
    <3>1. \A i \in 1 .. Len(s) : s[i] \in Y => i = k
      BY <1>4, <2>2, <2>5
    <3>2. CASE s[k] \in Y
      BY <1>4, <3>1, <3>2, CountSingle
    <3>3. CASE s[k] \notin Y
      <4>1. \A i \in 1 .. Len(s) : s[i] \notin Y
        BY <3>1, <3>3
      <4>2. Count(s, Y) = 0
        BY <1>4, <4>1, CountBasics
      <4>3. QED
        BY <3>3, <4>2
    <3>4. QED
      BY <3>2, <3>3
  <2>6. \A G : G \subseteq Requests(w, m) => LastIn(s, G, Requests(w, m))
    BY <1>1, <1>4, <2>2 DEF LastIn
  <2>7. QED
    BY <2>3, <2>4, <2>5, <2>6
<1>7. ASSUME NEW v, NEW Y, v # w, \A y \in Y : y.of = v PROVE Count(s, Y) = 0
  <2>1. \A i \in 1 .. Len(s) : s[i] \notin Y
    BY <1>3, <1>4, <1>7
  <2>2. QED
    BY <1>4, <2>1, CountBasics
<1>8. \A v : v # w => \A m : Count(s, Requests(v, m)) = 0
  <2> TAKE v
  <2> HAVE v # w
  <2> TAKE m
  <2>1. \A y \in Requests(v, m) : y.of = v
    BY DEF Requests
  <2>2. QED
    BY <1>7, <2>1
<1>9. \A v : Count(s, AnswersTo(v)) = 0
  <2> TAKE v
  <2>1. \A i \in 1 .. Len(s) : s[i] \notin AnswersTo(v)
    BY <1>3, <1>4 DEF AnswersTo
  <2>2. QED
    BY <1>4, <2>1, CountBasics
<1>10. Count(s, Of({"kReset", "kBarrier"})) = 0
  <2>1. \A i \in 1 .. Len(s) : s[i] \notin Of({"kReset", "kBarrier"})
    BY <1>3, <1>4 DEF Of, Flags
  <2>2. QED
    BY <1>4, <2>1, CountBasics
<1>11. QED
  BY <1>4, <1>5, <1>6, <1>8, <1>9, <1>10 DEF s

\* One Get of w to n is like another.
LEMMA GetsAlike ==
    ASSUME NEW w, NEW n, NEW x \in Gets(w, n), NEW y \in Gets(w, n)
    PROVE  x = y
<1>1. /\ x.flag = y.flag /\ x.of = y.of /\ x.to = y.to /\ x.at = y.at /\ x.adds = y.adds
      /\ x \in Message /\ y \in Message
  BY DEF Gets, Requests, IsRequest
<1>2. QED
  BY <1>1 DEF Message

LEMMA AnswerIs ==
    ASSUME NEW w, NEW n, NEW x \in Gets(w, n), NEW adds \in SUBSET Thread
    PROVE  LET y == Reply(x, "worker", adds)
           IN  /\ y \in Message /\ y \in AnswersTo(w) /\ y \in Sent(n)
               /\ y.of = w /\ y.at = "worker" /\ y.adds = adds
<1> DEFINE y == Reply(x, "worker", adds)
<1>1. x \in Message /\ x.of = w /\ x.flag = "kGet" /\ w \in Thread /\ w.node \in Nodes
  BY DEF Gets, Requests, Message, Thread
<1>2. y \in Message /\ y.of = w /\ y.at = "worker" /\ y.flag = "kGet" /\ y.to = w.node /\ y.adds = adds
  BY <1>1 DEF Reply, Message
<1> HIDE DEF y
<1>3. y \in AnswersTo(w)
  BY <1>2 DEF AnswersTo
<1>4. y \in Sent(n)
  BY <1>2, <1>3 DEF Sent
<1>5. QED
  BY <1>2, <1>3, <1>4 DEF y

\* The Gets of reqs are each answered once.
LEMMA AnswersEffect ==
    ASSUME NEW n \in Nodes, storage[n] \in SUBSET Thread,
           NEW reqs, IsFiniteSet(reqs), \A x \in reqs : x \in Gets(x.of, n)
    PROVE  /\ Answers(n, reqs) \in Seq(Message)
           /\ Answers(n, reqs) \in Seq(Sent(n))
           /\ \A T : (\A x \in reqs : Reply(x, "worker", storage[n]) \in T) => Answers(n, reqs) \in Seq(T)
           /\ \A w : Count(Answers(n, reqs), AnswersTo(w)) = IF \E x \in reqs : x.of = w THEN 1 ELSE 0
           /\ \A w, m : Count(Answers(n, reqs), Requests(w, m)) = 0
           /\ Count(Answers(n, reqs), Of({"kReset", "kBarrier"})) = 0
<1> DEFINE s == Answers(n, reqs)
           D == 1 .. Cardinality(reqs)
           e == SetToSeq(reqs)
<1>1. /\ Cardinality(reqs) \in Nat /\ e \in [D -> reqs]
      /\ \A i, j \in D : e[i] = e[j] => i = j
      /\ \A x \in reqs : \E i \in D : e[i] = x
  BY EnumOfSet
<1>2. \A i \in D : s[i] = Reply(e[i], "worker", storage[n])
  BY DEF Answers
<1> HIDE DEF e
<1>3. \A i \in D : /\ e[i] \in reqs /\ s[i] \in Message /\ s[i] \in Sent(n)
                   /\ s[i] \in AnswersTo(e[i].of) /\ s[i].of = e[i].of /\ s[i].at = "worker"
  <2> TAKE i \in D
  <2>1. e[i] \in reqs /\ e[i] \in Gets(e[i].of, n)
    BY <1>1
  <2>2. QED
    BY <1>2, <2>1, AnswerIs
<1>4. DOMAIN s = D /\ s \in [D -> Message] /\ s \in Seq(Message) /\ Len(s) = Cardinality(reqs)
  <2>1. s = [i \in D |-> Reply(e[i], "worker", storage[n])]
    BY DEF Answers, e
  <2> HIDE DEF s
  <2>2. s \in [D -> Message]
    BY <1>3, <2>1
  <2>3. QED
    BY <1>1, <2>2
<1> HIDE DEF s
<1>5. ASSUME NEW T, \A i \in D : s[i] \in T PROVE s \in Seq(T)
  <2>1. s \in [D -> T]
    BY <1>4, <1>5
  <2>2. QED
    BY <1>1, <2>1
<1>6. s \in Seq(Sent(n))
  BY <1>3, <1>5
<1>7. \A T : (\A x \in reqs : Reply(x, "worker", storage[n]) \in T) => s \in Seq(T)
  BY <1>2, <1>3, <1>5
<1>8. ASSUME NEW w PROVE Count(s, AnswersTo(w)) = IF \E x \in reqs : x.of = w THEN 1 ELSE 0
  <2>1. CASE \E x \in reqs : x.of = w
    <3>1. PICK x \in reqs : x.of = w
      BY <2>1
    <3>2. PICK k \in D : e[k] = x
      BY <1>1
    <3>3. s[k] \in AnswersTo(w)
      BY <1>3, <3>1, <3>2
    <3>4. ASSUME NEW i \in 1 .. Len(s), s[i] \in AnswersTo(w) PROVE i = k
      <4>1. e[i].of = w /\ i \in D
        BY <1>3, <1>4, <3>4 DEF AnswersTo
      <4>2. e[i] \in Gets(w, n) /\ x \in Gets(w, n)
        BY <1>3, <3>1, <4>1
      <4>3. QED
        BY <1>1, <3>2, <4>1, <4>2, GetsAlike
    <3>5. Count(s, AnswersTo(w)) = 1
      BY <1>4, <3>3, <3>4, CountSingle
    <3>6. QED
      BY <2>1, <3>5
  <2>2. CASE ~\E x \in reqs : x.of = w
    <3>1. \A i \in 1 .. Len(s) : s[i] \notin AnswersTo(w)
      BY <1>3, <1>4, <2>2 DEF AnswersTo
    <3>2. Count(s, AnswersTo(w)) = 0
      BY <1>4, <3>1, CountBasics
    <3>3. QED
      BY <2>2, <3>2
  <2>3. QED
    BY <2>1, <2>2
<1>9. \A w, m : Count(s, Requests(w, m)) = 0
  <2> TAKE w, m
  <2>1. \A i \in 1 .. Len(s) : s[i] \notin Requests(w, m)
    BY <1>3, <1>4 DEF Requests, IsRequest
  <2>2. QED
    BY <1>4, <2>1, CountBasics
<1>10. Count(s, Of({"kReset", "kBarrier"})) = 0
  <2>1. \A i \in 1 .. Len(s) : s[i] \notin Of({"kReset", "kBarrier"})
    BY <1>3, <1>4 DEF Of, AnswersTo
  <2>2. QED
    BY <1>4, <2>1, CountBasics
<1>11. QED
  BY <1>4, <1>6, <1>7, <1>8, <1>9, <1>10 DEF s

-----------------------------------------------------------------------------
(* A message reaches the server                                            *)

\* Who sends what is on a wire.
LEMMA SenderOf ==
    ASSUME NEW i \in Nodes, NEW j \in Nodes, NEW x \in OnWire(i, j), NEW w \in Thread, NEW m
    PROVE  /\ x \in Message /\ x.to = j
           /\ x \in Requests(w, m) => w.node = i /\ m = j
           /\ x \in Resets(w) => w.node = i /\ i = j
           /\ x \in ResetsDone(w) => w.node = i /\ i = j
           /\ x.at = "server" /\ x \notin Barriers => x \in Work(j)
           /\ x.at = "worker" => x \in AnswersTo(x.of)
           /\ x.at = "main" => x \in ResetsDone(x.of)
<1>1. x \in Message /\ x.to = j /\ (x \in Sent(i) \/ x \in Barriers)
  BY DEF OnWire
<1>2. x \in Requests(w, m) => w.node = i /\ m = j
  BY <1>1 DEF Sent, Barriers, Requests, IsRequest, Resets, ResetsDone, AnswersTo, Exits
<1>3. x \in Resets(w) => w.node = i /\ i = j
  BY <1>1 DEF Sent, Barriers, IsRequest, Resets, ResetsDone, AnswersTo, Exits
<1>4. x \in ResetsDone(w) => w.node = i /\ i = j
  BY <1>1 DEF Sent, Barriers, IsRequest, Resets, ResetsDone, AnswersTo, Exits
<1>5. x.at = "server" /\ x \notin Barriers => x \in Work(j)
  BY <1>1 DEF Sent, Barriers, IsRequest, Resets, ResetsDone, AnswersTo, Exits, Work
<1>6. x.at = "worker" => x \in AnswersTo(x.of)
  BY <1>1 DEF Sent, Barriers, IsRequest, Resets, ResetsDone, Exits
<1>7. x.at = "main" => x \in ResetsDone(x.of)
  BY <1>1 DEF Sent, Barriers, IsRequest, Resets, AnswersTo, Exits
<1>8. QED
  BY <1>1, <1>2, <1>3, <1>4, <1>5, <1>6, <1>7

\* The head of a socket is read.
Read(i, n) ==
    /\ wire[i][n] # <<>>
    /\ wire' = [wire EXCEPT ![i][n] = Tail(@)]
    /\ send_queue' = send_queue

LEMMA ReadEffect ==
    ASSUME QueuesTyped, NEW i \in Nodes, NEW n \in Nodes, Read(i, n), NEW x, x = Head(wire[i][n])
    PROVE  /\ x \in Message /\ x \in OnWire(i, n)
           /\ Popped(wire[i], wire'[i], n, x)
           /\ \A h \in Nodes : h # i => wire'[h] = wire[h]
           /\ work_queue' = work_queue => QueuesTyped'
           /\ work_queue' = [work_queue EXCEPT ![n] = Append(@, x)] /\ x \in Work(n) => QueuesTyped'
<1>1. /\ wire \in [Nodes -> [Nodes -> Seq(Message)]] /\ wire[i] \in [Nodes -> Seq(Message)]
      /\ wire'[i] = [wire[i] EXCEPT ![n] = Tail(@)] /\ wire[i][n] # <<>>
      /\ \A h \in Nodes : h # i => wire'[h] = wire[h]
      /\ wire' = [wire EXCEPT ![i][n] = Tail(@)]
  BY DEF QueuesTyped, Read
<1>2. Popped(wire[i], wire'[i], n, x)
  BY <1>1, PopEffect
<1>3. /\ x \in Message /\ x \in OnWire(i, n) /\ wire'[i] \in [Nodes -> Seq(Message)]
      /\ \A j \in Nodes : wire'[i][j] \in Seq(OnWire(i, j))
  BY <1>2 DEF Popped, QueuesTyped
<1>4. wire' \in [Nodes -> [Nodes -> Seq(Message)]]
  BY <1>1, <1>3
<1>5. \A h, j \in Nodes : wire'[h][j] \in Seq(OnWire(h, j))
  BY <1>1, <1>3 DEF QueuesTyped
<1>6. work_queue' = work_queue => QueuesTyped'
  BY <1>4, <1>5 DEF QueuesTyped, Read
<1>7. work_queue' = [work_queue EXCEPT ![n] = Append(@, x)] /\ x \in Work(n) => QueuesTyped'
  <2> HAVE work_queue' = [work_queue EXCEPT ![n] = Append(@, x)] /\ x \in Work(n)
  <2>1. Pushed(work_queue, work_queue', n, x)
    BY <1>3, PushEffect DEF QueuesTyped
  <2>2. work_queue' \in [Nodes -> Seq(Message)] /\ \A j \in Nodes : work_queue'[j] \in Seq(Work(j))
    BY <2>1 DEF Pushed, QueuesTyped
  <2>3. QED
    BY <1>4, <1>5, <2>2 DEF QueuesTyped, Read
<1>8. QED
  BY <1>1, <1>2, <1>3, <1>6, <1>7

\* The message read from i goes to the work queue of n.
Deliver(i, n) ==
    /\ Read(i, n)
    /\ Head(wire[i][n]).at = "server" /\ Head(wire[i][n]) \notin Barriers
    /\ work_queue' = [work_queue EXCEPT ![n] = Append(@, Head(wire[i][n]))]

LEMMA DeliverEffect ==
    ASSUME QueuesTyped, NEW i \in Nodes, NEW n \in Nodes, Deliver(i, n), NEW x, x = Head(wire[i][n])
    PROVE  /\ x \in Message /\ x \in OnWire(i, n) /\ QueuesTyped'
           /\ Popped(wire[i], wire'[i], n, x)
           /\ \A h \in Nodes : h # i => wire'[h] = wire[h]
           /\ Pushed(work_queue, work_queue', n, x)
<1>1. Read(i, n) /\ x.at = "server" /\ x \notin Barriers /\ work_queue' = [work_queue EXCEPT ![n] = Append(@, x)]
  BY DEF Deliver
<1>2. /\ x \in Message /\ x \in OnWire(i, n)
      /\ Popped(wire[i], wire'[i], n, x)
      /\ \A h \in Nodes : h # i => wire'[h] = wire[h]
      /\ x \in Work(n) => QueuesTyped'
  BY <1>1, ReadEffect
<1>3. x \in Work(n)
  <2>1. x.of \in Thread
    BY <1>2 DEF Message
  <2>2. QED
    BY <1>1, <1>2, <2>1, SenderOf
<1>4. Pushed(work_queue, work_queue', n, x)
  BY <1>1, <1>2, PushEffect DEF QueuesTyped
<1>5. QED
  BY <1>2, <1>3, <1>4

\* A message of X comes from node h only: nothing of X is lost.
LEMMA DeliverConserves ==
    ASSUME QueuesTyped, NEW i \in Nodes, NEW n \in Nodes, Deliver(i, n), NEW h \in Nodes, NEW m \in Nodes,
           NEW X, \A y \in X : y.to = m, \A y \in X : y \in OnWire(i, n) => h = i
    PROVE  /\ Count(wire'[h][m], X) + Count(work_queue'[m], X) = Count(wire[h][m], X) + Count(work_queue[m], X)
           /\ Count(wire'[h][m], X) \in Nat /\ Count(work_queue'[m], X) \in Nat
           /\ Count(wire[h][m], X) \in Nat /\ Count(work_queue[m], X) \in Nat
<1> DEFINE x == Head(wire[i][n])
<1>1. /\ x \in OnWire(i, n) /\ x.to = n /\ QueuesTyped'
      /\ Popped(wire[i], wire'[i], n, x)
      /\ \A j \in Nodes : j # i => wire'[j] = wire[j]
      /\ Pushed(work_queue, work_queue', n, x)
  BY DeliverEffect DEF OnWire
<1> HIDE DEF x
<1>2. /\ Count(wire[h][m], X) \in Nat /\ Count(work_queue[m], X) \in Nat
      /\ Count(wire'[h][m], X) \in Nat /\ Count(work_queue'[m], X) \in Nat
  <2>1. /\ wire[h][m] \in Seq(Message) /\ work_queue[m] \in Seq(Message)
        /\ wire'[h][m] \in Seq(Message) /\ work_queue'[m] \in Seq(Message)
    BY <1>1 DEF QueuesTyped
  <2>2. QED
    BY <2>1, CountBasics
<1>3. Count(wire[h][m], X) = Count(wire'[h][m], X) + (IF h = i /\ m = n THEN One(x, X) ELSE 0)
  <2>1. CASE h = i
    BY <1>1, <2>1 DEF Popped
  <2>2. CASE h # i
    BY <1>1, <1>2, <2>2
  <2>3. QED
    BY <2>1, <2>2
<1>4. Count(work_queue'[m], X) = Count(work_queue[m], X) + (IF m = n THEN One(x, X) ELSE 0)
  BY <1>1 DEF Pushed
<1>5. One(x, X) \in {0, 1} /\ (One(x, X) = 1 => m = n /\ h = i)
  BY <1>1 DEF One
<1>6. QED
  BY <1>2, <1>3, <1>4, <1>5

LEMMA DeliverKeepsFlow ==
    ASSUME QueuesTyped, NEW i \in Nodes, NEW n \in Nodes, Deliver(i, n), UNCHANGED <<pc, task, todo, buffer>>,
           NEW w \in Thread, NEW m \in Nodes, FlowInv(w, m)
    PROVE  FlowInv(w, m)' /\ Outstanding(w, m)' = Outstanding(w, m)
<1> DEFINE x == Head(wire[i][n])
           X == Requests(w, m)
           G == Gets(w, m)
           A == AnswersTo(w)
           k == w.node
<1>1. /\ x \in OnWire(i, n) /\ x \in Message /\ x.at = "server"
      /\ Popped(wire[i], wire'[i], n, x)
      /\ \A j \in Nodes : j # i => wire'[j] = wire[j]
      /\ Pushed(work_queue, work_queue', n, x)
      /\ QueuesTyped'
  BY DeliverEffect DEF Deliver
<1>2. /\ k \in Nodes /\ G \subseteq X /\ (\A y \in X : y.to = m) /\ (\A y \in G : y.to = m)
      /\ \A y \in X : y \in OnWire(i, n) => k = i /\ m = n
      /\ \A y \in G : y \in OnWire(i, n) => k = i
      /\ x \notin A
  BY <1>1, KindsOf, SenderOf
<1>3. /\ send_queue' = send_queue /\ Parked(w, m)' = Parked(w, m) /\ Active(w)' = Active(w)
  BY DEF Deliver, Read, Parked, Active
<1> HIDE DEF x, X, G, A, k
<1>4. /\ Count(wire'[k][m], X) + Count(work_queue'[m], X) = Count(wire[k][m], X) + Count(work_queue[m], X)
      /\ Count(wire'[k][m], X) \in Nat /\ Count(work_queue'[m], X) \in Nat
      /\ Count(wire[k][m], X) \in Nat /\ Count(work_queue[m], X) \in Nat
  BY <1>2, DeliverConserves
<1>5. /\ Count(wire'[k][m], G) + Count(work_queue'[m], G) = Count(wire[k][m], G) + Count(work_queue[m], G)
      /\ Count(wire'[k][m], G) \in Nat /\ Count(work_queue'[m], G) \in Nat
      /\ Count(wire[k][m], G) \in Nat /\ Count(work_queue[m], G) \in Nat
  BY <1>2, DeliverConserves
<1>6. Count(wire'[m][k], A) = Count(wire[m][k], A)
  <2>1. Count(wire'[m][k], A) \in Nat /\ Count(wire[m][k], A) \in Nat
    <3>1. wire[m][k] \in Seq(Message) /\ wire'[m][k] \in Seq(Message)
      BY <1>1, <1>2 DEF QueuesTyped
    <3>2. QED
      BY <3>1, CountBasics
  <2>2. One(x, A) = 0
    BY <1>2 DEF One
  <2>3. CASE m = i
    BY <1>1, <1>2, <2>1, <2>2, <2>3 DEF Popped
  <2>4. CASE m # i
    BY <1>1, <2>4
  <2>5. QED
    BY <2>3, <2>4
<1>7. /\ Count(send_queue[k], X) \in Nat /\ Count(send_queue[k], G) \in Nat
      /\ Count(work_queue[m], G) <= Count(work_queue[m], X) /\ Count(wire[k][m], G) <= Count(wire[k][m], X)
      /\ Count(send_queue[k], G) <= Count(send_queue[k], X)
  BY <1>2, CountsTyped
<1>8. /\ Asked(w, m, X)' = Asked(w, m, X) /\ Asked(w, m, G)' = Asked(w, m, G)
      /\ Answered(w, m)' = Answered(w, m)
  BY <1>3, <1>4, <1>5, <1>6, <1>7 DEF Asked, Answered, X, G, A, k
<1>9. Outstanding(w, m)' = Outstanding(w, m)
  BY <1>3, <1>8 DEF Outstanding, G
<1>10. AsksOrders(w, m)'
  BY <1>3, <1>8, <1>9 DEF FlowInv, AsksOrders, X, G
<1>11. /\ LastIn(send_queue[k], G, X) /\ LastIn(wire[k][m], G, X) /\ LastIn(work_queue[m], G, X)
       /\ Count(wire[k][m], G) > 0 => Count(send_queue[k], X) = 0
       /\ Count(work_queue[m], G) > 0 => Count(send_queue[k], X) = 0 /\ Count(wire[k][m], X) = 0
       /\ Parked(w, m) + Answered(w, m) > 0 => Asked(w, m, X) = 0
  BY DEF FlowInv, GetIsLast, X, G, k
<1>12. LastIn(wire'[k][m], G, X) /\ (k = i /\ m = n /\ x \in G => Count(wire'[k][m], X) = 0)
  <2>1. CASE k = i
    <3>1. LastIn(wire[i][m], G, X)
      BY <1>11, <2>1
    <3>2. LastIn(wire'[i][m], G, X) /\ (m = n /\ x \in G => Count(wire'[i][m], X) = 0)
      BY <1>1, <3>1 DEF Popped
    <3>3. QED
      BY <2>1, <3>2
  <2>2. CASE k # i
    BY <1>1, <1>2, <1>11, <2>2
  <2>3. QED
    BY <2>1, <2>2
<1>13. CASE x \in X
  <2>1. k = i /\ m = n /\ One(x, X) = 1 /\ One(x, G) = IF x \in G THEN 1 ELSE 0
    BY <1>1, <1>2, <1>13 DEF One
  <2>2. /\ Count(wire[k][m], X) = Count(wire'[k][m], X) + 1
        /\ Count(wire[k][m], G) = Count(wire'[k][m], G) + One(x, G)
    BY <1>1, <1>2, <2>1 DEF Popped
  <2>3. Count(work_queue[m], G) = 0
    BY <1>4, <1>5, <1>11, <2>2
  <2>4. LastIn(work_queue'[m], G, X)
    BY <1>1, <1>11, <2>3 DEF Pushed
  <2>5. Count(wire'[k][m], G) > 0 => Count(send_queue[k], X) = 0
    BY <1>5, <1>11, <2>1, <2>2
  <2>6. Count(work_queue'[m], G) > 0 => Count(send_queue[k], X) = 0 /\ Count(wire'[k][m], X) = 0
    <3>1. CASE x \in G
      <4>1. Count(wire[k][m], G) > 0
        BY <1>5, <2>1, <2>2, <3>1
      <4>2. QED
        BY <1>11, <1>12, <2>1, <3>1, <4>1
    <3>2. CASE x \notin G
      BY <1>5, <2>1, <2>2, <2>3, <3>2
    <3>3. QED
      BY <3>1, <3>2
  <2>7. QED
    BY <1>3, <1>8, <1>9, <1>10, <1>11, <1>12, <2>4, <2>5, <2>6 DEF FlowInv, GetIsLast, X, G, k
<1>14. CASE x \notin X
  <2>1. One(x, X) = 0 /\ One(x, G) = 0
    BY <1>2, <1>14 DEF One
  <2>2. /\ Count(work_queue'[m], X) = Count(work_queue[m], X)
        /\ Count(work_queue'[m], G) = Count(work_queue[m], G)
    <3>1. /\ Count(work_queue'[m], X) = Count(work_queue[m], X) + (IF m = n THEN One(x, X) ELSE 0)
          /\ Count(work_queue'[m], G) = Count(work_queue[m], G) + (IF m = n THEN One(x, G) ELSE 0)
      BY <1>1 DEF Pushed
    <3>2. QED
      BY <1>4, <1>5, <2>1, <3>1
  <2>3. Count(wire'[k][m], X) = Count(wire[k][m], X) /\ Count(wire'[k][m], G) = Count(wire[k][m], G)
    BY <1>4, <1>5, <2>2
  <2>4. LastIn(work_queue'[m], G, X)
    BY <1>1, <1>11, <1>14 DEF Pushed
  <2>5. QED
    BY <1>3, <1>8, <1>9, <1>10, <1>11, <1>12, <2>2, <2>3, <2>4 DEF FlowInv, GetIsLast, X, G, k
<1>15. QED
  BY <1>13, <1>14

-----------------------------------------------------------------------------
(* An answer reaches its worker                                            *)

LEMMA AnswerKeepsFlow ==
    ASSUME QueuesTyped, NEW i \in Nodes, NEW n \in Nodes, Read(i, n), Head(wire[i][n]).at = "worker",
           UNCHANGED <<work_queue, pc, task, todo, buffer>>,
           NEW w \in Thread, NEW m \in Nodes, FlowInv(w, m)
    PROVE  /\ FlowInv(w, m)'
           /\ Outstanding(w, m)' = Outstanding(w, m) - IF Head(wire[i][n]).of = w /\ m = i THEN 1 ELSE 0
<1> DEFINE x == Head(wire[i][n])
           X == Requests(w, m)
           G == Gets(w, m)
           A == AnswersTo(w)
           k == w.node
           d == IF x.of = w /\ m = i THEN 1 ELSE 0
<1>1. /\ x \in OnWire(i, n) /\ x \in Message /\ x.at = "worker" /\ x.to = n
      /\ Popped(wire[i], wire'[i], n, x)
      /\ \A j \in Nodes : j # i => wire'[j] = wire[j]
      /\ QueuesTyped'
  BY ReadEffect DEF OnWire
<1>2. /\ k \in Nodes /\ G \subseteq X /\ x \notin X /\ x \notin G
  BY <1>1, KindsOf
<1>3. x \in A <=> x.of = w
  <2>1. x \in AnswersTo(x.of)
    BY <1>1, SenderOf DEF Message
  <2>2. QED
    BY <2>1 DEF AnswersTo
<1>4. x \in A => k = n
  BY <1>1 DEF AnswersTo
<1>5. /\ send_queue' = send_queue /\ work_queue' = work_queue
      /\ Parked(w, m)' = Parked(w, m) /\ Active(w)' = Active(w)
  BY DEF Read, Parked, Active
<1> HIDE DEF x, X, G, A, k
<1>6. One(x, X) = 0 /\ One(x, G) = 0 /\ One(x, A) = IF x.of = w THEN 1 ELSE 0
  BY <1>2, <1>3 DEF One
<1>7. /\ Count(wire[k][m], X) \in Nat /\ Count(wire'[k][m], X) \in Nat
      /\ Count(wire[k][m], G) \in Nat /\ Count(wire'[k][m], G) \in Nat
      /\ Count(wire[m][k], A) \in Nat /\ Count(wire'[m][k], A) \in Nat
      /\ Count(send_queue[m], A) \in Nat
  <2>1. /\ wire[m][k] \in Seq(Message) /\ wire'[m][k] \in Seq(Message)
        /\ wire[k][m] \in Seq(Message) /\ wire'[k][m] \in Seq(Message)
        /\ send_queue[m] \in Seq(Message)
    BY <1>1, <1>2 DEF QueuesTyped
  <2>2. QED
    BY <2>1, CountBasics
<1>8. Count(wire'[k][m], X) = Count(wire[k][m], X) /\ Count(wire'[k][m], G) = Count(wire[k][m], G)
  <2>1. CASE k = i
    <3>1. /\ Count(wire[k][m], X) = Count(wire'[k][m], X) + (IF m = n THEN One(x, X) ELSE 0)
          /\ Count(wire[k][m], G) = Count(wire'[k][m], G) + (IF m = n THEN One(x, G) ELSE 0)
      BY <1>1, <2>1 DEF Popped
    <3>2. QED
      BY <1>6, <1>7, <3>1
  <2>2. CASE k # i
    BY <1>1, <1>2, <2>2
  <2>3. QED
    BY <2>1, <2>2
<1>9. Count(wire'[m][k], A) = Count(wire[m][k], A) - d
  <2>1. CASE m = i
    <3>1. Count(wire[m][k], A) = Count(wire'[m][k], A) + (IF k = n THEN One(x, A) ELSE 0)
      BY <1>1, <1>2, <2>1 DEF Popped
    <3>2. QED
      BY <1>3, <1>4, <1>6, <1>7, <2>1, <3>1
  <2>2. CASE m # i
    BY <1>1, <1>7, <2>2
  <2>3. QED
    BY <2>1, <2>2
<1>10. LastIn(wire[k][m], G, X) => LastIn(wire'[k][m], G, X)
  <2>1. CASE k = i
    BY <1>1, <2>1 DEF Popped
  <2>2. CASE k # i
    BY <1>1, <1>2, <2>2
  <2>3. QED
    BY <2>1, <2>2
<1>11. /\ Asked(w, m, X)' = Asked(w, m, X) /\ Asked(w, m, G)' = Asked(w, m, G)
  BY <1>5, <1>8 DEF Asked, X, G, k
<1>12. Answered(w, m)' = Answered(w, m) - d /\ Answered(w, m) \in Nat /\ Answered(w, m)' \in Nat
  BY <1>5, <1>7, <1>9 DEF Answered, A, k
<1>13. Parked(w, m) \in Nat /\ Asked(w, m, G) \in Nat /\ Asked(w, m, X) \in Nat
  <2>1. /\ Count(send_queue[k], X) \in Nat /\ Count(work_queue[m], X) \in Nat
        /\ Count(send_queue[k], G) \in Nat /\ Count(work_queue[m], G) \in Nat
    BY <1>2, CountsTyped
  <2>2. QED
    BY <1>7, <2>1 DEF Asked, Parked, X, G, k
<1>14. Outstanding(w, m)' = Outstanding(w, m) - d /\ Outstanding(w, m)' \in Nat
  BY <1>5, <1>11, <1>12, <1>13 DEF Outstanding, G
<1>15. AsksOrders(w, m)'
  <2>1. Outstanding(w, m)' \in {0, 1} /\ (Outstanding(w, m) = 0 => Outstanding(w, m)' = 0)
    BY <1>14 DEF FlowInv, AsksOrders
  <2>2. QED
    BY <1>5, <1>11, <2>1 DEF FlowInv, AsksOrders, X, G
<1>16. GetIsLast(w, m)'
  <2>1. (Parked(w, m) + Answered(w, m))' > 0 => Parked(w, m) + Answered(w, m) > 0
    BY <1>5, <1>12, <1>13
  <2>2. QED
    BY <1>5, <1>8, <1>10, <1>11, <2>1 DEF FlowInv, GetIsLast, X, G, k
<1>17. QED
  BY <1>14, <1>15, <1>16 DEF FlowInv, x

-----------------------------------------------------------------------------
(* A server takes a message                                                *)

\* The server of n takes x and sends s; a Get among them is answered or parked.
Serve(n, x, s) ==
    /\ work_queue[n] # <<>> /\ x = Head(work_queue[n])
    /\ work_queue' = [work_queue EXCEPT ![n] = Tail(@)]
    /\ send_queue' = [send_queue EXCEPT ![n] = @ \o s]
    /\ s \in Seq(Message) /\ s \in Seq(Sent(n))
    /\ \A w, m : Count(s, Requests(w, m)) = 0
    /\ \A w : (Parked(w, n))' + Count(s, AnswersTo(w)) = Parked(w, n) + One(x, Gets(w, n))
    /\ \A j \in Nodes : j # n => buffer'[j] = buffer[j]
    /\ UNCHANGED <<wire, pc, task, todo>>

LEMMA ServeEffect ==
    ASSUME QueuesTyped, NEW n \in Nodes, NEW x, NEW s, Serve(n, x, s)
    PROVE  /\ x \in Message /\ x \in Work(n) /\ QueuesTyped'
           /\ Popped(work_queue, work_queue', n, x)
           /\ Extended(send_queue, send_queue', n, s)
           /\ wire' = wire
<1>1. Popped(work_queue, work_queue', n, x)
  BY PopEffect DEF Serve, QueuesTyped
<1>2. Extended(send_queue, send_queue', n, s)
  BY ExtendEffect DEF Serve, QueuesTyped
<1>3. x \in Message /\ x \in Work(n) /\ \A j \in Nodes : work_queue'[j] \in Seq(Work(j))
  BY <1>1 DEF Popped, QueuesTyped
<1>4. s \in Seq(Sent(n)) /\ \A j \in Nodes : send_queue'[j] \in Seq(Sent(j))
  BY <1>2 DEF Extended, QueuesTyped, Serve
<1>5. work_queue' \in [Nodes -> Seq(Message)] /\ send_queue' \in [Nodes -> Seq(Message)]
  BY <1>1, <1>2 DEF Popped, Extended
<1>6. QED
  BY <1>1, <1>2, <1>3, <1>4, <1>5 DEF QueuesTyped, Serve

LEMMA ServeKeepsFlow ==
    ASSUME QueuesTyped, NEW n \in Nodes, NEW x, NEW s, Serve(n, x, s),
           NEW w \in Thread, NEW m \in Nodes, FlowInv(w, m)
    PROVE  /\ FlowInv(w, m)'
           /\ Outstanding(w, m)' = Outstanding(w, m)
<1> DEFINE X == Requests(w, m)
           G == Gets(w, m)
           A == AnswersTo(w)
           k == w.node
<1>1. /\ x \in Message /\ x \in Work(n) /\ x.to = n /\ QueuesTyped'
      /\ Popped(work_queue, work_queue', n, x)
      /\ Extended(send_queue, send_queue', n, s)
      /\ wire' = wire
  BY ServeEffect DEF Work
<1>2. k \in Nodes /\ G \subseteq X /\ (x \in X => m = n)
  BY <1>1, KindsOf DEF Requests
<1>3. /\ Count(s, X) = 0 /\ Active(w)' = Active(w) /\ todo' = todo /\ s \in Seq(Message)
      /\ m = n => Parked(w, m)' + Count(s, A) = Parked(w, m) + One(x, G)
      /\ m # n => Parked(w, m)' = Parked(w, m)
  BY DEF Serve, Active, Parked
<1>4. Parked(w, m) \in Nat /\ Parked(w, m)' \in Nat
  BY DEF Parked
<1> HIDE DEF X, G, A, k
<1>5. /\ Count(s, G) = 0 /\ Count(s, A) \in Nat
  <2>1. Count(s, G) \in Nat /\ Count(s, G) <= Count(s, X) /\ Count(s, A) \in Nat
    BY <1>2, <1>3, CountBasics
  <2>2. QED
    BY <1>3, <2>1
<1>6. /\ Count(send_queue[k], X) \in Nat /\ Count(send_queue[k], G) \in Nat /\ Count(send_queue[m], A) \in Nat
      /\ Count(wire[k][m], X) \in Nat /\ Count(wire[k][m], G) \in Nat /\ Count(wire[m][k], A) \in Nat
      /\ Count(work_queue[m], X) \in Nat /\ Count(work_queue[m], G) \in Nat
      /\ Count(work_queue[m], G) <= Count(work_queue[m], X)
  BY <1>2, CountsTyped
<1>7. /\ Count(work_queue'[m], X) \in Nat /\ Count(work_queue'[m], G) \in Nat
      /\ Count(work_queue'[m], G) <= Count(work_queue'[m], X)
  <2>1. work_queue'[m] \in Seq(Message)
    BY <1>1 DEF QueuesTyped
  <2>2. QED
    BY <1>2, <2>1, CountBasics
<1>8. /\ Count(work_queue[m], X) = Count(work_queue'[m], X) + One(x, X)
      /\ Count(work_queue[m], G) = Count(work_queue'[m], G) + One(x, G)
  <2>1. /\ Count(work_queue[m], X) = Count(work_queue'[m], X) + (IF m = n THEN One(x, X) ELSE 0)
        /\ Count(work_queue[m], G) = Count(work_queue'[m], G) + (IF m = n THEN One(x, G) ELSE 0)
    BY <1>1 DEF Popped
  <2>2. m # n => One(x, X) = 0 /\ One(x, G) = 0
    BY <1>2 DEF One
  <2>3. QED
    BY <2>1, <2>2
<1>9. /\ One(x, X) \in {0, 1} /\ One(x, G) \in {0, 1} /\ One(x, G) <= One(x, X)
      /\ One(x, G) = 1 <=> x \in G
  BY <1>2 DEF One
<1>10. /\ Count(send_queue'[k], X) = Count(send_queue[k], X)
       /\ Count(send_queue'[k], G) = Count(send_queue[k], G)
       /\ LastIn(send_queue[k], G, X) => LastIn(send_queue'[k], G, X)
  <2>1. /\ Count(send_queue'[k], X) = Count(send_queue[k], X) + (IF k = n THEN Count(s, X) ELSE 0)
        /\ Count(send_queue'[k], G) = Count(send_queue[k], G) + (IF k = n THEN Count(s, G) ELSE 0)
        /\ LastIn(send_queue[k], G, X) => LastIn(send_queue'[k], G, X)
    BY <1>1, <1>2, <1>3 DEF Extended
  <2>2. QED
    BY <1>3, <1>5, <1>6, <2>1
<1>11. Count(send_queue'[m], A) = Count(send_queue[m], A) + (IF m = n THEN Count(s, A) ELSE 0)
  BY <1>1 DEF Extended
<1>12. /\ LastIn(work_queue[m], G, X) => LastIn(work_queue'[m], G, X)
       /\ LastIn(work_queue[m], G, X) /\ x \in G => Count(work_queue'[m], X) = 0
  BY <1>1, <1>2 DEF Popped
<1>13. /\ Asked(w, m, X)' = Asked(w, m, X) - One(x, X) /\ Asked(w, m, G)' = Asked(w, m, G) - One(x, G)
       /\ Asked(w, m, X) \in Nat /\ Asked(w, m, X)' \in Nat /\ Asked(w, m, G) \in Nat /\ Asked(w, m, G)' \in Nat
  BY <1>1, <1>6, <1>7, <1>8, <1>9, <1>10 DEF Asked, X, G, k
<1>14. /\ Answered(w, m)' = Answered(w, m) + (IF m = n THEN Count(s, A) ELSE 0)
       /\ Answered(w, m) \in Nat /\ Answered(w, m)' \in Nat
  BY <1>1, <1>5, <1>6, <1>11 DEF Answered, A, k
<1>15. Parked(w, m)' + Answered(w, m)' = Parked(w, m) + Answered(w, m) + One(x, G)
  <2>1. m # n => One(x, G) = 0
    BY <1>2, <1>9
  <2>2. CASE m = n
    <3>1. Parked(w, m)' + Count(s, A) = Parked(w, m) + One(x, G)
      BY <1>3, <2>2
    <3>2. Answered(w, m)' = Answered(w, m) + Count(s, A) /\ Answered(w, m) \in Nat
      BY <1>14, <2>2
    <3>3. One(x, G) \in Nat
      BY <1>9
    <3>4. QED
      BY <1>4, <1>5, <3>1, <3>2, <3>3
  <2>3. CASE m # n
    BY <1>3, <1>4, <1>5, <1>9, <1>14, <2>1, <2>3
  <2>4. QED
    BY <2>2, <2>3
<1>16. Outstanding(w, m)' = Outstanding(w, m)
  BY <1>4, <1>9, <1>13, <1>14, <1>15 DEF Outstanding, G
<1>17. /\ LastIn(send_queue[k], G, X) /\ LastIn(wire[k][m], G, X) /\ LastIn(work_queue[m], G, X)
       /\ Count(wire[k][m], G) > 0 => Count(send_queue[k], X) = 0
       /\ Count(work_queue[m], G) > 0 => Count(send_queue[k], X) = 0 /\ Count(wire[k][m], X) = 0
       /\ Parked(w, m) + Answered(w, m) > 0 => Asked(w, m, X) = 0
  BY DEF FlowInv, GetIsLast, X, G, k
<1>18. One(x, G) = 1 => Asked(w, m, X)' = 0
  <2> HAVE One(x, G) = 1
  <2>1. Count(work_queue[m], G) > 0
    BY <1>7, <1>8
  <2>2. /\ Count(send_queue'[k], X) = 0 /\ Count(wire[k][m], X) = 0 /\ Count(work_queue'[m], X) = 0
    BY <1>9, <1>10, <1>12, <1>17, <2>1
  <2>3. QED
    BY <1>1, <2>2 DEF Asked, X, k
<1>19. GetIsLast(w, m)'
  <2>1. Parked(w, m)' + Answered(w, m)' > 0 => Asked(w, m, X)' = 0
    BY <1>4, <1>9, <1>13, <1>14, <1>15, <1>17, <1>18
  <2>2. /\ Count(wire[k][m], G) > 0 => Count(send_queue'[k], X) = 0
        /\ Count(work_queue'[m], G) > 0 => Count(send_queue'[k], X) = 0 /\ Count(wire[k][m], X) = 0
    BY <1>7, <1>8, <1>9, <1>10, <1>17
  <2>3. QED
    BY <1>1, <1>10, <1>12, <1>17, <2>1, <2>2 DEF GetIsLast, X, G, k
<1>20. AsksOrders(w, m)'
  <2>1. /\ Outstanding(w, m) \in {0, 1}
        /\ ~Active(w) => Asked(w, m, X) = 0 /\ Outstanding(w, m) = 0
        /\ todo[w.node] = <<>> /\ Asked(w, m, X) > 0 => Asked(w, m, G) > 0
    BY DEF FlowInv, AsksOrders, X, G
  <2>2. ~Active(w) => Asked(w, m, X)' = 0
    BY <1>9, <1>13, <2>1
  <2>3. todo[w.node] = <<>> /\ Asked(w, m, X)' > 0 => Asked(w, m, G)' > 0
    BY <1>9, <1>13, <1>18, <2>1
  <2>4. QED
    BY <1>3, <1>16, <2>1, <2>2, <2>3 DEF AsksOrders, X, G
<1>21. QED
  BY <1>16, <1>19, <1>20 DEF FlowInv

-----------------------------------------------------------------------------
(* A worker calls                                                          *)

Asks(n) ==
    LET w == Worker(n)
        flag == Head(todo[n])
    IN  /\ Active(w) /\ todo[n] # <<>>
        /\ send_queue' = [send_queue EXCEPT ![n] = @ \o Round(w, flag)]
        /\ todo' = [todo EXCEPT ![n] = Tail(@)]
        /\ UNCHANGED <<wire, work_queue, pc, task, buffer>>

\* The lambda has a Get at its end.
TodoEndsWithGet == \A n \in Nodes : todo[n] # <<>> => todo[n][Len(todo[n])] = "kGet"

LEMMA WorkerIs ==
    ASSUME StateTyped, NEW n \in Nodes
    PROVE  /\ Worker(n) \in Thread /\ Worker(n).node = n /\ Worker(n).task = task[n]
           /\ \A w \in Thread : w.node = n /\ w.task = task[n] => w = Worker(n)
<1>1. task[n] \in Tasks
  BY DEF StateTyped
<1>2. Worker(n) \in Thread /\ Worker(n).node = n /\ Worker(n).task = task[n]
  BY <1>1 DEF Worker, Thread
<1>3. \A w \in Thread : w.node = n /\ w.task = task[n] => w = Worker(n)
  BY DEF Worker, Thread
<1>4. QED
  BY <1>2, <1>3

LEMMA AsksEffect ==
    ASSUME QueuesTyped, StateTyped, NEW n \in Nodes, Asks(n), NEW s, s = Round(Worker(n), Head(todo[n]))
    PROVE  /\ Head(todo[n]) \in Flags /\ s \in Seq(Message) /\ s \in Seq(Sent(n))
           /\ Extended(send_queue, send_queue', n, s) /\ QueuesTyped'
<1>1. Head(todo[n]) \in Flags
  <2>1. todo[n] \in Seq(Flags) /\ todo[n] # <<>>
    BY DEF StateTyped, Asks
  <2>2. QED
    BY <2>1, HeadTailProperties
<1>2. s \in Seq(Message) /\ s \in Seq(Sent(n))
  BY <1>1, WorkerIs, RoundEffect
<1>3. Extended(send_queue, send_queue', n, s)
  BY <1>2, ExtendEffect DEF Asks, QueuesTyped
<1>4. send_queue' \in [Nodes -> Seq(Message)] /\ \A j \in Nodes : send_queue'[j] \in Seq(Sent(j))
  BY <1>2, <1>3 DEF Extended, QueuesTyped
<1>5. QED
  BY <1>1, <1>2, <1>3, <1>4 DEF QueuesTyped, Asks

LEMMA AsksKeepsFlow ==
    ASSUME QueuesTyped, StateTyped, TodoEndsWithGet, NEW n \in Nodes, Asks(n),
           NEW w \in Thread, NEW m \in Nodes, FlowInv(w, m),
           w = Worker(n) => Outstanding(w, m) = 0
    PROVE  /\ FlowInv(w, m)'
           /\ Outstanding(w, m)' =
                 IF w = Worker(n) THEN (IF Head(todo[n]) = "kGet" THEN 1 ELSE 0) ELSE Outstanding(w, m)
<1> DEFINE flag == Head(todo[n])
           s == Round(Worker(n), flag)
           X == Requests(w, m)
           G == Gets(w, m)
           A == AnswersTo(w)
           k == w.node
           c == IF w = Worker(n) THEN 1 ELSE 0
           g == IF w = Worker(n) /\ flag = "kGet" THEN 1 ELSE 0
<1>1. /\ flag \in Flags /\ s \in Seq(Message) /\ Worker(n) \in Thread
      /\ Worker(n).node = n
      /\ Extended(send_queue, send_queue', n, s)
      /\ wire' = wire /\ work_queue' = work_queue
  BY AsksEffect, WorkerIs DEF Asks
<1>2. k \in Nodes /\ G \subseteq X /\ (w = Worker(n) => k = n)
  BY <1>1, KindsOf
<1>3. Count(s, X) = c /\ Count(s, G) = g /\ Count(s, A) = 0 /\ LastIn(s, G, X)
  <2>1. CASE w = Worker(n)
    BY <1>1, <1>2, <2>1, RoundEffect
  <2>2. CASE w # Worker(n)
    <3>1. Count(s, X) = 0 /\ Count(s, A) = 0
      BY <1>1, <2>2, RoundEffect
    <3>2. Count(s, G) \in Nat /\ Count(s, G) <= Count(s, X)
      BY <1>1, <1>2, CountBasics
    <3>3. LastIn(s, G, X)
      <4>1. \A i \in 1 .. Len(s) : s[i] \notin X
        BY <1>1, <3>1, CountBasics
      <4>2. QED
        BY <4>1 DEF LastIn
    <3>4. QED
      BY <2>2, <3>1, <3>2, <3>3
  <2>3. QED
    BY <2>1, <2>2
<1>4. /\ Active(w)' = Active(w) /\ Parked(w, m)' = Parked(w, m) /\ Parked(w, m) \in Nat
      /\ w = Worker(n) => Active(w)
  BY DEF Asks, Active, Parked
<1>5. todo'[k] = <<>> => IF w = Worker(n) THEN flag = "kGet" ELSE k = n \/ todo[k] = <<>>
  <2>1. CASE k # n
    BY <1>2, <2>1 DEF Asks, StateTyped
  <2>2. CASE k = n /\ w = Worker(n)
    <3>1. todo[n] \in Seq(Flags) /\ todo[n] # <<>> /\ todo'[n] = Tail(todo[n])
      BY DEF Asks, StateTyped
    <3>2. /\ Len(todo[n]) \in Nat \ {0} /\ Len(Tail(todo[n])) = Len(todo[n]) - 1
          /\ flag = todo[n][1]
      BY <3>1, HeadTailProperties, EmptySeq
    <3>3. Tail(todo[n]) = <<>> => Len(todo[n]) = 1
      <4> HAVE Tail(todo[n]) = <<>>
      <4>1. Len(Tail(todo[n])) = 0
        BY EmptySeq
      <4>2. QED
        BY <3>2, <4>1
    <3>4. todo[n][Len(todo[n])] = "kGet"
      BY <3>1 DEF TodoEndsWithGet
    <3>5. QED
      BY <2>2, <3>1, <3>2, <3>3, <3>4
  <2>3. QED
    BY <2>1, <2>2
<1>6. k = n /\ w # Worker(n) => ~Active(w)
  BY WorkerIs DEF Active
<1>c. c \in {0, 1} /\ g \in {0, 1} /\ (w = Worker(n) <=> c = 1) /\ (g = 1 <=> w = Worker(n) /\ flag = "kGet")
  OBVIOUS
<1> HIDE DEF flag, s, X, G, A, k, c, g
<1>7. /\ Count(send_queue[k], X) \in Nat /\ Count(send_queue[k], G) \in Nat /\ Count(send_queue[m], A) \in Nat
      /\ Count(wire[k][m], X) \in Nat /\ Count(wire[k][m], G) \in Nat /\ Count(wire[m][k], A) \in Nat
      /\ Count(work_queue[m], X) \in Nat /\ Count(work_queue[m], G) \in Nat
      /\ Count(send_queue[k], G) <= Count(send_queue[k], X)
  BY <1>2, CountsTyped
<1>8. /\ Count(send_queue'[k], X) = Count(send_queue[k], X) + c
      /\ Count(send_queue'[k], G) = Count(send_queue[k], G) + g
  <2>1. /\ Count(send_queue'[k], X) = Count(send_queue[k], X) + (IF k = n THEN Count(s, X) ELSE 0)
        /\ Count(send_queue'[k], G) = Count(send_queue[k], G) + (IF k = n THEN Count(s, G) ELSE 0)
    BY <1>1, <1>2 DEF Extended
  <2>2. QED
    BY <1>2, <1>3, <1>7, <1>c, <2>1
<1>9. Count(send_queue'[m], A) = Count(send_queue[m], A)
  <2>1. Count(send_queue'[m], A) = Count(send_queue[m], A) + (IF m = n THEN Count(s, A) ELSE 0)
    BY <1>1 DEF Extended
  <2>2. QED
    BY <1>3, <1>7, <2>1
<1>10. /\ Asked(w, m, X)' = Asked(w, m, X) + c /\ Asked(w, m, G)' = Asked(w, m, G) + g
       /\ Asked(w, m, X) \in Nat /\ Asked(w, m, G) \in Nat
       /\ Answered(w, m)' = Answered(w, m) /\ Answered(w, m) \in Nat
  <2>1. Asked(w, m, X) = Count(send_queue[k], X) + Count(wire[k][m], X) + Count(work_queue[m], X)
    BY DEF Asked, k
  <2>2. Asked(w, m, X)' = Count(send_queue'[k], X) + Count(wire[k][m], X) + Count(work_queue[m], X)
    BY <1>1 DEF Asked, X, k
  <2>3. Asked(w, m, G) = Count(send_queue[k], G) + Count(wire[k][m], G) + Count(work_queue[m], G)
    BY DEF Asked, k
  <2>4. Asked(w, m, G)' = Count(send_queue'[k], G) + Count(wire[k][m], G) + Count(work_queue[m], G)
    BY <1>1 DEF Asked, G, k
  <2>5. Answered(w, m) = Count(send_queue[m], A) + Count(wire[m][k], A)
    BY DEF Answered, A, k
  <2>6. Answered(w, m)' = Count(send_queue'[m], A) + Count(wire[m][k], A)
    BY <1>1 DEF Answered, A, k
  <2>7. QED
    BY <1>7, <1>8, <1>9, <1>c, <2>1, <2>2, <2>3, <2>4, <2>5, <2>6
<1>11. Outstanding(w, m)' = Outstanding(w, m) + g /\ Outstanding(w, m) \in Nat
  BY <1>4, <1>10, <1>c DEF Outstanding, G
<1>12. /\ LastIn(send_queue[k], G, X) /\ LastIn(wire[k][m], G, X) /\ LastIn(work_queue[m], G, X)
       /\ Count(wire[k][m], G) > 0 => Count(send_queue[k], X) = 0
       /\ Count(work_queue[m], G) > 0 => Count(send_queue[k], X) = 0 /\ Count(wire[k][m], X) = 0
       /\ Parked(w, m) + Answered(w, m) > 0 => Asked(w, m, X) = 0
  BY DEF FlowInv, GetIsLast, X, G, k
<1>13. /\ Outstanding(w, m) \in {0, 1}
       /\ ~Active(w) => Asked(w, m, X) = 0 /\ Outstanding(w, m) = 0
       /\ todo[k] = <<>> /\ Asked(w, m, X) > 0 => Asked(w, m, G) > 0
  BY DEF FlowInv, AsksOrders, X, G, k
<1>14. CASE w = Worker(n)
  <2>1. /\ Asked(w, m, G) = 0 /\ Parked(w, m) = 0 /\ Answered(w, m) = 0
    <3>1. Asked(w, m, G) + Parked(w, m) + Answered(w, m) = 0
      BY <1>14 DEF Outstanding, G
    <3>2. Asked(w, m, G) \in Nat /\ Parked(w, m) \in Nat /\ Answered(w, m) \in Nat
      BY <1>4, <1>10
    <3>3. QED
      BY <3>1, <3>2
  <2>2. Count(send_queue[k], G) = 0 /\ Count(wire[k][m], G) = 0 /\ Count(work_queue[m], G) = 0
    BY <1>7, <2>1 DEF Asked, G, k
  <2>3. LastIn(send_queue'[k], G, X)
    BY <1>1, <1>2, <1>3, <1>12, <2>2 DEF Extended
  <2>4. GetIsLast(w, m)'
    BY <1>1, <1>4, <1>10, <1>12, <2>1, <2>2, <2>3 DEF GetIsLast, X, G, k
  <2>5. todo'[k] = <<>> => Asked(w, m, G)' > 0
    BY <1>5, <1>10, <1>14, <1>c
  <2>6. AsksOrders(w, m)'
    BY <1>4, <1>11, <1>14, <1>c, <2>5 DEF AsksOrders, X, G, k
  <2>7. QED
    BY <1>11, <1>14, <1>c, <2>4, <2>6 DEF FlowInv, flag
<1>15. CASE w # Worker(n)
  <2>1. /\ Count(send_queue'[k], X) = Count(send_queue[k], X) /\ Asked(w, m, X)' = Asked(w, m, X)
        /\ Asked(w, m, G)' = Asked(w, m, G)
    BY <1>7, <1>8, <1>10, <1>15, <1>c
  <2>2. LastIn(send_queue'[k], G, X)
    BY <1>1, <1>2, <1>3, <1>12, <1>15, <1>c DEF Extended
  <2>3. GetIsLast(w, m)'
    BY <1>1, <1>4, <1>10, <1>12, <2>1, <2>2 DEF GetIsLast, X, G, k
  <2>4. todo'[k] = <<>> /\ Asked(w, m, X)' > 0 => Asked(w, m, G)' > 0
    <3>1. k = n => Asked(w, m, X)' = 0
      BY <1>6, <1>13, <1>15, <2>1
    <3>2. QED
      BY <1>5, <1>13, <1>15, <2>1, <3>1
  <2>5. AsksOrders(w, m)'
    BY <1>4, <1>11, <1>13, <1>15, <1>c, <2>1, <2>4 DEF AsksOrders, X, G, k
  <2>6. QED
    BY <1>11, <1>15, <1>c, <2>3, <2>5 DEF FlowInv
<1>16. QED
  BY <1>14, <1>15

-----------------------------------------------------------------------------
(* The barriers                                                            *)

\* How many barriers node n has begun and how many it has behind it, and of how
\* many of m it has heard.
Begun(n) ==
    2 * (task[n] - 1) + IF pc[n] \in {"run", "resetting", "reset"} THEN 0
                        ELSE IF pc[n] \in {"starting", "working"} THEN 1 ELSE 2
Over(n) ==
    2 * (task[n] - 1) + IF pc[n] \in {"run", "resetting", "reset", "starting"} THEN 0
                        ELSE IF pc[n] \in {"working", "ending"} THEN 1 ELSE 2
Heard(m, n) == Begun(m) - Count(wire[m][n], Barriers)

\* The first k barriers of all nodes, and those that n has heard of.
Rounds(k) == Nodes \X (0 .. k - 1)
Calls(n) == {call \in Rounds(2 * NumTasks) : call[2] < Heard(call[1], n)}

BarrierInv ==
    /\ \A n \in Nodes : barrier_count[n] + Cardinality(Rounds(Over(n))) = Cardinality(Calls(n))
    /\ \A m, n \in Nodes : Over(m) <= Begun(n)
    /\ \A m, n \in Nodes : Heard(m, n) \in Nat

LEMMA RoundsCounted ==
    ASSUME NEW k \in Nat
    PROVE  /\ IsFiniteSet(Rounds(k)) /\ Cardinality(Rounds(k)) \in Nat
           /\ NumNodes \in Nat \ {0}
           /\ Cardinality(Rounds(k + 1)) = Cardinality(Rounds(k)) + NumNodes
           /\ Cardinality(Rounds(k + 2)) = Cardinality(Rounds(k)) + 2 * NumNodes
<1>1. NumNodes \in Nat /\ NumNodes # 0
  BY EngineAssumption, FS_CardinalityType, FS_EmptySet DEF NumNodes
<1>2. \A j \in Nat : /\ IsFiniteSet(Rounds(j)) /\ Cardinality(Rounds(j)) \in Nat
                     /\ Cardinality(Rounds(j)) = NumNodes * j
  <2> TAKE j \in Nat
  <2>1. IsFiniteSet(0 .. j - 1) /\ Cardinality(0 .. j - 1) = j
    <3>1. /\ IsFiniteSet(0 .. j - 1)
          /\ Cardinality(0 .. j - 1) = IF 0 > j - 1 THEN 0 ELSE (j - 1) - 0 + 1
      BY FS_Interval
    <3>2. QED
      BY <3>1
  <2>2. IsFiniteSet(Rounds(j)) /\ Cardinality(Rounds(j)) = NumNodes * j
    BY <2>1, EngineAssumption, FS_Product DEF Rounds, NumNodes
  <2>3. QED
    BY <2>2, FS_CardinalityType
<1>3. NumNodes * (k + 1) = NumNodes * k + NumNodes /\ NumNodes * (k + 2) = NumNodes * k + 2 * NumNodes
  BY <1>1
<1>4. k + 1 \in Nat /\ k + 2 \in Nat
  OBVIOUS
<1>5. QED
  BY <1>1, <1>2, <1>3, <1>4

\* No more calls than there are in k rounds, and fewer if one is missing.
LEMMA CallsBounded ==
    ASSUME NEW n \in Nodes, NEW k \in Nat, \A m \in Nodes : Heard(m, n) \in Nat /\ Heard(m, n) <= k
    PROVE  /\ IsFiniteSet(Calls(n)) /\ Cardinality(Calls(n)) \in Nat
           /\ Cardinality(Calls(n)) <= Cardinality(Rounds(k))
           /\ (\E m \in Nodes : Heard(m, n) < k) => Cardinality(Calls(n)) < Cardinality(Rounds(k))
<1>1. Calls(n) \in SUBSET Rounds(k)
  BY DEF Calls, Rounds
<1>2. IsFiniteSet(Rounds(k)) /\ Cardinality(Rounds(k)) \in Nat
  BY RoundsCounted
<1>3. /\ IsFiniteSet(Calls(n)) /\ Cardinality(Calls(n)) <= Cardinality(Rounds(k))
      /\ Cardinality(Rounds(k)) = Cardinality(Calls(n)) => Rounds(k) = Calls(n)
  BY <1>1, <1>2, FS_Subset
<1>4. Cardinality(Calls(n)) \in Nat
  BY <1>3, FS_CardinalityType
<1>5. ASSUME NEW m \in Nodes, Heard(m, n) < k PROVE Rounds(k) # Calls(n)
  <2>1. <<m, Heard(m, n)>> \in Rounds(k) /\ <<m, Heard(m, n)>> \notin Calls(n)
    BY <1>5 DEF Rounds, Calls
  <2>2. QED
    BY <2>1
<1>6. QED
  BY <1>2, <1>3, <1>4, <1>5

LEMMA BarrierBounds ==
    ASSUME StateTyped, QueuesTyped, BarrierInv
    PROVE  /\ 2 * NumTasks \in Nat
           /\ \A n \in Nodes : /\ Over(n) \in Nat /\ Begun(n) \in Nat
                              /\ Over(n) <= Begun(n) /\ Begun(n) <= Over(n) + 1 /\ Begun(n) <= 2 * NumTasks
           /\ \A m, n \in Nodes : /\ Over(m) <= Begun(n)
                                 /\ Heard(m, n) \in Nat /\ Heard(m, n) <= Begun(m)
<1>1. 2 * NumTasks \in Nat
  BY EngineAssumption
<1>2. ASSUME NEW n \in Nodes
      PROVE  /\ Over(n) \in Nat /\ Begun(n) \in Nat
             /\ Over(n) <= Begun(n) /\ Begun(n) <= Over(n) + 1 /\ Begun(n) <= 2 * NumTasks
  <2>1. task[n] \in Nat /\ task[n] >= 1 /\ task[n] <= NumTasks /\ NumTasks \in Nat /\ pc[n] \in Places
    BY EngineAssumption DEF StateTyped, Tasks
  <2>2. QED
    BY <2>1 DEF Over, Begun
<1>3. \A m, n \in Nodes : Count(wire[m][n], Barriers) \in Nat
  BY CountsTyped
<1>4. \A m, n \in Nodes : Heard(m, n) <= Begun(m)
  BY <1>2, <1>3 DEF Heard
<1>5. QED
  BY <1>1, <1>2, <1>4 DEF BarrierInv

\* While a worker may call, all nodes are in its task, between its barriers.
LEMMA WorkingTogether ==
    ASSUME StateTyped, BarrierInv, NEW k \in Nodes, NEW j \in Nodes, pc[k] = "working"
    PROVE  task[j] = task[k] /\ pc[j] \in {"starting", "working", "ending"}
<1>1. task[j] \in Int /\ task[k] \in Int /\ pc[j] \in Places
  BY DEF StateTyped, Tasks
<1>2. Over(k) <= Begun(j) /\ Over(j) <= Begun(k)
  BY DEF BarrierInv
<1>3. Over(k) = 2 * (task[k] - 1) + 1 /\ Begun(k) = 2 * (task[k] - 1) + 1
  BY DEF Over, Begun
<1>4. Begun(j) \in {2 * (task[j] - 1), 2 * (task[j] - 1) + 1, 2 * (task[j] - 1) + 2}
  BY <1>1 DEF Begun
<1>5. Over(j) \in {2 * (task[j] - 1), 2 * (task[j] - 1) + 1, 2 * (task[j] - 1) + 2}
  BY <1>1 DEF Over
<1>6. task[j] = task[k]
  BY <1>1, <1>2, <1>3, <1>4, <1>5
<1>7. Begun(j) # 2 * (task[j] - 1) /\ Over(j) # 2 * (task[j] - 1) + 2
  BY <1>1, <1>2, <1>3, <1>6
<1>8. pc[j] \notin {"run", "resetting", "reset"}
  BY <1>1, <1>7 DEF Begun
<1>9. pc[j] \in {"run", "resetting", "reset", "starting", "working", "ending"}
  BY <1>1, <1>7 DEF Over
<1>10. QED
  BY <1>6, <1>8, <1>9

\* Nothing that counts for a barrier changes.
LEMMA BarrierStays ==
    ASSUME BarrierInv, barrier_count' = barrier_count,
           \A n \in Nodes : Begun(n)' = Begun(n) /\ Over(n)' = Over(n),
           \A m, n \in Nodes : Count(wire'[m][n], Barriers) = Count(wire[m][n], Barriers)
    PROVE  BarrierInv'
<1>1. \A m, n \in Nodes : Heard(m, n)' = Heard(m, n)
  BY DEF Heard
<1>2. \A n \in Nodes : Calls(n)' = Calls(n)
  <2> TAKE n \in Nodes
  <2>1. Rounds(2 * NumTasks)' = Rounds(2 * NumTasks)
    BY DEF Rounds
  <2>2. \A call \in Rounds(2 * NumTasks) : call[1] \in Nodes
    BY DEF Rounds
  <2>3. QED
    BY <1>1, <2>1, <2>2 DEF Calls
<1>3. \A n \in Nodes : Rounds(Over(n))' = Rounds(Over(n))
  BY DEF Rounds
<1>4. QED
  BY <1>1, <1>2, <1>3 DEF BarrierInv

LEMMA BarrierHeard ==
    ASSUME StateTyped, QueuesTyped, QueuesTyped', BarrierInv, NEW m \in Nodes, NEW n \in Nodes,
           barrier_count' = [barrier_count EXCEPT ![n] = @ + 1], UNCHANGED <<pc, task>>,
           Count(wire[m][n], Barriers) = Count(wire'[m][n], Barriers) + 1,
           \A i, j \in Nodes : <<i, j>> # <<m, n>> => Count(wire'[i][j], Barriers) = Count(wire[i][j], Barriers)
    PROVE  BarrierInv'
<1> DEFINE K == 2 * NumTasks
           new == <<m, Heard(m, n)>>
<1>1. /\ K \in Nat
      /\ \A j \in Nodes : /\ Over(j) \in Nat /\ Begun(j) \in Nat /\ Begun(j) <= K
      /\ \A i, j \in Nodes : Heard(i, j) \in Nat /\ Heard(i, j) <= Begun(i)
  BY BarrierBounds
<1>2. \A j \in Nodes : Begun(j)' = Begun(j) /\ Over(j)' = Over(j)
  BY DEF Begun, Over
<1>3. \A i, j \in Nodes : Count(wire[i][j], Barriers) \in Nat /\ Count(wire'[i][j], Barriers) \in Nat
  <2>1. \A i, j \in Nodes : wire[i][j] \in Seq(Message) /\ wire'[i][j] \in Seq(Message)
    BY DEF QueuesTyped
  <2>2. QED
    BY <2>1, CountBasics
<1>4. /\ Heard(m, n)' = Heard(m, n) + 1
      /\ \A i, j \in Nodes : <<i, j>> # <<m, n>> => Heard(i, j)' = Heard(i, j)
  BY <1>1, <1>2, <1>3 DEF Heard
<1>5. Heard(m, n) + 1 <= Begun(m)
  BY <1>1, <1>3 DEF Heard
<1> HIDE DEF K
<1>6. Rounds(K)' = Rounds(K) /\ \A call \in Rounds(K) : call[1] \in Nodes /\ call[2] \in Nat /\ call = <<call[1], call[2]>>
  BY <1>1 DEF Rounds, K
<1>7. new \in Rounds(K) /\ new \notin Calls(n)
  <2>1. Heard(m, n) \in 0 .. K - 1
    BY <1>1, <1>5
  <2>2. new \in Rounds(K)
    BY <2>1 DEF Rounds
  <2>3. new \notin Calls(n)
    BY <1>1 DEF Calls
  <2>4. QED
    BY <2>2, <2>3
<1>8. Calls(n)' = Calls(n) \cup {new}
  <2>1. ASSUME NEW call \in Rounds(K)
        PROVE  call[2] < Heard(call[1], n)' <=> call[2] < Heard(call[1], n) \/ call = new
    <3>1. CASE call[1] = m
      BY <1>1, <1>4, <1>6, <3>1
    <3>2. CASE call[1] # m
      <4>1. Heard(call[1], n)' = Heard(call[1], n)
        BY <1>4, <1>6, <3>2
      <4>2. QED
        BY <3>2, <4>1
    <3>3. QED
      BY <3>1, <3>2
  <2>2. Calls(n)' = {call \in Rounds(K) : call[2] < Heard(call[1], n)'}
    BY <1>6 DEF Calls, K
  <2>3. Calls(n) = {call \in Rounds(K) : call[2] < Heard(call[1], n)}
    BY DEF Calls, K
  <2>4. QED
    BY <1>7, <2>1, <2>2, <2>3
<1>9. Cardinality(Calls(n))' = Cardinality(Calls(n)) + 1 /\ Cardinality(Calls(n)) \in Nat
  <2>1. IsFiniteSet(Calls(n))
    <3>1. Calls(n) \in SUBSET Rounds(K)
      BY DEF Calls, K
    <3>2. QED
      BY <1>1, <3>1, RoundsCounted, FS_Subset
  <2>2. QED
    BY <1>7, <1>8, <2>1, FS_AddElement, FS_CardinalityType
<1>10. \A j \in Nodes : j # n => Calls(j)' = Calls(j)
  <2> TAKE j \in Nodes
  <2> HAVE j # n
  <2>1. \A i \in Nodes : Heard(i, j)' = Heard(i, j)
    BY <1>4
  <2>2. QED
    BY <1>6, <2>1 DEF Calls, K
<1>11. ASSUME NEW j \in Nodes
       PROVE  barrier_count'[j] + Cardinality(Rounds(Over(j)))' = Cardinality(Calls(j))'
  <2>1. /\ Cardinality(Rounds(Over(j))) \in Nat
        /\ barrier_count[j] + Cardinality(Rounds(Over(j))) = Cardinality(Calls(j))
        /\ Rounds(Over(j))' = Rounds(Over(j)) /\ barrier_count[j] \in Nat
        /\ barrier_count'[j] = IF j = n THEN barrier_count[j] + 1 ELSE barrier_count[j]
    BY <1>1, <1>2, RoundsCounted DEF BarrierInv, StateTyped, Rounds
  <2>2. CASE j = n
    BY <1>9, <2>1, <2>2
  <2>3. CASE j # n
    BY <1>10, <2>1, <2>3
  <2>4. QED
    BY <2>2, <2>3
<1>12. \A i, j \in Nodes : Heard(i, j)' \in Nat
  <2> TAKE i, j \in Nodes
  <2>1. CASE <<i, j>> = <<m, n>>
    BY <1>1, <1>4, <2>1
  <2>2. CASE <<i, j>> # <<m, n>>
    BY <1>1, <1>4, <2>2
  <2>3. QED
    BY <2>1, <2>2
<1>13. \A i, j \in Nodes : Over(i)' <= Begun(j)'
  BY <1>2 DEF BarrierInv
<1>14. QED
  BY <1>11, <1>12, <1>13 DEF BarrierInv

\* Nobody is a whole barrier behind a node that leaves one.
LEMMA LeaveBarrierKeeps ==
    ASSUME StateTyped, QueuesTyped, BarrierInv, NEW n \in Nodes, LeaveBarrier(n)
    PROVE  BarrierInv' /\ barrier_count' \in [Nodes -> Nat]
<1>1. /\ \A j \in Nodes : /\ Over(j) \in Nat /\ Begun(j) \in Nat /\ Over(j) <= Begun(j)
                         /\ Begun(j) <= Over(j) + 1 /\ barrier_count[j] \in Nat
      /\ \A i, j \in Nodes : Over(i) <= Begun(j) /\ Heard(i, j) \in Nat /\ Heard(i, j) <= Begun(i)
  BY BarrierBounds DEF StateTyped
<1>2. /\ barrier_count[n] >= NumNodes /\ wire' = wire
      /\ barrier_count' = [barrier_count EXCEPT ![n] = @ - NumNodes]
  BY DEF LeaveBarrier, Complete, netVars
<1>3. /\ NumNodes \in Nat \ {0} /\ Cardinality(Rounds(Over(n))) \in Nat
      /\ Cardinality(Rounds(Over(n) + 1)) = Cardinality(Rounds(Over(n))) + NumNodes
      /\ barrier_count[n] + Cardinality(Rounds(Over(n))) = Cardinality(Calls(n))
  BY <1>1, RoundsCounted DEF BarrierInv
<1>4. \A j \in Nodes : Over(n) + 1 <= Begun(j)
  <2> SUFFICES ASSUME NEW j \in Nodes, Begun(j) <= Over(n)
               PROVE  FALSE
    BY <1>1
  <2>1. \A i \in Nodes : Heard(i, n) \in Nat /\ Heard(i, n) <= Over(n) + 1
    <3> TAKE i \in Nodes
    <3>1. Over(i) <= Begun(j) /\ Begun(i) <= Over(i) + 1 /\ Heard(i, n) <= Begun(i) /\ Heard(i, n) \in Nat
      BY <1>1
    <3>2. QED
      BY <1>1, <3>1
  <2>2. Heard(j, n) < Over(n) + 1
    <3>1. Heard(j, n) <= Begun(j) /\ Heard(j, n) \in Nat
      BY <1>1
    <3>2. QED
      BY <1>1, <3>1
  <2>3. Over(n) + 1 \in Nat
    BY <1>1
  <2>4. Cardinality(Calls(n)) \in Nat /\ Cardinality(Calls(n)) < Cardinality(Rounds(Over(n) + 1))
    BY <2>1, <2>2, <2>3, CallsBounded
  <2>5. QED
    BY <1>1, <1>2, <1>3, <2>4
<1>5. task \in [Nodes -> Tasks] /\ pc \in [Nodes -> Places]
  BY DEF StateTyped
<1>6. /\ Begun(n)' = Begun(n) /\ Over(n)' = Over(n) + 1
      /\ \A j \in Nodes : j # n => Begun(j)' = Begun(j) /\ Over(j)' = Over(j)
  <2>1. \A j \in Nodes : j # n => pc'[j] = pc[j] /\ task'[j] = task[j]
    BY <1>5 DEF LeaveBarrier
  <2>2. task[n] \in Int
    BY <1>5 DEF Tasks
  <2>3. Begun(n)' = Begun(n) /\ Over(n)' = Over(n) + 1
    <3>1. CASE pc[n] = "starting" /\ pc'[n] = "working" /\ task'[n] = task[n]
      BY <2>2, <3>1 DEF Begun, Over
    <3>2. CASE pc[n] = "ending" /\ pc'[n] = "run" /\ task'[n] = task[n] + 1
      BY <2>2, <3>2 DEF Begun, Over
    <3>3. CASE pc[n] = "ending" /\ pc'[n] = "stopping" /\ task'[n] = task[n]
      BY <2>2, <3>3 DEF Begun, Over
    <3>4. QED
      BY <1>5, <3>1, <3>2, <3>3 DEF LeaveBarrier
  <2>4. \A j \in Nodes : j # n => Begun(j)' = Begun(j) /\ Over(j)' = Over(j)
    BY <2>1 DEF Begun, Over
  <2>5. QED
    BY <2>3, <2>4
<1>7. \A i, j \in Nodes : Heard(i, j)' = Heard(i, j)
  <2>1. \A i, j \in Nodes : Begun(i)' = Begun(i)
    BY <1>6
  <2>2. QED
    BY <1>2, <2>1 DEF Heard
<1>8. \A j \in Nodes : Calls(j)' = Calls(j)
  <2> TAKE j \in Nodes
  <2>1. Rounds(2 * NumTasks)' = Rounds(2 * NumTasks) /\ \A call \in Rounds(2 * NumTasks) : call[1] \in Nodes
    BY DEF Rounds
  <2>2. QED
    BY <1>7, <2>1 DEF Calls
<1>9. \A j \in Nodes : Rounds(Over(j))' = Rounds(IF j = n THEN Over(j) + 1 ELSE Over(j))
  BY <1>6 DEF Rounds
<1>10. /\ barrier_count'[n] = barrier_count[n] - NumNodes /\ barrier_count' \in [Nodes -> Nat]
       /\ \A j \in Nodes : j # n => barrier_count'[j] = barrier_count[j]
  <2>1. barrier_count \in [Nodes -> Nat] /\ barrier_count[n] - NumNodes \in Nat
    BY <1>1, <1>2, <1>3 DEF StateTyped
  <2>2. QED
    BY <1>2, <2>1
<1>11. ASSUME NEW j \in Nodes
       PROVE  barrier_count'[j] + Cardinality(Rounds(Over(j)))' = Cardinality(Calls(j))'
  <2>1. CASE j = n
    BY <1>1, <1>3, <1>8, <1>9, <1>10, <2>1
  <2>2. CASE j # n
    BY <1>8, <1>9, <1>10, <2>2 DEF BarrierInv
  <2>3. QED
    BY <2>1, <2>2
<1>12. \A i, j \in Nodes : Over(i)' <= Begun(j)'
  BY <1>1, <1>4, <1>6
<1>13. \A i, j \in Nodes : Heard(i, j)' \in Nat
  BY <1>1, <1>7
<1>14. QED
  BY <1>10, <1>11, <1>12, <1>13 DEF BarrierInv

\* To every node goes one message for the barrier.
LEMMA EnterEffect ==
    ASSUME StateTyped, QueuesTyped, NEW n \in Nodes, EnterBarrier(n)
    PROVE  /\ QueuesTyped' /\ send_queue' = send_queue /\ work_queue' = work_queue
           /\ \A i \in Nodes : i # n => wire'[i] = wire[i]
           /\ \A j \in Nodes : Count(wire'[n][j], Barriers) = Count(wire[n][j], Barriers) + 1
           /\ \A V : (\A x \in V : x.flag # "kBarrier") => Alike(wire[n], wire'[n], V)
           /\ \A j \in Nodes : \A T : wire[n][j] \in Seq(T) /\ Request(Worker(n), j, "kBarrier") \in T
                                        => wire'[n][j] \in Seq(T)
<1> DEFINE b(j) == Request(Worker(n), j, "kBarrier")
<1>1. /\ wire \in [Nodes -> [Nodes -> Seq(Message)]] /\ wire' = [wire EXCEPT ![n] = [m \in Nodes |-> Append(@[m], b(m))]]
      /\ send_queue' = send_queue /\ work_queue' = work_queue
  BY DEF EnterBarrier, QueuesTyped
<1>2. \A j \in Nodes : /\ b(j) \in Message /\ b(j) \in Barriers /\ b(j) \in OnWire(n, j)
                      /\ b(j).flag = "kBarrier"
  <2> TAKE j \in Nodes
  <2>1. b(j) \in Message /\ b(j).flag = "kBarrier" /\ b(j).at = "server" /\ b(j).to = j
    BY WorkerIs DEF Request, Message
  <2>2. QED
    BY <2>1 DEF Barriers, OnWire
<1> HIDE DEF b
<1>3. /\ \A j \in Nodes : wire'[n][j] = Append(wire[n][j], b(j))
      /\ \A i \in Nodes : i # n => wire'[i] = wire[i]
      /\ \A j \in Nodes : wire[n][j] \in Seq(Message)
  BY <1>1
<1>4. wire' \in [Nodes -> [Nodes -> Seq(Message)]]
  <2>1. [m \in Nodes |-> Append(wire[n][m], b(m))] \in [Nodes -> Seq(Message)]
    BY <1>2, <1>3, AppendProperties
  <2>2. QED
    BY <1>1, <2>1
<1>5. \A j \in Nodes : \A T : wire[n][j] \in Seq(T) /\ b(j) \in T => wire'[n][j] \in Seq(T)
  <2> TAKE j \in Nodes
  <2> TAKE T
  <2>1. wire'[n][j] = Append(wire[n][j], b(j))
    BY <1>3
  <2>2. wire[n][j] \in Seq(T) /\ b(j) \in T => Append(wire[n][j], b(j)) \in Seq(T)
    BY AppendProperties
  <2>3. QED
    BY <2>1, <2>2
<1>6. QueuesTyped'
  <2>1. \A i, j \in Nodes : wire'[i][j] \in Seq(OnWire(i, j))
    BY <1>2, <1>3, <1>5 DEF QueuesTyped
  <2>2. QED
    BY <1>1, <1>4, <2>1 DEF QueuesTyped
<1>7. \A j \in Nodes : \A X : Count(wire'[n][j], X) = Count(wire[n][j], X) + One(b(j), X)
  <2> TAKE j \in Nodes
  <2> TAKE X
  <2>1. wire[n][j] \in Seq(Message) /\ b(j) \in Message /\ wire'[n][j] = Append(wire[n][j], b(j))
    BY <1>2, <1>3
  <2> DEFINE q == wire[n][j]
             x == b(j)
  <2> HIDE DEF q, x
  <2>2. q \in Seq(Message) /\ x \in Message => Count(Append(q, x), X) = Count(q, X) + One(x, X)
    BY CountAppend
  <2>3. QED
    BY <2>1, <2>2 DEF q, x
<1>8. \A j \in Nodes : Count(wire'[n][j], Barriers) = Count(wire[n][j], Barriers) + 1
  BY <1>2, <1>7 DEF One
<1>9. ASSUME NEW V, \A x \in V : x.flag # "kBarrier" PROVE Alike(wire[n], wire'[n], V)
  <2>1. \A j \in Nodes : b(j) \notin V
    BY <1>2, <1>9
  <2>2. ASSUME NEW j \in Nodes, NEW Y, Y \subseteq V PROVE Count(wire'[n][j], Y) = Count(wire[n][j], Y)
    <3>1. One(b(j), Y) = 0 /\ Count(wire[n][j], Y) \in Nat
      BY <1>3, <2>1, <2>2, CountBasics DEF One
    <3>2. QED
      BY <1>7, <3>1
  <2>3. ASSUME NEW j \in Nodes, NEW G, NEW Y, Y \subseteq V, LastIn(wire[n][j], G, Y)
        PROVE  LastIn(wire'[n][j], G, Y)
    BY <1>2, <1>3, <2>1, <2>3, LastInAppend
  <2>4. QED
    BY <2>2, <2>3 DEF Alike
<1>10. QED
  BY <1>1, <1>3, <1>5, <1>6, <1>8, <1>9 DEF b

LEMMA EnterBarrierKeeps ==
    ASSUME StateTyped, QueuesTyped, BarrierInv, NEW n \in Nodes, EnterBarrier(n)
    PROVE  BarrierInv'
<1>1. /\ \A i \in Nodes : i # n => wire'[i] = wire[i]
      /\ \A j \in Nodes : Count(wire'[n][j], Barriers) = Count(wire[n][j], Barriers) + 1
  BY EnterEffect
<1>2. task' = task /\ barrier_count' = barrier_count
  BY DEF EnterBarrier
<1>3. pc \in [Nodes -> Places] /\ \A j \in Nodes : task[j] \in Int
  BY DEF StateTyped, Tasks
<1>4. /\ \/ pc[n] = "reset" /\ pc'[n] = "starting"
         \/ pc[n] = "working" /\ pc'[n] = "ending"
      /\ \A j \in Nodes : j # n => pc'[j] = pc[j]
  BY <1>3 DEF EnterBarrier
<1>5. /\ Begun(n)' = Begun(n) + 1 /\ Over(n)' = Over(n)
      /\ \A j \in Nodes : j # n => Begun(j)' = Begun(j) /\ Over(j)' = Over(j)
  <2>1. Begun(n)' = Begun(n) + 1 /\ Over(n)' = Over(n)
    BY <1>2, <1>3, <1>4 DEF Begun, Over
  <2>2. \A j \in Nodes : j # n => Begun(j)' = Begun(j) /\ Over(j)' = Over(j)
    BY <1>2, <1>4 DEF Begun, Over
  <2>3. QED
    BY <2>1, <2>2
<1>6. \A j \in Nodes : Over(j) \in Nat /\ Begun(j) \in Nat
  BY BarrierBounds
<1>7. \A i, j \in Nodes : Heard(i, j)' = Heard(i, j)
  <2>1. \A i, j \in Nodes : Count(wire[i][j], Barriers) \in Nat
    BY CountsTyped
  <2>2. QED
    BY <1>1, <1>5, <1>6, <2>1 DEF Heard
<1>8. \A j \in Nodes : Calls(j)' = Calls(j)
  <2> TAKE j \in Nodes
  <2>1. Rounds(2 * NumTasks)' = Rounds(2 * NumTasks) /\ \A call \in Rounds(2 * NumTasks) : call[1] \in Nodes
    BY DEF Rounds
  <2>2. QED
    BY <1>7, <2>1 DEF Calls
<1>9. \A j \in Nodes : Rounds(Over(j))' = Rounds(Over(j))
  BY <1>5 DEF Rounds
<1>10. \A i, j \in Nodes : Over(i)' <= Begun(j)'
  BY <1>5, <1>6 DEF BarrierInv
<1>11. QED
  BY <1>2, <1>7, <1>8, <1>9, <1>10 DEF BarrierInv

-----------------------------------------------------------------------------
(* Resets                                                                  *)

\* Where the task of worker w is on its node.
At(w, places) == w.task = task[w.node] /\ pc[w.node] \in places

Resetting(w) == Asked(w, w.node, Resets(w))
Done(w) == Count(send_queue[w.node], ResetsDone(w)) + Count(wire[w.node][w.node], ResetsDone(w))

\* One reset is on its way, or its answer, while the node waits for it; from then
\* on the tracker is that of the task.
ResetInv(w) ==
    /\ Resetting(w) + Done(w) = IF At(w, {"resetting"}) THEN 1 ELSE 0
    /\ Done(w) > 0 \/ At(w, {"reset", "starting", "working", "ending"})
          => DOMAIN progress_tracker[w.node].progresses = AllThreads(w)

LEMMA ResetCounts ==
    ASSUME QueuesTyped, NEW w \in Thread
    PROVE  Resetting(w) \in Nat /\ Done(w) \in Nat /\ w.node \in Nodes
<1>1. w.node \in Nodes
  BY KindsOf DEF Thread
<1>2. /\ Count(send_queue[w.node], Resets(w)) \in Nat /\ Count(wire[w.node][w.node], Resets(w)) \in Nat
      /\ Count(work_queue[w.node], Resets(w)) \in Nat
      /\ Count(send_queue[w.node], ResetsDone(w)) \in Nat
      /\ Count(wire[w.node][w.node], ResetsDone(w)) \in Nat
  BY <1>1, CountsTyped
<1>3. QED
  BY <1>1, <1>2 DEF Resetting, Done, Asked

LEMMA StillKeepsReset ==
    ASSUME Still(Of({"kReset"})), NEW w \in Thread, ResetInv(w),
           At(w, {"resetting"})' <=> At(w, {"resetting"}),
           At(w, {"reset", "starting", "working", "ending"})' => At(w, {"reset", "starting", "working", "ending"}),
           DOMAIN progress_tracker'[w.node].progresses = DOMAIN progress_tracker[w.node].progresses
    PROVE  ResetInv(w)'
<1> DEFINE k == w.node
           R == Resets(w)
           D == ResetsDone(w)
<1>1. k \in Nodes /\ R \subseteq Of({"kReset"}) /\ D \subseteq Of({"kReset"})
  BY KindsByFlag DEF Thread
<1> HIDE DEF k, R, D
<1>2. /\ Count(send_queue'[k], R) = Count(send_queue[k], R) /\ Count(wire'[k][k], R) = Count(wire[k][k], R)
      /\ Count(work_queue'[k], R) = Count(work_queue[k], R)
      /\ Count(send_queue'[k], D) = Count(send_queue[k], D) /\ Count(wire'[k][k], D) = Count(wire[k][k], D)
  BY <1>1 DEF Still, Alike
<1>3. Resetting(w)' = Resetting(w) /\ Done(w)' = Done(w)
  BY <1>2 DEF Resetting, Done, Asked, k, R, D
<1>4. AllThreads(w)' = AllThreads(w)
  BY DEF AllThreads
<1>5. QED
  BY <1>3, <1>4 DEF ResetInv

LEMMA ForwardKeepsReset ==
    ASSUME QueuesTyped, NEW n \in Nodes, Forward(n), UNCHANGED <<pc, task, progress_tracker>>,
           NEW w \in Thread, ResetInv(w)
    PROVE  ResetInv(w)'
<1> DEFINE k == w.node
           R == Resets(w)
           D == ResetsDone(w)
<1>1. k \in Nodes /\ (\A y \in R : y.to = k) /\ (\A y \in D : y.to = k)
  BY DEF Thread, Resets, ResetsDone
<1> HIDE DEF k, R, D
<1>2. /\ Count(send_queue'[k], R) + Count(wire'[k][k], R) = Count(send_queue[k], R) + Count(wire[k][k], R)
      /\ Count(send_queue'[k], D) + Count(wire'[k][k], D) = Count(send_queue[k], D) + Count(wire[k][k], D)
  BY <1>1, ForwardConserves
<1>3. work_queue' = work_queue
  BY DEF Forward
<1>4. Resetting(w)' = Resetting(w) /\ Done(w)' = Done(w)
  BY <1>2, <1>3 DEF Resetting, Done, Asked, k, R, D
<1>5. QED
  BY <1>4 DEF ResetInv, At, AllThreads

LEMMA DeliverKeepsReset ==
    ASSUME QueuesTyped, NEW i \in Nodes, NEW n \in Nodes, Deliver(i, n), UNCHANGED <<pc, task, progress_tracker>>,
           NEW w \in Thread, ResetInv(w)
    PROVE  ResetInv(w)'
<1> DEFINE k == w.node
           R == Resets(w)
           D == ResetsDone(w)
           x == Head(wire[i][n])
<1>1. k \in Nodes /\ (\A y \in R : y.to = k) /\ (\A y \in R : y \in OnWire(i, n) => k = i) /\ (\A y \in D : y.at = "main")
  BY SenderOf DEF Thread, Resets, ResetsDone
<1>2. /\ Popped(wire[i], wire'[i], n, x) /\ \A h \in Nodes : h # i => wire'[h] = wire[h]
      /\ x.at = "server" /\ QueuesTyped'
  BY DeliverEffect DEF Deliver
<1> HIDE DEF k, R, D, x
<1>3. /\ Count(wire'[k][k], R) + Count(work_queue'[k], R) = Count(wire[k][k], R) + Count(work_queue[k], R)
      /\ Count(wire'[k][k], R) \in Nat /\ Count(work_queue'[k], R) \in Nat
      /\ Count(wire[k][k], R) \in Nat /\ Count(work_queue[k], R) \in Nat
  BY <1>1, DeliverConserves
<1>4. Count(send_queue[k], R) \in Nat /\ send_queue' = send_queue
  BY <1>1, CountsTyped DEF Deliver, Read
<1>5. Count(wire'[k][k], D) = Count(wire[k][k], D)
  <2>1. One(x, D) = 0
    BY <1>1, <1>2 DEF One
  <2>2. wire[k][k] \in Seq(Message) /\ wire'[k][k] \in Seq(Message)
    BY <1>1, <1>2 DEF QueuesTyped
  <2>3. Count(wire[k][k], D) \in Nat /\ Count(wire'[k][k], D) \in Nat
    BY <2>2, CountBasics
  <2>4. CASE k = i
    BY <1>1, <1>2, <2>1, <2>3, <2>4 DEF Popped
  <2>5. CASE k # i
    BY <1>1, <1>2, <2>5
  <2>6. QED
    BY <2>4, <2>5
<1>6. Resetting(w)' = Resetting(w)
  BY <1>3, <1>4 DEF Resetting, Asked, k, R
<1>7. Done(w)' = Done(w)
  BY <1>4, <1>5 DEF Done, k, D
<1>8. QED
  BY <1>6, <1>7 DEF ResetInv, At, AllThreads

\* StartTask sends one for the task.
LEMMA StartKeepsReset ==
    ASSUME QueuesTyped, StateTyped, NEW n \in Nodes, StartTask(n), NEW w \in Thread, ResetInv(w)
    PROVE  ResetInv(w)'
<1> DEFINE k == w.node
           R == Resets(w)
           D == ResetsDone(w)
           x == Request(Worker(n), n, "kReset")
<1>1. /\ x \in Message /\ (x \in R <=> w = Worker(n)) /\ x \notin D /\ k \in Nodes
      /\ Worker(n).node = n /\ Worker(n).task = task[n]
      /\ (k = n /\ w.task = task[n]) => w = Worker(n)
  <2>1. x \in Message /\ x.flag = "kReset" /\ x.at = "server" /\ x.of = Worker(n) /\ x.to = n
    BY WorkerIs DEF Request, Message
  <2> HIDE DEF x
  <2>2. Worker(n).node = n /\ Worker(n).task = task[n] /\ ((k = n /\ w.task = task[n]) => w = Worker(n)) /\ k \in Nodes
    BY WorkerIs, KindsOf DEF Thread
  <2>3. x \in R <=> w = Worker(n)
    BY <2>1, <2>2 DEF Resets
  <2>4. x \notin D
    BY <2>1 DEF ResetsDone
  <2>5. QED
    BY <2>1, <2>2, <2>3, <2>4
<1>2. Pushed(send_queue, send_queue', n, x)
  BY <1>1, PushEffect DEF StartTask, QueuesTyped
<1>3. /\ wire' = wire /\ work_queue' = work_queue /\ task' = task /\ progress_tracker' = progress_tracker
      /\ pc[n] = "run" /\ pc'[n] = "resetting" /\ \A j \in Nodes : j # n => pc'[j] = pc[j]
  BY DEF StartTask, serverVars, StateTyped
<1>4. Resetting(w) \in Nat /\ Done(w) \in Nat
  BY ResetCounts
<1> HIDE DEF k, R, D, x
<1>5. /\ Count(send_queue[k], R) \in Nat /\ Count(wire[k][k], R) \in Nat /\ Count(work_queue[k], R) \in Nat
      /\ Count(send_queue[k], D) \in Nat
  BY <1>1, CountsTyped
<1>6. Resetting(w)' = Resetting(w) + IF w = Worker(n) THEN 1 ELSE 0
  <2>1. Count(send_queue'[k], R) = Count(send_queue[k], R) + IF w = Worker(n) THEN 1 ELSE 0
    <3>1. Count(send_queue'[k], R) = Count(send_queue[k], R) + (IF k = n THEN One(x, R) ELSE 0)
      BY <1>1, <1>2 DEF Pushed
    <3>2. w = Worker(n) => k = n
      BY <1>1 DEF k
    <3>3. One(x, R) = IF w = Worker(n) THEN 1 ELSE 0
      BY <1>1 DEF One
    <3>4. QED
      BY <1>5, <3>1, <3>2, <3>3
  <2>2. QED
    BY <1>3, <1>5, <2>1 DEF Resetting, Asked, k, R
<1>7. Done(w)' = Done(w)
  <2>1. Count(send_queue'[k], D) = Count(send_queue[k], D) + (IF k = n THEN One(x, D) ELSE 0)
    BY <1>1, <1>2 DEF Pushed
  <2>2. Count(send_queue'[k], D) = Count(send_queue[k], D)
    BY <1>1, <1>5, <2>1 DEF One
  <2>3. QED
    BY <1>3, <2>2 DEF Done, k, D
<1>8. CASE w = Worker(n)
  <2>1. ~At(w, {"resetting"}) /\ At(w, {"resetting"})' /\ ~At(w, {"reset", "starting", "working", "ending"})'
    BY <1>1, <1>3, <1>8 DEF At
  <2>2. Resetting(w) = 0 /\ Done(w) = 0
    BY <1>4, <2>1 DEF ResetInv
  <2>3. QED
    BY <1>6, <1>7, <1>8, <2>1, <2>2 DEF ResetInv
<1>9. CASE w # Worker(n)
  <2>1. \A places : At(w, places)' <=> At(w, places)
    BY <1>1, <1>3, <1>9 DEF At, k
  <2>2. Resetting(w)' = Resetting(w)
    BY <1>4, <1>6, <1>9
  <2>3. QED
    BY <1>3, <1>7, <2>1, <2>2 DEF ResetInv, AllThreads
<1>10. QED
  BY <1>8, <1>9

\* InitTable has its answer: the tracker is that of the task.
LEMMA ResetDoneKeepsReset ==
    ASSUME QueuesTyped, StateTyped, \A v \in Thread : ResetInv(v), NEW i \in Nodes, NEW n \in Nodes, Read(i, n),
           Head(wire[i][n]).at = "main",
           pc' = [pc EXCEPT ![n] = "reset"], UNCHANGED <<work_queue, task, progress_tracker>>,
           NEW w \in Thread
    PROVE  ResetInv(w)' /\ pc[n] = "resetting"
<1> DEFINE x == Head(wire[i][n])
<1>1. /\ x \in Message /\ x.at = "main" /\ x \in OnWire(i, n) /\ QueuesTyped'
      /\ Popped(wire[i], wire'[i], n, x) /\ \A h \in Nodes : h # i => wire'[h] = wire[h]
  BY ReadEffect
<1>2. PICK v \in Thread : x \in ResetsDone(v) /\ v.node = i /\ i = n
  <2>1. x.of \in Thread
    BY <1>1 DEF Message
  <2>2. x \in ResetsDone(x.of)
    BY <1>1, <2>1, SenderOf
  <2>3. QED
    BY <1>1, <2>1, <2>2, SenderOf
<1>3. send_queue' = send_queue
  BY DEF Read
<1> HIDE DEF x
<1>4. ASSUME NEW u \in Thread
      PROVE  Resetting(u)' = Resetting(u) /\ Done(u) = Done(u)' + IF u = v THEN 1 ELSE 0
  <2> DEFINE k == u.node
             R == Resets(u)
             D == ResetsDone(u)
  <2>1. /\ k \in Nodes /\ x \notin R /\ (x \in D <=> u = v) /\ (u = v => k = i)
    BY <1>1, <1>2 DEF Thread, Resets, ResetsDone
  <2> HIDE DEF k, R, D
  <2>2. One(x, R) = 0 /\ One(x, D) = IF u = v THEN 1 ELSE 0
    BY <2>1 DEF One
  <2>3. /\ Count(wire[k][k], R) \in Nat /\ Count(wire[k][k], D) \in Nat
        /\ Count(wire'[k][k], R) \in Nat /\ Count(wire'[k][k], D) \in Nat
    <3>1. wire[k][k] \in Seq(Message) /\ wire'[k][k] \in Seq(Message)
      BY <1>1, <2>1 DEF QueuesTyped
    <3>2. QED
      BY <3>1, CountBasics
  <2>4. Count(wire'[k][k], R) = Count(wire[k][k], R) /\ Count(wire[k][k], D) = Count(wire'[k][k], D) + IF u = v THEN 1 ELSE 0
    <3>1. CASE k = i
      <4>1. /\ Count(wire[k][k], R) = Count(wire'[k][k], R) + (IF k = n THEN One(x, R) ELSE 0)
            /\ Count(wire[k][k], D) = Count(wire'[k][k], D) + (IF k = n THEN One(x, D) ELSE 0)
        BY <1>1, <2>1, <3>1 DEF Popped
      <4>2. QED
        BY <1>2, <2>2, <2>3, <3>1, <4>1
    <3>2. CASE k # i
      BY <1>1, <2>1, <2>3, <3>2
    <3>3. QED
      BY <3>1, <3>2
  <2>5. Resetting(u)' = Resetting(u)
    BY <1>3, <2>4 DEF Resetting, Asked, k, R
  <2>6. Count(send_queue[k], D) \in Nat
    BY <2>1, CountsTyped
  <2>7. Done(u) = Count(send_queue[k], D) + Count(wire[k][k], D) /\ Done(u)' = Count(send_queue[k], D) + Count(wire'[k][k], D)
    BY <1>3 DEF Done, k, D
  <2>8. QED
    BY <2>3, <2>4, <2>5, <2>6, <2>7
<1>5. \A u \in Thread : Resetting(u) \in Nat /\ Done(u) \in Nat /\ Done(u)' \in Nat
  <2> TAKE u \in Thread
  <2>1. Resetting(u) \in Nat /\ Done(u) \in Nat /\ u.node \in Nodes
    BY ResetCounts
  <2>2. Count(send_queue[u.node], ResetsDone(u)) \in Nat
    BY <2>1, CountsTyped
  <2>3. wire'[u.node][u.node] \in Seq(Message)
    <3>1. wire' \in [Nodes -> [Nodes -> Seq(Message)]]
      BY <1>1 DEF QueuesTyped
    <3>2. QED
      BY <2>1, <3>1
  <2>4. Count(wire'[u.node][u.node], ResetsDone(u)) \in Nat
    BY <2>3, CountBasics
  <2>5. QED
    BY <1>3, <2>1, <2>2, <2>4 DEF Done
<1>6. /\ At(v, {"resetting"}) /\ Resetting(v) = 0 /\ Done(v) = 1 /\ Done(v)' = 0
      /\ DOMAIN progress_tracker[n].progresses = AllThreads(v)
  <2>1. ResetInv(v) /\ Resetting(v) \in Nat /\ Done(v) \in Nat /\ Done(v)' \in Nat /\ Done(v) = Done(v)' + 1
    BY <1>2, <1>4, <1>5
  <2>2. At(v, {"resetting"})
    BY <2>1 DEF ResetInv
  <2>3. Resetting(v) + Done(v) = 1
    BY <2>1, <2>2 DEF ResetInv
  <2>4. QED
    BY <1>2, <2>1, <2>2, <2>3 DEF ResetInv
<1>7. v.task = task[n] /\ pc[n] = "resetting" /\ pc'[n] = "reset" /\ \A j \in Nodes : j # n => pc'[j] = pc[j]
  BY <1>2, <1>6 DEF At, StateTyped
<1>8. CASE w = v
  <2>1. ~At(v, {"resetting"})'
    BY <1>2, <1>7 DEF At
  <2>2. Resetting(w)' + Done(w)' = 0
    BY <1>2, <1>4, <1>6, <1>8
  <2>3. QED
    BY <1>2, <1>6, <1>8, <2>1, <2>2, <1>7 DEF ResetInv, AllThreads
<1>9. CASE w # v
  <2>1. \A places : At(w, places)' <=> At(w, places)
    <3>1. w.node # n \/ w.task # task[n]
      BY <1>2, <1>7, <1>9 DEF Thread
    <3>2. w.node \in Nodes
      BY DEF Thread
    <3>3. QED
      BY <1>7, <3>1, <3>2 DEF At
  <2>2. Resetting(w)' = Resetting(w) /\ Done(w)' = Done(w)
    BY <1>4, <1>5, <1>9
  <2>3. QED
    BY <1>7, <2>1, <2>2 DEF ResetInv, AllThreads
<1>10. QED
  BY <1>7, <1>8, <1>9

\* What ResetWorker answers.
LEMMA ResetAnswerIs ==
    ASSUME NEW n \in Nodes, NEW x \in Work(n), x.flag = "kReset"
    PROVE  LET y == Reply(x, "main", {})
               s == <<y>>
           IN  /\ x \in Resets(x.of) /\ x.of \in Thread /\ x.of.node = n
               /\ y \in Message /\ y \in ResetsDone(x.of) /\ y \in Sent(n) /\ y.at = "main" /\ y.flag = "kReset"
               /\ s \in Seq(Message) /\ s \in Seq(Sent(n)) /\ \A T : y \in T => s \in Seq(T)
               /\ \A X : Count(s, X) = One(y, X)
<1> DEFINE y == Reply(x, "main", {})
           s == <<y>>
<1>1. x \in Message /\ x.to = n /\ x \in Resets(x.of) /\ x.of \in Thread /\ x.of.node = n
  BY DEF Work, IsRequest, Exits, Resets, Message
<1>2. y \in Message /\ y.of = x.of /\ y.at = "main" /\ y.flag = "kReset" /\ y.to = n
  BY <1>1 DEF Reply, Message
<1> HIDE DEF y
<1>3. y \in ResetsDone(x.of) /\ y \in Sent(n)
  BY <1>1, <1>2 DEF ResetsDone, Sent
<1>4. \A T : y \in T => s \in Seq(T) /\ \A X : Count(s, X) = One(y, X)
  BY CountOne
<1>5. QED
  BY <1>1, <1>2, <1>3, <1>4 DEF y

\* ResetWorker moves the reset from the work queue to its answer.
LEMMA ServeResetKeepsReset ==
    ASSUME QueuesTyped, \A v \in Thread : ResetInv(v), NEW n \in Nodes, NEW x, NEW s, Serve(n, x, s),
           x.flag = "kReset", s = <<Reply(x, "main", {})>>,
           progress_tracker \in [Nodes -> Tracker],
           progress_tracker' = [progress_tracker EXCEPT ![n] = TrackerInit(AllThreads(x.of))],
           NEW w \in Thread
    PROVE  ResetInv(w)'
<1> DEFINE v == x.of
           y == Reply(x, "main", {})
<1>1. /\ x \in Message /\ x \in Work(n) /\ QueuesTyped'
      /\ Popped(work_queue, work_queue', n, x)
      /\ Extended(send_queue, send_queue', n, s)
      /\ wire' = wire
  BY ServeEffect
<1>2. /\ x \in Resets(v) /\ v \in Thread /\ v.node = n /\ y \in ResetsDone(v) /\ y.at = "main"
      /\ s \in Seq(Message) /\ \A X : Count(s, X) = One(y, X)
  BY <1>1, ResetAnswerIs
<1>3. pc' = pc /\ task' = task
  BY DEF Serve
<1> HIDE DEF v, y
<1>4. ASSUME NEW u \in Thread
      PROVE  /\ Resetting(u) = Resetting(u)' + IF u = v THEN 1 ELSE 0
             /\ Done(u)' = Done(u) + IF u = v THEN 1 ELSE 0
             /\ Resetting(u) \in Nat /\ Done(u) \in Nat /\ Resetting(u)' \in Nat
  <2> DEFINE k == u.node
             R == Resets(u)
             D == ResetsDone(u)
  <2>1. k \in Nodes /\ (x \in R <=> u = v) /\ (y \in D <=> u = v) /\ (u = v => k = n) /\ y \notin R
    BY <1>2 DEF Thread, Resets, ResetsDone
  <2> HIDE DEF k, R, D
  <2>2. One(x, R) = (IF u = v THEN 1 ELSE 0) /\ Count(s, D) = (IF u = v THEN 1 ELSE 0) /\ Count(s, R) = 0
    BY <1>2, <2>1 DEF One
  <2>3. /\ Count(send_queue[k], R) \in Nat /\ Count(wire[k][k], R) \in Nat /\ Count(work_queue[k], R) \in Nat
        /\ Count(send_queue[k], D) \in Nat /\ Count(wire[k][k], D) \in Nat
    BY <2>1, CountsTyped
  <2>4. Count(work_queue'[k], R) \in Nat
    <3>1. work_queue'[k] \in Seq(Message)
      BY <1>1, <2>1 DEF QueuesTyped
    <3>2. QED
      BY <3>1, CountBasics
  <2>5. Count(work_queue[k], R) = Count(work_queue'[k], R) + IF u = v THEN 1 ELSE 0
    <3>1. Count(work_queue[k], R) = Count(work_queue'[k], R) + (IF k = n THEN One(x, R) ELSE 0)
      BY <1>1, <2>1 DEF Popped
    <3>2. QED
      BY <2>1, <2>2, <2>4, <3>1
  <2>6. /\ Count(send_queue'[k], R) = Count(send_queue[k], R)
        /\ Count(send_queue'[k], D) = Count(send_queue[k], D) + IF u = v THEN 1 ELSE 0
    <3>1. /\ Count(send_queue'[k], R) = Count(send_queue[k], R) + (IF k = n THEN Count(s, R) ELSE 0)
          /\ Count(send_queue'[k], D) = Count(send_queue[k], D) + (IF k = n THEN Count(s, D) ELSE 0)
      BY <1>1, <2>1 DEF Extended
    <3>2. QED
      BY <2>1, <2>2, <2>3, <3>1
  <2>7. /\ Resetting(u) = Count(send_queue[k], R) + Count(wire[k][k], R) + Count(work_queue[k], R)
        /\ Resetting(u)' = Count(send_queue'[k], R) + Count(wire[k][k], R) + Count(work_queue'[k], R)
        /\ Done(u) = Count(send_queue[k], D) + Count(wire[k][k], D)
        /\ Done(u)' = Count(send_queue'[k], D) + Count(wire[k][k], D)
    BY <1>1 DEF Resetting, Done, Asked, k, R, D
  <2>8. QED
    BY <2>3, <2>4, <2>5, <2>6, <2>7
<1>5. At(v, {"resetting"}) /\ Done(v) = 0 /\ Resetting(v) = 1
  <2>1. ResetInv(v) /\ Resetting(v) > 0 /\ Resetting(v) \in Nat /\ Done(v) \in Nat
    BY <1>2, <1>4
  <2>2. QED
    BY <2>1 DEF ResetInv
<1>6. \A places : At(w, places)' <=> At(w, places)
  BY <1>3 DEF At
<1>7. Resetting(w)' + Done(w)' = Resetting(w) + Done(w)
  BY <1>4
<1>8. AllThreads(w)' = AllThreads(w) /\ w.node \in Nodes
  BY DEF AllThreads, Thread
<1>9. CASE w.node = n
  <2>1. progress_tracker'[n] = TrackerInit(AllThreads(v))
    BY DEF v
  <2>2. DOMAIN progress_tracker'[n].progresses = AllThreads(v)
    BY <2>1 DEF TrackerInit
  <2>3. CASE w = v
    BY <1>6, <1>7, <1>8, <1>9, <2>2, <2>3 DEF ResetInv
  <2>4. CASE w # v
    <3>1. \A places : ~At(w, places)
      BY <1>2, <1>5, <1>9, <2>4 DEF At, Thread
    <3>2. Done(w) = 0 /\ Done(w)' = 0
      BY <1>4, <2>4, <3>1 DEF ResetInv
    <3>3. QED
      BY <1>6, <1>7, <3>1, <3>2 DEF ResetInv
  <2>5. QED
    BY <2>3, <2>4
<1>10. CASE w.node # n
  <2>1. progress_tracker'[w.node] = progress_tracker[w.node]
    BY <1>8, <1>10
  <2>2. w # v
    BY <1>2, <1>10
  <2>3. Done(w)' = Done(w)
    BY <1>4, <2>2
  <2>4. QED
    BY <1>6, <1>7, <1>8, <2>1, <2>3 DEF ResetInv
<1>11. QED
  BY <1>9, <1>10

-----------------------------------------------------------------------------
(* Adds                                                                    *)

\* Every Add called is in the storage of the server or on its way there.
StorageInv(w, m) ==
    /\ w \notin added => Asked(w, m, Adds(w, m)) = 0
    /\ w \in added => w \in storage[m] \/ Asked(w, m, Adds(w, m)) > 0

LEMMA AskedSame ==
    ASSUME QueuesTyped, NEW w \in Thread, NEW m \in Nodes, NEW Y, Y \subseteq Requests(w, m)
    PROVE  /\ Asked(w, m, Y) \in Nat /\ Asked(w, m, Y) <= Asked(w, m, Requests(w, m))
           /\ \A n \in Nodes : Forward(n) => Asked(w, m, Y)' = Asked(w, m, Y)
           /\ \A i, n \in Nodes : Deliver(i, n) => Asked(w, m, Y)' = Asked(w, m, Y)
           /\ Still(Of(Flags)) => Asked(w, m, Y)' = Asked(w, m, Y)
<1> DEFINE X == Requests(w, m)
           k == w.node
<1>1. k \in Nodes /\ (\A y \in Y : y.to = m /\ y \in X) /\ Y \subseteq Of(Flags)
  <2>1. X \subseteq Of(Flags)
    BY KindsByFlag
  <2>2. QED
    BY <2>1, KindsOf
<1> HIDE DEF X, k
<1>2. /\ Count(send_queue[k], X) \in Nat /\ Count(wire[k][m], X) \in Nat /\ Count(work_queue[m], X) \in Nat
      /\ Count(send_queue[k], Y) \in Nat /\ Count(wire[k][m], Y) \in Nat /\ Count(work_queue[m], Y) \in Nat
      /\ Count(send_queue[k], Y) <= Count(send_queue[k], X) /\ Count(wire[k][m], Y) <= Count(wire[k][m], X)
      /\ Count(work_queue[m], Y) <= Count(work_queue[m], X)
  BY <1>1, CountsTyped DEF X
<1>3. Asked(w, m, Y) \in Nat /\ Asked(w, m, Y) <= Asked(w, m, X)
  BY <1>2 DEF Asked, k
<1>4. ASSUME NEW n \in Nodes, Forward(n) PROVE Asked(w, m, Y)' = Asked(w, m, Y)
  <2>1. Count(send_queue'[k], Y) + Count(wire'[k][m], Y) = Count(send_queue[k], Y) + Count(wire[k][m], Y)
    BY <1>1, <1>4, ForwardConserves
  <2>2. work_queue' = work_queue
    BY <1>4 DEF Forward
  <2>3. QED
    BY <2>1, <2>2 DEF Asked, k
<1>5. ASSUME NEW i \in Nodes, NEW n \in Nodes, Deliver(i, n) PROVE Asked(w, m, Y)' = Asked(w, m, Y)
  <2>1. k \in Nodes /\ (\A y \in Y : y.to = m) /\ (\A y \in Y : y \in OnWire(i, n) => k = i)
    BY <1>1, SenderOf DEF X, k
  <2>2. /\ Count(wire'[k][m], Y) + Count(work_queue'[m], Y) = Count(wire[k][m], Y) + Count(work_queue[m], Y)
        /\ Count(wire'[k][m], Y) \in Nat /\ Count(work_queue'[m], Y) \in Nat
    BY <1>5, <2>1, DeliverConserves
  <2>3. send_queue' = send_queue
    BY <1>5 DEF Deliver, Read
  <2>4. QED
    BY <1>2, <2>2, <2>3 DEF Asked, k
<1>6. ASSUME Still(Of(Flags)) PROVE Asked(w, m, Y)' = Asked(w, m, Y)
  <2>1. /\ Count(send_queue'[k], Y) = Count(send_queue[k], Y) /\ Count(wire'[k][m], Y) = Count(wire[k][m], Y)
        /\ Count(work_queue'[m], Y) = Count(work_queue[m], Y)
    BY <1>1, <1>6 DEF Still, Alike
  <2>2. QED
    BY <2>1 DEF Asked, k
<1>7. QED
  BY <1>3, <1>4, <1>5, <1>6 DEF X

LEMMA AskedServe ==
    ASSUME QueuesTyped, NEW n \in Nodes, NEW x, NEW s, Serve(n, x, s),
           NEW w \in Thread, NEW m \in Nodes, NEW Y, Y \subseteq Requests(w, m)
    PROVE  /\ Asked(w, m, Y) = Asked(w, m, Y)' + One(x, Y)
           /\ Asked(w, m, Y)' \in Nat
<1> DEFINE k == w.node
<1>1. /\ x.to = n /\ QueuesTyped' /\ wire' = wire
      /\ Popped(work_queue, work_queue', n, x) /\ Extended(send_queue, send_queue', n, s)
  BY ServeEffect DEF Work
<1>2. k \in Nodes /\ (x \in Y => m = n) /\ s \in Seq(Message) /\ Count(s, Requests(w, m)) = 0
  BY <1>1, KindsOf DEF Serve
<1>3. Count(s, Y) = 0
  <2>1. Count(s, Y) \in Nat /\ Count(s, Y) <= Count(s, Requests(w, m))
    BY <1>2, CountBasics
  <2>2. QED
    BY <1>2, <2>1
<1> HIDE DEF k
<1>4. /\ Count(send_queue[k], Y) \in Nat /\ Count(wire[k][m], Y) \in Nat /\ Count(work_queue[m], Y) \in Nat
      /\ Count(work_queue'[m], Y) \in Nat
  <2>1. work_queue'[m] \in Seq(Message)
    BY <1>1 DEF QueuesTyped
  <2>2. QED
    BY <1>2, <2>1, CountsTyped, CountBasics
<1>5. Count(work_queue[m], Y) = Count(work_queue'[m], Y) + One(x, Y)
  <2>1. Count(work_queue[m], Y) = Count(work_queue'[m], Y) + (IF m = n THEN One(x, Y) ELSE 0)
    BY <1>1 DEF Popped
  <2>2. m # n => One(x, Y) = 0
    BY <1>2 DEF One
  <2>3. QED
    BY <2>1, <2>2
<1>6. Count(send_queue'[k], Y) = Count(send_queue[k], Y)
  <2>1. Count(send_queue'[k], Y) = Count(send_queue[k], Y) + (IF k = n THEN Count(s, Y) ELSE 0)
    BY <1>1, <1>2 DEF Extended
  <2>2. QED
    BY <1>3, <1>4, <2>1
<1>7. /\ Asked(w, m, Y) = Count(send_queue[k], Y) + Count(wire[k][m], Y) + Count(work_queue[m], Y)
      /\ Asked(w, m, Y)' = Count(send_queue'[k], Y) + Count(wire[k][m], Y) + Count(work_queue'[m], Y)
  BY <1>1 DEF Asked, k
<1>8. One(x, Y) \in Nat
  BY DEF One
<1>9. QED
  BY <1>4, <1>5, <1>6, <1>7, <1>8

LEMMA AsksKeepsStorage ==
    ASSUME QueuesTyped, StateTyped, NEW n \in Nodes, Asks(n),
           added' = (IF Head(todo[n]) = "kAdd" THEN added \cup {Worker(n)} ELSE added), storage' = storage,
           NEW w \in Thread, NEW m \in Nodes, StorageInv(w, m)
    PROVE  StorageInv(w, m)'
<1> DEFINE s == Round(Worker(n), Head(todo[n]))
           Y == Adds(w, m)
           k == w.node
<1>1. /\ Head(todo[n]) \in Flags /\ s \in Seq(Message) /\ Worker(n) \in Thread /\ Worker(n).node = n
      /\ Extended(send_queue, send_queue', n, s) /\ wire' = wire /\ work_queue' = work_queue
  BY AsksEffect, WorkerIs DEF Asks
<1>2. k \in Nodes /\ (w = Worker(n) => k = n) /\ Y \subseteq Requests(w, m)
  BY <1>1, KindsOf
<1>3. Count(s, Y) = IF w = Worker(n) /\ Head(todo[n]) = "kAdd" THEN 1 ELSE 0
  <2>1. CASE w = Worker(n)
    BY <1>1, <2>1, RoundEffect
  <2>2. CASE w # Worker(n)
    <3>1. Count(s, Requests(w, m)) = 0
      BY <1>1, <2>2, RoundEffect
    <3>2. Count(s, Y) \in Nat /\ Count(s, Y) <= Count(s, Requests(w, m))
      BY <1>1, <1>2, CountBasics
    <3>3. QED
      BY <2>2, <3>1, <3>2
  <2>3. QED
    BY <2>1, <2>2
<1> HIDE DEF s, Y, k
<1>4. /\ Count(send_queue[k], Y) \in Nat /\ Count(wire[k][m], Y) \in Nat /\ Count(work_queue[m], Y) \in Nat
  BY <1>2, CountsTyped
<1>5. Count(send_queue'[k], Y) = Count(send_queue[k], Y) + IF w = Worker(n) /\ Head(todo[n]) = "kAdd" THEN 1 ELSE 0
  <2>1. Count(send_queue'[k], Y) = Count(send_queue[k], Y) + (IF k = n THEN Count(s, Y) ELSE 0)
    BY <1>1, <1>2 DEF Extended
  <2>2. QED
    BY <1>2, <1>3, <1>4, <2>1
<1>6. /\ Asked(w, m, Y) = Count(send_queue[k], Y) + Count(wire[k][m], Y) + Count(work_queue[m], Y)
      /\ Asked(w, m, Y)' = Count(send_queue'[k], Y) + Count(wire[k][m], Y) + Count(work_queue[m], Y)
  BY <1>1 DEF Asked, k, Y
<1>7. StorageInv(w, m) <=> /\ w \notin added => Asked(w, m, Y) = 0
                           /\ w \in added => w \in storage[m] \/ Asked(w, m, Y) > 0
  BY DEF StorageInv, Y
<1>8. StorageInv(w, m)' <=> /\ w \notin added' => Asked(w, m, Y)' = 0
                            /\ w \in added' => w \in storage[m] \/ Asked(w, m, Y)' > 0
  BY DEF StorageInv, Y
<1>9. CASE w = Worker(n) /\ Head(todo[n]) = "kAdd"
  BY <1>4, <1>5, <1>6, <1>8, <1>9
<1>10. CASE ~(w = Worker(n) /\ Head(todo[n]) = "kAdd")
  <2>1. Asked(w, m, Y)' = Asked(w, m, Y)
    BY <1>4, <1>5, <1>6, <1>10
  <2>2. w \in added' <=> w \in added
    BY <1>10
  <2>3. QED
    BY <1>7, <1>8, <2>1, <2>2
<1>11. QED
  BY <1>9, <1>10

LEMMA ServeKeepsStorage ==
    ASSUME QueuesTyped, NEW n \in Nodes, NEW x, NEW s, Serve(n, x, s), storage \in [Nodes -> SUBSET Thread],
           added' = added,
           storage' = (IF x.flag = "kAdd" THEN [storage EXCEPT ![n] = @ \cup {x.of}] ELSE storage),
           NEW w \in Thread, NEW m \in Nodes, StorageInv(w, m)
    PROVE  StorageInv(w, m)'
<1> DEFINE Y == Adds(w, m)
<1>1. Y \subseteq Requests(w, m)
  BY KindsOf
<1>2. x \in Y => x.flag = "kAdd" /\ x.of = w /\ x.to = m
  BY DEF Adds, Requests
<1>3. x.to = n
  BY ServeEffect DEF Work
<1> HIDE DEF Y
<1>4. Asked(w, m, Y) = Asked(w, m, Y)' + One(x, Y) /\ Asked(w, m, Y)' \in Nat
  BY <1>1, AskedServe
<1>5. StorageInv(w, m) <=> /\ w \notin added => Asked(w, m, Y) = 0
                           /\ w \in added => w \in storage[m] \/ Asked(w, m, Y) > 0
  BY DEF StorageInv, Y
<1>6. StorageInv(w, m)' <=> /\ w \notin added => Asked(w, m, Y)' = 0
                            /\ w \in added => w \in storage'[m] \/ Asked(w, m, Y)' > 0
  BY DEF StorageInv, Y
<1>7. storage[m] \subseteq storage'[m]
  OBVIOUS
<1>8. CASE x \in Y
  <2>1. w \in storage'[m] /\ Asked(w, m, Y) > 0
    BY <1>2, <1>3, <1>4, <1>8 DEF One
  <2>2. QED
    BY <1>5, <1>6, <2>1
<1>9. CASE x \notin Y
  <2>1. Asked(w, m, Y)' = Asked(w, m, Y)
    BY <1>4, <1>9 DEF One
  <2>2. QED
    BY <1>5, <1>6, <1>7, <2>1
<1>10. QED
  BY <1>8, <1>9

-----------------------------------------------------------------------------
(* The invariant, and what follows from it                                 *)

\* The messages that, if they answer a worker, hold the Adds of earlier tasks.
Seen == {x \in Message : x.at = "worker" => {a \in added : a.task < x.of.task} \subseteq x.adds}
SeenInv ==
    /\ \A n \in Nodes : send_queue[n] \in Seq(Seen)
    /\ \A m, n \in Nodes : wire[m][n] \in Seq(Seen)

\* The servers of which the worker of n has to hear.
Waiting(n) == {m \in Nodes : Outstanding(Worker(n), m) = 1}
PendingInv == \A n \in Nodes : pending[n] = Cardinality(Waiting(n))

WorkersInv ==
    /\ \A w \in Thread : ResetInv(w)
    /\ \A w \in Thread, m \in Nodes : FlowInv(w, m) /\ StorageInv(w, m)

IInv ==
    /\ StateTyped /\ QueuesTyped /\ ParkedOnce
    /\ BarrierInv /\ WorkersInv
    /\ TodoEndsWithGet /\ PendingInv /\ SeenInv
    /\ \A n \in Nodes : storage[n] \subseteq added
    /\ lost = {} /\ aborted = FALSE

LEMMA NothingAsked ==
    ASSUME QueuesTyped, NEW w \in Thread, NEW m \in Nodes, FlowInv(w, m), ~Active(w)
    PROVE  /\ Outstanding(w, m) = 0
           /\ \A Y : Y \subseteq Requests(w, m) => Asked(w, m, Y) = 0
<1>1. Asked(w, m, Requests(w, m)) = 0 /\ Outstanding(w, m) = 0
  BY DEF FlowInv, AsksOrders
<1>2. ASSUME NEW Y, Y \subseteq Requests(w, m) PROVE Asked(w, m, Y) = 0
  <2>1. Asked(w, m, Y) \in Nat /\ Asked(w, m, Y) <= Asked(w, m, Requests(w, m))
    BY <1>2, AskedSame
  <2>2. QED
    BY <1>1, <2>1
<1>3. QED
  BY <1>1, <1>2

\* A worker whose message is with a server, or whose answer is, is at work.
LEMMA WhoIsActive ==
    ASSUME IInv, NEW w \in Thread, NEW m \in Nodes
    PROVE  /\ Count(send_queue[w.node], Requests(w, m)) > 0 => Active(w)
           /\ Count(work_queue[m], Requests(w, m)) > 0 => Active(w)
           /\ Count(send_queue[m], AnswersTo(w)) > 0 => Active(w)
           /\ Count(wire[m][w.node], AnswersTo(w)) > 0 => Active(w)
           /\ Parked(w, m) > 0 => Active(w)
<1> DEFINE X == Requests(w, m)
           A == AnswersTo(w)
           k == w.node
<1>1. QueuesTyped /\ FlowInv(w, m) /\ k \in Nodes
  BY DEF IInv, WorkersInv, Thread
<1> HIDE DEF X, A, k
<1>2. /\ Count(send_queue[k], X) \in Nat /\ Count(wire[k][m], X) \in Nat /\ Count(work_queue[m], X) \in Nat
      /\ Count(send_queue[m], A) \in Nat /\ Count(wire[m][k], A) \in Nat
  BY <1>1, CountsTyped
<1>3. Parked(w, m) \in Nat /\ Asked(w, m, Gets(w, m)) \in Nat
  <2>1. Gets(w, m) \subseteq Requests(w, m)
    BY KindsOf
  <2>2. QED
    BY <1>1, <2>1, AskedSame DEF Parked
<1>4. ~Active(w) => Asked(w, m, X) = 0 /\ Outstanding(w, m) = 0
  BY <1>1 DEF FlowInv, AsksOrders, X
<1>5. Asked(w, m, X) = Count(send_queue[k], X) + Count(wire[k][m], X) + Count(work_queue[m], X)
  BY DEF Asked, k
<1>6. Outstanding(w, m) = Asked(w, m, Gets(w, m)) + Parked(w, m) + (Count(send_queue[m], A) + Count(wire[m][k], A))
  BY DEF Outstanding, Answered, A, k
<1>7. ASSUME ~Active(w)
      PROVE  /\ Count(send_queue[k], X) = 0 /\ Count(work_queue[m], X) = 0
             /\ Count(send_queue[m], A) = 0 /\ Count(wire[m][k], A) = 0 /\ Parked(w, m) = 0
  <2>1. /\ Count(send_queue[k], X) + Count(wire[k][m], X) + Count(work_queue[m], X) = 0
        /\ Asked(w, m, Gets(w, m)) + Parked(w, m) + (Count(send_queue[m], A) + Count(wire[m][k], A)) = 0
    BY <1>4, <1>5, <1>6, <1>7
  <2>2. Count(send_queue[k], X) = 0 /\ Count(work_queue[m], X) = 0
    BY <1>2, <2>1
  <2> DEFINE a == Asked(w, m, Gets(w, m))
             p == Parked(w, m)
             c == Count(send_queue[m], A)
             d == Count(wire[m][k], A)
  <2>3. a \in Nat /\ p \in Nat /\ c \in Nat /\ d \in Nat /\ a + p + (c + d) = 0
    BY <1>2, <1>3, <2>1
  <2> HIDE DEF a, p, c, d
  <2>4. c = 0 /\ d = 0 /\ p = 0
    BY <2>3
  <2>5. QED
    BY <2>2, <2>4 DEF c, d, p
<1>8. QED
  BY <1>7 DEF X, A, k

\* While w works, no other task is at work, and what earlier ones have added has
\* been applied.
LEMMA EarlierApplied ==
    ASSUME IInv, NEW w \in Thread, Active(w), NEW n \in Nodes
    PROVE  {a \in added : a.task < w.task} \subseteq storage[n]
<1> SUFFICES ASSUME NEW a \in added, a.task < w.task
             PROVE  a \in storage[n]
  OBVIOUS
<1>1. a \in Thread /\ a.node \in Nodes /\ w.node \in Nodes /\ a.task \in Nat /\ w.task \in Nat
  BY DEF IInv, StateTyped, Thread, Tasks
<1>2. ~Active(a)
  <2> SUFFICES ASSUME Active(a) PROVE FALSE
    OBVIOUS
  <2>1. pc[a.node] = "working" /\ a.task = task[a.node] /\ w.task = task[w.node] /\ pc[w.node] = "working"
    BY DEF Active
  <2>2. task[a.node] = task[w.node]
    BY <1>1, <2>1, WorkingTogether DEF IInv
  <2>3. QED
    BY <1>1, <2>1, <2>2
<1>3. QueuesTyped /\ FlowInv(a, n) /\ StorageInv(a, n)
  BY <1>1 DEF IInv, WorkersInv
<1>4. Adds(a, n) \subseteq Requests(a, n)
  BY <1>1, KindsOf
<1>5. Asked(a, n, Adds(a, n)) = 0
  BY <1>1, <1>2, <1>3, <1>4, NothingAsked
<1>6. QED
  BY <1>3, <1>5 DEF StorageInv

\* A step that lets the calls and answers stay where they are.
LEMMA QuietKeeps ==
    ASSUME IInv, StateTyped', QueuesTyped', BarrierInv', SeenInv', \A w \in Thread : ResetInv(w)',
           TodoEndsWithGet', Still(Of(Flags)), UNCHANGED <<pending, buffer, storage, added, lost, aborted>>,
           \A w \in Thread, m \in Nodes :
              ~Active(w)' => Asked(w, m, Requests(w, m)) = 0 /\ Outstanding(w, m) = 0,
           \A w \in Thread, m \in Nodes :
              todo'[w.node] = <<>> => todo[w.node] = <<>> \/ Asked(w, m, Requests(w, m)) = 0,
           \A n \in Nodes : task'[n] = task[n] \/ pc[n] # "working"
    PROVE  IInv'
<1>1. QueuesTyped /\ StateTyped /\ WorkersInv /\ PendingInv /\ ParkedOnce
  BY DEF IInv
<1>2. ASSUME NEW w \in Thread, NEW m \in Nodes
      PROVE  FlowInv(w, m)' /\ StorageInv(w, m)' /\ Outstanding(w, m)' = Outstanding(w, m)
  <2>1. FlowInv(w, m) /\ StorageInv(w, m)
    BY <1>1 DEF WorkersInv
  <2>2. FlowInv(w, m)' /\ Outstanding(w, m)' = Outstanding(w, m)
    BY <2>1, StillKeepsFlow
  <2>3. Adds(w, m) \subseteq Requests(w, m)
    BY KindsOf
  <2>4. Asked(w, m, Adds(w, m))' = Asked(w, m, Adds(w, m))
    BY <1>1, <2>3, AskedSame
  <2>5. StorageInv(w, m)'
    BY <2>1, <2>4 DEF StorageInv
  <2>6. QED
    BY <2>2, <2>5
<1>3. ASSUME NEW n \in Nodes PROVE Waiting(n)' = Waiting(n)
  <2>1. PICK v \in Thread : v = Worker(n)
    BY <1>1, WorkerIs
  <2>2. PICK u \in Thread : u = Worker(n)'
    <3>1. task'[n] \in Tasks
      BY DEF StateTyped
    <3>2. QED
      BY <3>1 DEF Worker, Thread
  <2>3. Waiting(n) = {m \in Nodes : Outstanding(v, m) = 1} /\ Waiting(n)' = {m \in Nodes : Outstanding(u, m)' = 1}
    BY <2>1, <2>2 DEF Waiting
  <2>4. \A m \in Nodes : Outstanding(u, m)' = Outstanding(u, m) /\ FlowInv(u, m) /\ FlowInv(v, m)
    BY <1>1, <1>2 DEF WorkersInv
  <2>5. CASE task'[n] = task[n]
    <3>1. u = v
      BY <2>1, <2>2, <2>5 DEF Worker
    <3>2. QED
      BY <2>3, <2>4, <3>1
  <2>6. CASE pc[n] # "working"
    <3>1. ~Active(u) /\ ~Active(v)
      BY <2>1, <2>2, <2>6 DEF Worker, Active
    <3>2. \A m \in Nodes : Outstanding(u, m) = 0 /\ Outstanding(v, m) = 0
      BY <1>1, <2>4, <3>1, NothingAsked
    <3>3. QED
      BY <2>3, <2>4, <3>2
  <2>7. QED
    BY <2>5, <2>6
<1>4. PendingInv'
  BY <1>1, <1>3 DEF PendingInv
<1>5. ParkedOnce'
  BY <1>1 DEF ParkedOnce
<1>6. WorkersInv'
  BY <1>2 DEF WorkersInv
<1>7. QED
  BY <1>4, <1>5, <1>6 DEF IInv

-----------------------------------------------------------------------------
(* Main threads                                                            *)

LEMMA SameIsAlike ==
    ASSUME NEW V
    PROVE  /\ UNCHANGED send_queue => Alike(send_queue, send_queue', V)
           /\ \A i \in Nodes : wire'[i] = wire[i] => Alike(wire[i], wire'[i], V)
           /\ UNCHANGED wire => \A i \in Nodes : Alike(wire[i], wire'[i], V)
           /\ UNCHANGED work_queue => Alike(work_queue, work_queue', V)
           /\ UNCHANGED netVars => Still(V)
BY DEF Alike, Still, netVars

LEMMA SeenStays ==
    ASSUME added' = added
    PROVE  Seen' = Seen
BY DEF Seen

\* A control message of the main thread is added to the queue of the Sender.
LEMMA PushToSend ==
    ASSUME QueuesTyped, SeenInv, added' = added, NEW n \in Nodes, NEW x \in Sent(n), x.at # "worker",
           send_queue' = [send_queue EXCEPT ![n] = Append(@, x)], UNCHANGED wire
    PROVE  /\ \A V : x \notin V => Alike(send_queue, send_queue', V)
           /\ send_queue' \in [Nodes -> Seq(Message)]
           /\ \A j \in Nodes : send_queue'[j] \in Seq(Sent(j))
           /\ SeenInv'
<1>1. x \in Message /\ x \in Seen
  BY DEF Sent, Seen
<1>2. Pushed(send_queue, send_queue', n, x) /\ send_queue \in [Nodes -> Seq(Message)]
  BY <1>1, PushEffect DEF QueuesTyped
<1>3. \A V : x \notin V => Alike(send_queue, send_queue', V)
  BY <1>2, AlikeEffects
<1>4. send_queue' \in [Nodes -> Seq(Message)] /\ \A j \in Nodes : send_queue'[j] \in Seq(Sent(j))
  BY <1>2 DEF Pushed, QueuesTyped
<1>5. \A j \in Nodes : send_queue'[j] \in Seq(Seen)
  BY <1>1, <1>2 DEF Pushed, SeenInv
<1>6. QED
  BY <1>3, <1>4, <1>5, SeenStays DEF SeenInv

LEMMA StartTaskKeeps ==
    ASSUME IInv, LambdasEndWithGet, NEW n \in Nodes, StartTask(n)
    PROVE  IInv'
<1> DEFINE x == Request(Worker(n), n, "kReset")
<1>1. /\ StateTyped /\ QueuesTyped /\ BarrierInv /\ SeenInv /\ TodoEndsWithGet
      /\ \A w \in Thread : ResetInv(w)
      /\ \A w \in Thread, m \in Nodes : FlowInv(w, m)
  BY DEF IInv, WorkersInv
<1>2. /\ pc[n] = "run" /\ pc' = [pc EXCEPT ![n] = "resetting"]
      /\ send_queue' = [send_queue EXCEPT ![n] = Append(@, x)]
      /\ UNCHANGED <<task, pending, added, running, wire, work_queue, barrier_count>>
      /\ UNCHANGED <<progress_tracker, buffer, storage, lost, aborted>>
  BY DEF StartTask, serverVars, histVars
<1>3. PICK l \in Lambdas[task[n]] : todo' = [todo EXCEPT ![n] = l]
  BY DEF StartTask
<1>4. l \in Seq(Flags) /\ (l # <<>> => l[Len(l)] = "kGet")
  <2>1. task[n] \in Tasks
    BY <1>1 DEF StateTyped
  <2>2. QED
    BY <2>1, EngineAssumption DEF LambdasEndWithGet, Flags
<1>5. x \in Sent(n) /\ x.at = "server" /\ x.flag = "kReset"
  <2>1. x \in Message /\ x.flag = "kReset" /\ x.at = "server" /\ x.of = Worker(n) /\ x.to = n /\ x.of.node = n
    BY <1>1, WorkerIs DEF Request, Message
  <2> HIDE DEF x
  <2>2. x \in Resets(x.of)
    BY <2>1 DEF Resets
  <2>3. QED
    BY <2>1, <2>2 DEF Sent
<1> HIDE DEF x
<1>6. /\ send_queue' \in [Nodes -> Seq(Message)] /\ \A j \in Nodes : send_queue'[j] \in Seq(Sent(j))
      /\ SeenInv' /\ \A V : x \notin V => Alike(send_queue, send_queue', V)
  BY <1>1, <1>2, <1>5, PushToSend
<1>7. QueuesTyped'
  BY <1>1, <1>2, <1>6 DEF QueuesTyped
<1>8. StateTyped'
  BY <1>1, <1>2, <1>3, <1>4 DEF StateTyped, Places
<1>9. TodoEndsWithGet'
  BY <1>1, <1>3, <1>4 DEF TodoEndsWithGet, StateTyped
<1>10. BarrierInv'
  <2>1. \A j \in Nodes : Begun(j)' = Begun(j) /\ Over(j)' = Over(j)
    BY <1>1, <1>2 DEF Begun, Over, StateTyped
  <2>2. QED
    BY <1>1, <1>2, <2>1, BarrierStays
<1>11. \A w \in Thread : ResetInv(w)'
  BY <1>1, StartKeepsReset
<1>12. Still(Of(Flags))
  <2>1. x \notin Of(Flags)
    BY <1>5 DEF Of, Flags
  <2>2. QED
    BY <1>2, <1>6, <2>1, SameIsAlike DEF Still
<1>13. \A w \in Thread : Active(w)' <=> Active(w)
  BY <1>1, <1>2 DEF Active, StateTyped, Thread
<1>14. \A w \in Thread, m \in Nodes : ~Active(w) => Asked(w, m, Requests(w, m)) = 0 /\ Outstanding(w, m) = 0
  BY <1>1 DEF FlowInv, AsksOrders
<1>15. \A w \in Thread, m \in Nodes :
          todo'[w.node] = <<>> => todo[w.node] = <<>> \/ Asked(w, m, Requests(w, m)) = 0
  <2> TAKE w \in Thread, m \in Nodes
  <2>1. w.node = n => ~Active(w)
    BY <1>2 DEF Active
  <2>2. w.node # n => todo'[w.node] = todo[w.node]
    BY <1>1, <1>3 DEF StateTyped, Thread
  <2>3. QED
    BY <1>14, <2>1, <2>2
<1>16. QED
  BY <1>2, <1>6, <1>7, <1>8, <1>9, <1>10, <1>11, <1>12, <1>13, <1>14, <1>15, QuietKeeps

LEMMA EnterBarrierStep ==
    ASSUME IInv, NEW n \in Nodes, EnterBarrier(n)
    PROVE  IInv'
<1>1. /\ StateTyped /\ QueuesTyped /\ BarrierInv /\ SeenInv /\ TodoEndsWithGet /\ PendingInv
      /\ \A w \in Thread : ResetInv(w)
      /\ \A w \in Thread, m \in Nodes : FlowInv(w, m)
  BY DEF IInv, WorkersInv
<1>2. /\ UNCHANGED <<task, todo, pending, added, running, send_queue, work_queue, barrier_count>>
      /\ UNCHANGED <<progress_tracker, buffer, storage, lost, aborted>>
  BY DEF EnterBarrier, serverVars, histVars, workerVars
<1>3. /\ \/ pc[n] = "reset" /\ pc'[n] = "starting"
         \/ pc[n] = "working" /\ todo[n] = <<>> /\ pending[n] = 0 /\ pc'[n] = "ending"
      /\ \A j \in Nodes : j # n => pc'[j] = pc[j]
      /\ pc' \in [Nodes -> Places]
  BY <1>1 DEF EnterBarrier, StateTyped, Places
<1>4. /\ QueuesTyped' /\ \A i \in Nodes : i # n => wire'[i] = wire[i]
      /\ \A V : (\A x \in V : x.flag # "kBarrier") => Alike(wire[n], wire'[n], V)
      /\ \A j \in Nodes : \A T : wire[n][j] \in Seq(T) /\ Request(Worker(n), j, "kBarrier") \in T
                                   => wire'[n][j] \in Seq(T)
  BY <1>1, EnterEffect
<1>5. StateTyped'
  BY <1>1, <1>2, <1>3 DEF StateTyped
<1>6. TodoEndsWithGet'
  BY <1>1, <1>2 DEF TodoEndsWithGet
<1>7. BarrierInv'
  BY <1>1, EnterBarrierKeeps
<1>8. SeenInv'
  <2>1. \A j \in Nodes : Request(Worker(n), j, "kBarrier") \in Seen
    <3> TAKE j \in Nodes
    <3>1. Request(Worker(n), j, "kBarrier") \in Message /\ Request(Worker(n), j, "kBarrier").at = "server"
      BY <1>1, WorkerIs DEF Request, Message
    <3>2. QED
      BY <3>1 DEF Seen
  <2>2. \A i, j \in Nodes : wire'[i][j] \in Seq(Seen)
    BY <1>1, <1>4, <2>1 DEF SeenInv
  <2>3. QED
    BY <1>1, <1>2, <2>2, SeenStays DEF SeenInv
<1>9. \A V : (\A x \in V : x.flag # "kBarrier") => Still(V)
  <2> TAKE V
  <2> HAVE \A x \in V : x.flag # "kBarrier"
  <2>1. \A i \in Nodes : Alike(wire[i], wire'[i], V)
    BY <1>4, SameIsAlike
  <2>2. QED
    BY <1>2, <2>1, SameIsAlike DEF Still
<1>10. Still(Of(Flags)) /\ Still(Of({"kReset"}))
  <2>1. (\A x \in Of(Flags) : x.flag # "kBarrier") /\ \A x \in Of({"kReset"}) : x.flag # "kBarrier"
    BY DEF Of, Flags
  <2>2. QED
    BY <1>9, <2>1
<1>11. \A w \in Thread : ResetInv(w)'
  <2> TAKE w \in Thread
  <2>1. w.node \in Nodes
    BY DEF Thread
  <2>2. /\ At(w, {"resetting"})' <=> At(w, {"resetting"})
        /\ At(w, {"reset", "starting", "working", "ending"})' => At(w, {"reset", "starting", "working", "ending"})
    BY <1>2, <1>3, <2>1 DEF At
  <2>3. QED
    BY <1>1, <1>2, <1>10, <2>2, StillKeepsReset
<1>12. \A w \in Thread, m \in Nodes : ~Active(w)' => Asked(w, m, Requests(w, m)) = 0 /\ Outstanding(w, m) = 0
  <2> TAKE w \in Thread, m \in Nodes
  <2>1. FlowInv(w, m)
    BY <1>1
  <2>2. CASE ~Active(w)
    BY <2>1, <2>2 DEF FlowInv, AsksOrders
  <2>3. CASE Active(w) /\ ~Active(w)'
    <3>1. w = Worker(n) /\ todo[n] = <<>> /\ pending[n] = 0 /\ w.node = n
      <4>1. w.node \in Nodes /\ w.task = task[w.node] /\ pc[w.node] = "working" /\ pc'[w.node] # "working"
        BY <1>2, <2>3 DEF Active, Thread
      <4>2. w.node = n
        BY <1>3, <4>1
      <4>3. QED
        BY <1>1, <1>3, <4>1, <4>2, WorkerIs
    <3>2. Waiting(n) = {}
      <4>1. Waiting(n) \in SUBSET Nodes /\ IsFiniteSet(Nodes)
        BY EngineAssumption DEF Waiting
      <4>2. IsFiniteSet(Waiting(n))
        BY <4>1, FS_Subset
      <4>3. Cardinality(Waiting(n)) = 0
        BY <1>1, <3>1 DEF PendingInv
      <4>4. QED
        BY <4>2, <4>3, FS_EmptySet
    <3>3. Outstanding(w, m) = 0
      BY <2>1, <3>1, <3>2 DEF Waiting, FlowInv, AsksOrders
    <3>4. Asked(w, m, Gets(w, m)) = 0
      <4>1. QueuesTyped /\ Gets(w, m) \subseteq Requests(w, m) /\ w.node \in Nodes
        BY <1>1, KindsOf
      <4>2. Asked(w, m, Gets(w, m)) \in Nat /\ Parked(w, m) \in Nat
        BY <4>1, AskedSame DEF Parked
      <4>3. Count(send_queue[m], AnswersTo(w)) \in Nat /\ Count(wire[m][w.node], AnswersTo(w)) \in Nat
        BY <4>1, CountsTyped
      <4>4. QED
        BY <3>3, <4>2, <4>3 DEF Outstanding, Answered
    <3>5. Asked(w, m, Requests(w, m)) \in Nat
      BY <1>1, AskedSame
    <3>6. QED
      BY <2>1, <3>1, <3>3, <3>4, <3>5 DEF FlowInv, AsksOrders
  <2>4. QED
    BY <2>2, <2>3
<1>13. QED
  BY <1>2, <1>4, <1>5, <1>6, <1>7, <1>8, <1>10, <1>11, <1>12, QuietKeeps

LEMMA LeaveBarrierStep ==
    ASSUME IInv, NEW n \in Nodes, LeaveBarrier(n)
    PROVE  IInv'
<1>1. /\ StateTyped /\ QueuesTyped /\ BarrierInv /\ SeenInv /\ TodoEndsWithGet
      /\ \A w \in Thread : ResetInv(w)
      /\ \A w \in Thread, m \in Nodes : FlowInv(w, m)
  BY DEF IInv, WorkersInv
<1>2. /\ UNCHANGED <<todo, pending, added, running, send_queue, wire, work_queue>>
      /\ UNCHANGED <<progress_tracker, buffer, storage, lost, aborted>> /\ UNCHANGED netVars
  BY DEF LeaveBarrier, serverVars, histVars, workerVars, netVars
<1>3. /\ \/ pc[n] = "starting" /\ pc'[n] = "working" /\ task'[n] = task[n]
         \/ pc[n] = "ending" /\ pc'[n] = "run" /\ task'[n] = task[n] + 1 /\ task[n] < NumTasks
         \/ pc[n] = "ending" /\ pc'[n] = "stopping" /\ task'[n] = task[n]
      /\ \A j \in Nodes : j # n => pc'[j] = pc[j] /\ task'[j] = task[j]
      /\ pc' \in [Nodes -> Places] /\ task' \in [Nodes -> Tasks]
  <2>1. task[n] < NumTasks => task[n] + 1 \in Tasks
    BY <1>1, EngineAssumption DEF StateTyped, Tasks
  <2>2. pc \in [Nodes -> Places] /\ task \in [Nodes -> Tasks]
    BY <1>1 DEF StateTyped
  <2>3. CASE pc[n] = "starting" /\ pc' = [pc EXCEPT ![n] = "working"] /\ task' = task
    BY <2>2, <2>3 DEF Places
  <2>4. CASE pc[n] = "ending" /\ task[n] < NumTasks /\ pc' = [pc EXCEPT ![n] = "run"] /\ task' = [task EXCEPT ![n] = @ + 1]
    BY <2>1, <2>2, <2>4 DEF Places
  <2>5. CASE pc[n] = "ending" /\ pc' = [pc EXCEPT ![n] = "stopping"] /\ task' = task
    BY <2>2, <2>5 DEF Places
  <2>6. QED
    BY <2>3, <2>4, <2>5 DEF LeaveBarrier
<1>4. BarrierInv' /\ barrier_count' \in [Nodes -> Nat]
  BY <1>1, LeaveBarrierKeeps
<1>5. QueuesTyped'
  BY <1>1, <1>2 DEF QueuesTyped
<1>6. StateTyped'
  BY <1>1, <1>2, <1>3, <1>4 DEF StateTyped
<1>7. TodoEndsWithGet'
  BY <1>1, <1>2 DEF TodoEndsWithGet
<1>8. SeenInv'
  BY <1>1, <1>2, SeenStays DEF SeenInv
<1>9. Still(Of(Flags)) /\ Still(Of({"kReset"}))
  BY <1>2, SameIsAlike
<1>10. \A w \in Thread : ResetInv(w)'
  <2> TAKE w \in Thread
  <2>1. w.node \in Nodes
    BY DEF Thread
  <2>2. /\ At(w, {"resetting"})' <=> At(w, {"resetting"})
        /\ At(w, {"reset", "starting", "working", "ending"})' => At(w, {"reset", "starting", "working", "ending"})
    BY <1>3, <2>1 DEF At
  <2>3. QED
    BY <1>1, <1>2, <1>9, <2>2, StillKeepsReset
<1>11. \A w \in Thread, m \in Nodes : ~Active(w)' => Asked(w, m, Requests(w, m)) = 0 /\ Outstanding(w, m) = 0
  <2> TAKE w \in Thread, m \in Nodes
  <2>1. w.node \in Nodes
    BY DEF Thread
  <2>2. ~Active(w)' => ~Active(w)
    BY <1>3, <2>1 DEF Active
  <2>3. FlowInv(w, m)
    BY <1>1
  <2>4. QED
    BY <2>2, <2>3 DEF FlowInv, AsksOrders
<1>12. \A j \in Nodes : task'[j] = task[j] \/ pc[j] # "working"
  BY <1>3
<1>13. QED
  BY <1>2, <1>4, <1>5, <1>6, <1>7, <1>8, <1>9, <1>10, <1>11, <1>12, QuietKeeps

\* A step in which no message but an exit moves, and no place but those of Stop
\* changes.
LEMMA StoppingKeeps ==
    ASSUME IInv, QueuesTyped', SeenInv', StateTyped',
           UNCHANGED <<task, todo, pending, added, barrier_count, progress_tracker, buffer, storage, lost, aborted>>,
           \A j \in Nodes : pc'[j] = pc[j] \/ (/\ pc[j] \in {"stopping", "joinReceiver", "joinSender", "stopped"}
                                              /\ pc'[j] \in {"stopping", "joinReceiver", "joinSender", "stopped"}),
           \A V : (\A x \in V : x.flag # "kExit") => Still(V)
    PROVE  IInv'
<1>1. /\ StateTyped /\ QueuesTyped /\ BarrierInv /\ SeenInv /\ TodoEndsWithGet
      /\ \A w \in Thread : ResetInv(w)
      /\ \A w \in Thread, m \in Nodes : FlowInv(w, m)
  BY DEF IInv, WorkersInv
<1>2. Still(Of(Flags)) /\ Still(Of({"kReset"})) /\ Still(Of({"kBarrier"}))
  <2>1. /\ \A x \in Of(Flags) : x.flag # "kExit"
        /\ \A x \in Of({"kReset"}) : x.flag # "kExit"
        /\ \A x \in Of({"kBarrier"}) : x.flag # "kExit"
    BY DEF Of, Flags
  <2>2. QED
    BY <2>1
<1>3. TodoEndsWithGet'
  BY <1>1 DEF TodoEndsWithGet
<1>4. BarrierInv'
  <2>1. \A j \in Nodes : Begun(j)' = Begun(j) /\ Over(j)' = Over(j)
    <3> TAKE j \in Nodes
    <3>1. CASE pc'[j] = pc[j]
      BY <3>1 DEF Begun, Over
    <3>2. CASE /\ pc[j] \in {"stopping", "joinReceiver", "joinSender", "stopped"}
               /\ pc'[j] \in {"stopping", "joinReceiver", "joinSender", "stopped"}
      BY <3>2 DEF Begun, Over
    <3>3. QED
      BY <3>1, <3>2
  <2>2. Barriers \subseteq Of({"kBarrier"})
    BY DEF Barriers, Of
  <2>3. \A i, j \in Nodes : Count(wire'[i][j], Barriers) = Count(wire[i][j], Barriers)
    BY <1>2, <2>2 DEF Still, Alike
  <2>4. QED
    BY <1>1, <2>1, <2>3, BarrierStays
<1>5. \A w \in Thread : ResetInv(w)'
  <2> TAKE w \in Thread
  <2>1. w.node \in Nodes
    BY DEF Thread
  <2>2. /\ At(w, {"resetting"})' <=> At(w, {"resetting"})
        /\ At(w, {"reset", "starting", "working", "ending"})' => At(w, {"reset", "starting", "working", "ending"})
    BY <2>1 DEF At
  <2>3. QED
    BY <1>1, <1>2, <2>2, StillKeepsReset
<1>6. \A w \in Thread, m \in Nodes : ~Active(w)' => Asked(w, m, Requests(w, m)) = 0 /\ Outstanding(w, m) = 0
  <2> TAKE w \in Thread, m \in Nodes
  <2>1. w.node \in Nodes
    BY DEF Thread
  <2>2. ~Active(w)' => ~Active(w)
    BY <2>1 DEF Active
  <2>3. FlowInv(w, m)
    BY <1>1
  <2>4. QED
    BY <2>2, <2>3 DEF FlowInv, AsksOrders
<1>7. QED
  BY <1>2, <1>3, <1>4, <1>5, <1>6, QuietKeeps

LEMMA ExitIs ==
    ASSUME StateTyped, NEW n \in Nodes
    PROVE  LET x == Request(Worker(n), n, "kExit")
           IN  x \in Message /\ x.flag = "kExit" /\ x.at = "server" /\ x \in Sent(n) /\ x \in OnWire(n, n) /\ x \in Work(n)
<1> DEFINE x == Request(Worker(n), n, "kExit")
<1>1. x \in Message /\ x.flag = "kExit" /\ x.at = "server" /\ x.to = n
  BY WorkerIs DEF Request, Message
<1> HIDE DEF x
<1>2. x \in Exits
  BY <1>1 DEF Exits
<1>3. x \in Sent(n) /\ x \in Work(n)
  BY <1>1, <1>2 DEF Sent, Work
<1>4. x \in OnWire(n, n)
  BY <1>1, <1>3 DEF OnWire
<1>5. QED
  BY <1>1, <1>3, <1>4 DEF x

LEMMA SendExitKeeps ==
    ASSUME IInv, NEW n \in Nodes, SendExit(n)
    PROVE  IInv'
<1> DEFINE x == Request(Worker(n), n, "kExit")
<1>1. StateTyped /\ QueuesTyped /\ SeenInv
  BY DEF IInv
<1>2. /\ UNCHANGED <<task, todo, pending, added, running, send_queue, work_queue, barrier_count>>
      /\ UNCHANGED <<progress_tracker, buffer, storage, lost, aborted>>
      /\ wire' = [wire EXCEPT ![n][n] = Append(@, x)]
      /\ pc[n] = "stopping" /\ pc' = [pc EXCEPT ![n] = "joinReceiver"]
  BY DEF SendExit, workerVars, serverVars, histVars
<1>3. x \in Message /\ x.flag = "kExit" /\ x.at = "server" /\ x \in OnWire(n, n)
  BY <1>1, ExitIs
<1> HIDE DEF x
<1>4. /\ wire[n] \in [Nodes -> Seq(Message)] /\ wire'[n] = [wire[n] EXCEPT ![n] = Append(@, x)]
      /\ \A i \in Nodes : i # n => wire'[i] = wire[i]
  BY <1>1, <1>2 DEF QueuesTyped
<1>5. Pushed(wire[n], wire'[n], n, x)
  BY <1>3, <1>4, PushEffect
<1>6. QueuesTyped'
  <2>1. \A j \in Nodes : wire'[n][j] \in Seq(OnWire(n, j))
    BY <1>1, <1>3, <1>5 DEF Pushed, QueuesTyped
  <2>2. wire'[n] \in [Nodes -> Seq(Message)]
    BY <1>5 DEF Pushed
  <2>3. wire' \in [Nodes -> [Nodes -> Seq(Message)]]
    BY <1>1, <1>2, <1>4, <2>2 DEF QueuesTyped
  <2>4. QED
    BY <1>1, <1>2, <1>4, <2>1, <2>3 DEF QueuesTyped
<1>7. SeenInv'
  <2>1. x \in Seen
    BY <1>3 DEF Seen
  <2>2. \A j \in Nodes : wire'[n][j] \in Seq(Seen)
    BY <1>1, <1>5, <2>1 DEF Pushed, SeenInv
  <2>3. QED
    BY <1>1, <1>2, <1>4, <2>2, SeenStays DEF SeenInv
<1>8. StateTyped'
  BY <1>1, <1>2 DEF StateTyped, Places
<1>9. \A V : (\A y \in V : y.flag # "kExit") => Still(V)
  <2> TAKE V
  <2> HAVE \A y \in V : y.flag # "kExit"
  <2>1. x \notin V
    BY <1>3
  <2>2. Alike(wire[n], wire'[n], V)
    BY <1>4, <1>5, <2>1, AlikeEffects
  <2>3. \A i \in Nodes : Alike(wire[i], wire'[i], V)
    BY <1>4, <2>2, SameIsAlike
  <2>4. QED
    BY <1>2, <2>3, SameIsAlike DEF Still
<1>10. \A j \in Nodes : pc'[j] = pc[j] \/ (/\ pc[j] \in {"stopping", "joinReceiver", "joinSender", "stopped"}
                                          /\ pc'[j] \in {"stopping", "joinReceiver", "joinSender", "stopped"})
  BY <1>1, <1>2 DEF StateTyped
<1>11. QED
  BY <1>2, <1>6, <1>7, <1>8, <1>9, <1>10, StoppingKeeps

LEMMA CloseSocketsKeeps ==
    ASSUME IInv, NEW n \in Nodes, CloseSockets(n)
    PROVE  IInv'
<1> DEFINE x == Request(Worker(n), n, "kExit")
<1>1. StateTyped /\ QueuesTyped /\ SeenInv
  BY DEF IInv
<1>2. /\ UNCHANGED <<task, todo, pending, added, running, wire, barrier_count>>
      /\ UNCHANGED <<progress_tracker, buffer, storage, lost, aborted>>
      /\ work_queue' = [work_queue EXCEPT ![n] = Append(@, x)]
      /\ send_queue' = [send_queue EXCEPT ![n] = Append(@, x)]
      /\ pc[n] = "joinReceiver" /\ pc' = [pc EXCEPT ![n] = "joinSender"]
  BY DEF CloseSockets, workerVars, serverVars, histVars
<1>3. x \in Message /\ x.flag = "kExit" /\ x.at = "server" /\ x \in Sent(n) /\ x \in Work(n)
  BY <1>1, ExitIs
<1> HIDE DEF x
<1>4. /\ send_queue' \in [Nodes -> Seq(Message)] /\ \A j \in Nodes : send_queue'[j] \in Seq(Sent(j))
      /\ SeenInv' /\ \A V : x \notin V => Alike(send_queue, send_queue', V)
  BY <1>1, <1>2, <1>3, PushToSend
<1>5. Pushed(work_queue, work_queue', n, x) /\ work_queue \in [Nodes -> Seq(Message)]
  BY <1>1, <1>2, <1>3, PushEffect DEF QueuesTyped
<1>6. QueuesTyped'
  <2>1. work_queue' \in [Nodes -> Seq(Message)] /\ \A j \in Nodes : work_queue'[j] \in Seq(Work(j))
    BY <1>1, <1>3, <1>5 DEF Pushed, QueuesTyped
  <2>2. QED
    BY <1>1, <1>2, <1>4, <2>1 DEF QueuesTyped
<1>7. StateTyped'
  BY <1>1, <1>2 DEF StateTyped, Places
<1>8. \A V : (\A y \in V : y.flag # "kExit") => Still(V)
  <2> TAKE V
  <2> HAVE \A y \in V : y.flag # "kExit"
  <2>1. x \notin V
    BY <1>3
  <2>2. Alike(work_queue, work_queue', V)
    BY <1>5, <2>1, AlikeEffects
  <2>3. QED
    BY <1>2, <1>4, <2>1, <2>2, SameIsAlike DEF Still
<1>9. \A j \in Nodes : pc'[j] = pc[j] \/ (/\ pc[j] \in {"stopping", "joinReceiver", "joinSender", "stopped"}
                                         /\ pc'[j] \in {"stopping", "joinReceiver", "joinSender", "stopped"})
  BY <1>1, <1>2 DEF StateTyped
<1>10. QED
  BY <1>2, <1>4, <1>6, <1>7, <1>8, <1>9, StoppingKeeps

LEMMA JoinThreadsKeeps ==
    ASSUME IInv, NEW n \in Nodes, JoinThreads(n)
    PROVE  IInv'
<1>1. StateTyped /\ QueuesTyped /\ SeenInv
  BY DEF IInv
<1>2. /\ UNCHANGED <<task, todo, pending, added, running, send_queue, wire, work_queue, barrier_count>>
      /\ UNCHANGED <<progress_tracker, buffer, storage, lost, aborted>> /\ UNCHANGED netVars
      /\ pc[n] = "joinSender" /\ pc' = [pc EXCEPT ![n] = "stopped"]
  BY DEF JoinThreads, workerVars, serverVars, histVars, netVars
<1>3. QueuesTyped' /\ SeenInv'
  BY <1>1, <1>2, SeenStays DEF QueuesTyped, SeenInv
<1>4. StateTyped'
  BY <1>1, <1>2 DEF StateTyped, Places
<1>5. \A j \in Nodes : pc'[j] = pc[j] \/ (/\ pc[j] \in {"stopping", "joinReceiver", "joinSender", "stopped"}
                                         /\ pc'[j] \in {"stopping", "joinReceiver", "joinSender", "stopped"})
  BY <1>1, <1>2 DEF StateTyped
<1>6. \A V : Still(V)
  BY <1>2, SameIsAlike
<1>7. QED
  BY <1>2, <1>3, <1>4, <1>5, <1>6, StoppingKeeps

\* A step that moves messages on and changes no task and no count of answers.
LEMMA BusyKeeps ==
    ASSUME IInv, StateTyped', QueuesTyped', ParkedOnce', BarrierInv', SeenInv', \A w \in Thread : ResetInv(w)',
           \A w \in Thread, m \in Nodes : FlowInv(w, m)' /\ StorageInv(w, m)' /\ Outstanding(w, m)' = Outstanding(w, m),
           UNCHANGED <<task, todo, pending, lost, aborted>>, \A n \in Nodes : storage'[n] \subseteq added'
    PROVE  IInv'
<1>1. \A n \in Nodes : Waiting(n)' = Waiting(n)
  <2> TAKE n \in Nodes
  <2>1. PICK v \in Thread : v = Worker(n)
    BY WorkerIs DEF IInv
  <2>2. Worker(n)' = v
    BY <2>1 DEF Worker
  <2>3. Waiting(n) = {m \in Nodes : Outstanding(v, m) = 1} /\ Waiting(n)' = {m \in Nodes : Outstanding(v, m)' = 1}
    BY <2>1, <2>2 DEF Waiting
  <2>4. QED
    BY <2>3
<1>2. PendingInv' /\ TodoEndsWithGet'
  BY <1>1 DEF IInv, PendingInv, TodoEndsWithGet
<1>3. WorkersInv'
  BY DEF WorkersInv
<1>4. lost' = {} /\ aborted' = FALSE
  BY DEF IInv
<1>5. QED
  BY <1>2, <1>3, <1>4 DEF IInv

-----------------------------------------------------------------------------
(* Sender thread                                                           *)

\* A message that waits for the Sender keeps its node from stopping.
LEMMA SenderIsOpen ==
    ASSUME IInv, NEW n \in Nodes, send_queue[n] # <<>>, Head(send_queue[n]).flag # "kExit"
    PROVE  pc[n] \in {"resetting", "starting", "working", "ending"}
<1> DEFINE x == Head(send_queue[n])
           w == x.of
<1>1. StateTyped /\ QueuesTyped /\ BarrierInv /\ \A v \in Thread : ResetInv(v)
  BY DEF IInv, WorkersInv
<1>2. /\ x \in Sent(n) /\ x \in Message
      /\ \A X : x \in X => Count(send_queue[n], X) > 0
  <2>1. send_queue[n] \in Seq(Message) /\ send_queue[n] \in Seq(Sent(n)) /\ Tail(send_queue[n]) \in Seq(Message)
    BY <1>1, HeadTailProperties DEF QueuesTyped
  <2>2. \A X : Count(send_queue[n], X) = One(x, X) + Count(Tail(send_queue[n]), X) /\ Count(Tail(send_queue[n]), X) \in Nat
    <3>1. \A X : Count(send_queue[n], X) = One(Head(send_queue[n]), X) + Count(Tail(send_queue[n]), X)
      BY <2>1, CountTail
    <3>2. \A X : Count(Tail(send_queue[n]), X) \in Nat
      BY <2>1, CountBasics
    <3>3. QED
      BY <3>1, <3>2
  <2>3. QED
    BY <2>1, <2>2, HeadTailProperties DEF One
<1> HIDE DEF x
<1>3. w \in Thread /\ w.node \in Nodes /\ x.to \in Nodes
  BY <1>2 DEF Message, Thread
<1>4. x.flag # "kExit"
  BY DEF x
<1>5. CASE IsRequest(x) /\ w.node = n
  <2>1. x \in Requests(w, x.to)
    BY <1>2, <1>5 DEF Requests
  <2>2. Active(w)
    BY <1>2, <1>3, <1>5, <2>1, WhoIsActive
  <2>3. QED
    BY <1>5, <2>2 DEF Active
<1>6. CASE x \in AnswersTo(w)
  <2>1. Active(w)
    BY <1>2, <1>3, <1>6, WhoIsActive
  <2>2. QED
    BY <1>1, <1>3, <2>1, WorkingTogether DEF Active
<1>7. CASE (x \in Resets(w) \/ x \in ResetsDone(w)) /\ x.to = n
  <2>1. w.node = n
    BY <1>7 DEF Resets, ResetsDone
  <2>2. Resetting(w) \in Nat /\ Done(w) \in Nat /\ Resetting(w) + Done(w) = IF At(w, {"resetting"}) THEN 1 ELSE 0
    BY <1>1, <1>3, ResetCounts DEF ResetInv
  <2>3. x \in Resets(w) => Resetting(w) > 0
    <3> HAVE x \in Resets(w)
    <3>1. /\ Count(send_queue[n], Resets(w)) > 0 /\ Count(send_queue[n], Resets(w)) \in Nat
          /\ Count(wire[n][n], Resets(w)) \in Nat /\ Count(work_queue[n], Resets(w)) \in Nat
      BY <1>1, <1>2, CountsTyped
    <3>2. QED
      BY <2>1, <3>1 DEF Resetting, Asked
  <2>4. x \in ResetsDone(w) => Done(w) > 0
    <3> HAVE x \in ResetsDone(w)
    <3>1. /\ Count(send_queue[n], ResetsDone(w)) > 0 /\ Count(send_queue[n], ResetsDone(w)) \in Nat
          /\ Count(wire[n][n], ResetsDone(w)) \in Nat
      BY <1>1, <1>2, CountsTyped
    <3>2. QED
      BY <2>1, <3>1 DEF Done
  <2>5. At(w, {"resetting"})
    BY <1>7, <2>2, <2>3, <2>4
  <2>6. QED
    BY <2>1, <2>5 DEF At
<1>8. QED
  BY <1>2, <1>4, <1>5, <1>6, <1>7 DEF Sent, Exits

LEMMA SenderStepKeeps ==
    ASSUME IInv, NEW n \in Nodes, SenderStep(n)
    PROVE  IInv'
<1> DEFINE x == Head(send_queue[n])
<1>1. StateTyped /\ QueuesTyped /\ SeenInv /\ BarrierInv /\ ParkedOnce
  BY DEF IInv
<1>2. /\ send_queue[n] # <<>> /\ send_queue' = [send_queue EXCEPT ![n] = Tail(@)]
      /\ UNCHANGED <<pc, task, todo, pending, added, work_queue, barrier_count>>
      /\ UNCHANGED <<progress_tracker, buffer, storage, aborted>>
  BY DEF SenderStep, workerVars, serverVars
<1>3. \/ x.flag = "kExit" /\ running' = [running EXCEPT ![n] = @ \ {"sender"}] /\ UNCHANGED <<wire, lost>>
      \/ x.flag # "kExit" /\ Open(n) /\ wire' = [wire EXCEPT ![n][x.to] = Append(@, x)] /\ UNCHANGED <<running, lost>>
      \/ x.flag # "kExit" /\ ~Open(n)
  BY DEF SenderStep
<1>4. Popped(send_queue, send_queue', n, x)
  BY <1>1, <1>2, PopEffect DEF QueuesTyped
<1>5. \A j \in Nodes : send_queue'[j] \in Seq(Seen)' /\ (j = n => x \in Seen)
  BY <1>1, <1>2, <1>4, SeenStays DEF Popped, SeenInv
<1> HIDE DEF x
<1>6. CASE x.flag = "kExit" /\ running' = [running EXCEPT ![n] = @ \ {"sender"}] /\ UNCHANGED <<wire, lost>>
  <2>1. StateTyped'
    BY <1>1, <1>2, <1>6 DEF StateTyped
  <2>2. QueuesTyped' /\ SeenInv'
    BY <1>1, <1>2, <1>4, <1>5, <1>6, SeenStays DEF QueuesTyped, Popped, SeenInv
  <2>3. \A V : (\A y \in V : y.flag # "kExit") => Still(V)
    <3> TAKE V
    <3> HAVE \A y \in V : y.flag # "kExit"
    <3>1. x \notin V /\ send_queue \in [Nodes -> Seq(Message)]
      BY <1>1, <1>6 DEF QueuesTyped
    <3>2. Alike(send_queue, send_queue', V)
      BY <1>4, <3>1, AlikeEffects
    <3>3. QED
      BY <1>2, <1>6, <3>2, SameIsAlike DEF Still
  <2>4. QED
    BY <1>2, <1>6, <2>1, <2>2, <2>3, StoppingKeeps
<1>7. CASE x.flag # "kExit" /\ Open(n) /\ wire' = [wire EXCEPT ![n][x.to] = Append(@, x)] /\ UNCHANGED <<running, lost>>
  <2>1. Forward(n)
    BY <1>2, <1>7 DEF Forward, Exits, x
  <2>2. /\ x \in Sent(n) /\ x \in Message /\ QueuesTyped'
        /\ Pushed(wire[n], wire'[n], x.to, x) /\ \A i \in Nodes : i # n => wire'[i] = wire[i]
    BY <1>1, <2>1, ForwardEffect DEF x
  <2>3. StateTyped'
    BY <1>1, <1>2, <1>7 DEF StateTyped
  <2>4. ParkedOnce'
    BY <1>1, <1>2 DEF ParkedOnce
  <2>5. BarrierInv'
    <3>1. \A j \in Nodes : Begun(j)' = Begun(j) /\ Over(j)' = Over(j)
      BY <1>2 DEF Begun, Over
    <3>2. x \notin Barriers
      BY <2>2 DEF Sent, Barriers, IsRequest, Resets, AnswersTo, ResetsDone, Exits
    <3>3. \A i, j \in Nodes : Count(wire[i][j], Barriers) \in Nat
      BY <1>1, CountsTyped
    <3>4. \A j \in Nodes : Count(wire'[n][j], Barriers) = Count(wire[n][j], Barriers)
      BY <2>2, <3>2, <3>3 DEF Pushed, One
    <3>5. \A i, j \in Nodes : Count(wire'[i][j], Barriers) = Count(wire[i][j], Barriers)
      BY <2>2, <3>4
    <3>6. QED
      BY <1>1, <1>2, <3>1, <3>5, BarrierStays
  <2>6. SeenInv'
    <3>1. \A i, j \in Nodes : wire'[i][j] \in Seq(Seen)
      BY <1>1, <1>5, <2>2 DEF Pushed, SeenInv
    <3>2. QED
      BY <1>2, <1>5, <3>1, SeenStays DEF SeenInv
  <2>7. \A w \in Thread : ResetInv(w)'
    BY <1>1, <1>2, <2>1, ForwardKeepsReset DEF IInv, WorkersInv
  <2>8. ASSUME NEW w \in Thread, NEW m \in Nodes
        PROVE  FlowInv(w, m)' /\ StorageInv(w, m)' /\ Outstanding(w, m)' = Outstanding(w, m)
    <3>1. FlowInv(w, m) /\ StorageInv(w, m)
      BY DEF IInv, WorkersInv
    <3>2. FlowInv(w, m)' /\ Outstanding(w, m)' = Outstanding(w, m)
      BY <1>1, <1>2, <2>1, <3>1, ForwardKeepsFlow
    <3>3. Adds(w, m) \subseteq Requests(w, m)
      BY KindsOf
    <3>4. Asked(w, m, Adds(w, m))' = Asked(w, m, Adds(w, m))
      BY <1>1, <2>1, <3>3, AskedSame
    <3>5. StorageInv(w, m)'
      BY <1>2, <3>1, <3>4 DEF StorageInv
    <3>6. QED
      BY <3>2, <3>5
  <2>9. \A j \in Nodes : storage'[j] \subseteq added'
    BY <1>2 DEF IInv
  <2>10. QED
    BY <1>2, <1>7, <2>2, <2>3, <2>4, <2>5, <2>6, <2>7, <2>8, <2>9, BusyKeeps
<1>8. CASE x.flag # "kExit" /\ ~Open(n)
  BY <1>2, <1>8, SenderIsOpen DEF Open, x
<1>9. QED
  BY <1>3, <1>6, <1>7, <1>8

-----------------------------------------------------------------------------
(* Receiver thread                                                         *)

\* What the receiver of n may find in what i has sent, by its flag and place.
LEMMA ReadIs ==
    ASSUME NEW i \in Nodes, NEW n \in Nodes, NEW x \in OnWire(i, n)
    PROVE  /\ x \in Message /\ x.of \in Thread /\ x.of.node \in Nodes
           /\ x.flag = "kBarrier" <=> x \in Barriers
           /\ x.flag = "kExit" <=> x \in Exits
           /\ x.at = "main" => x \in ResetsDone(x.of) /\ x.flag = "kReset"
           /\ x.at = "worker" => x \in AnswersTo(x.of) /\ x.flag = "kGet" /\ x.of.node = n
           /\ x.at = "server" /\ x \notin Barriers => x \in Work(n)
<1>1. x \in Message /\ x.to = n
  BY DEF OnWire
<1>2. x.of \in Thread /\ x.of.node \in Nodes
  BY <1>1 DEF Message, Thread
<1>3. x.flag = "kBarrier" <=> x \in Barriers
  BY <1>1 DEF OnWire, Sent, Barriers, IsRequest, Resets, AnswersTo, ResetsDone, Exits
<1>4. x.flag = "kExit" <=> x \in Exits
  BY <1>1 DEF OnWire, Sent, Barriers, IsRequest, Resets, AnswersTo, ResetsDone, Exits
<1>5. /\ x.at = "server" /\ x \notin Barriers => x \in Work(n)
      /\ x.at = "worker" => x \in AnswersTo(x.of)
      /\ x.at = "main" => x \in ResetsDone(x.of)
  BY <1>2, SenderOf
<1>6. /\ x.at = "main" => x.flag = "kReset"
      /\ x.at = "worker" => x.flag = "kGet" /\ x.of.node = n
  BY <1>1, <1>5 DEF ResetsDone, AnswersTo
<1>7. QED
  BY <1>1, <1>2, <1>3, <1>4, <1>5, <1>6

LEMMA BarrierReadKeeps ==
    ASSUME IInv, NEW i \in Nodes, NEW n \in Nodes, Read(i, n), Head(wire[i][n]).flag = "kBarrier",
           barrier_count' = [barrier_count EXCEPT ![n] = @ + 1],
           UNCHANGED <<pc, task, running, todo, pending, added, work_queue>>,
           UNCHANGED <<progress_tracker, buffer, storage, lost, aborted>>
    PROVE  IInv'
<1> DEFINE x == Head(wire[i][n])
<1>1. StateTyped /\ QueuesTyped /\ SeenInv /\ BarrierInv /\ TodoEndsWithGet
  BY DEF IInv
<1>2. /\ x \in Message /\ x \in OnWire(i, n) /\ QueuesTyped'
      /\ Popped(wire[i], wire'[i], n, x) /\ \A h \in Nodes : h # i => wire'[h] = wire[h]
  BY <1>1, ReadEffect
<1>3. x \in Barriers /\ x.flag = "kBarrier"
  BY <1>2, ReadIs
<1>4. send_queue' = send_queue
  BY DEF Read
<1> HIDE DEF x
<1>5. StateTyped'
  BY <1>1 DEF StateTyped
<1>6. BarrierInv'
  <2>1. /\ \A j \in Nodes : Count(wire'[i][j], Barriers) \in Nat
        /\ \A j \in Nodes : Count(wire[i][j], Barriers) = Count(wire'[i][j], Barriers) + (IF j = n THEN 1 ELSE 0)
    <3>1. QueuesTyped => \A j \in Nodes : Count(wire[i][j], Barriers) \in Nat
      BY CountsTyped
    <3>2. \A j \in Nodes : wire'[i][j] \in Seq(Message)
      BY <1>2 DEF QueuesTyped
    <3>3. \A j \in Nodes : Count(wire'[i][j], Barriers) \in Nat
      BY <3>2, CountBasics
    <3>4. One(x, Barriers) = 1
      BY <1>3 DEF One
    <3>5. QED
      BY <1>2, <3>3, <3>4 DEF Popped
  <2>2. \A h, j \in Nodes : <<h, j>> # <<i, n>> => Count(wire'[h][j], Barriers) = Count(wire[h][j], Barriers)
    <3> TAKE h, j \in Nodes
    <3>1. CASE h # i
      BY <1>2, <3>1
    <3>2. CASE h = i /\ j # n
      BY <2>1, <3>2
    <3>3. QED
      BY <3>1, <3>2
  <2>3. QED
    BY <1>1, <1>2, <2>1, <2>2, BarrierHeard
<1>7. SeenInv'
  <2>1. \A j \in Nodes : wire'[i][j] \in Seq(Seen)
    BY <1>1, <1>2 DEF Popped, SeenInv
  <2>2. QED
    BY <1>1, <1>2, <1>4, <2>1, SeenStays DEF SeenInv
<1>8. Still(Of(Flags)) /\ Still(Of({"kReset"}))
  <2>1. x \notin Of(Flags) /\ x \notin Of({"kReset"}) /\ wire[i] \in [Nodes -> Seq(Message)]
    BY <1>1, <1>3 DEF Of, Flags, QueuesTyped
  <2>2. Alike(wire[i], wire'[i], Of(Flags)) /\ Alike(wire[i], wire'[i], Of({"kReset"}))
    BY <1>2, <2>1, AlikeEffects
  <2>3. QED
    BY <1>2, <1>4, <2>2, SameIsAlike DEF Still
<1>9. \A w \in Thread : ResetInv(w)'
  <2> TAKE w \in Thread
  <2>1. ResetInv(w) /\ \A places : At(w, places)' <=> At(w, places)
    BY DEF IInv, WorkersInv, At
  <2>2. QED
    BY <1>8, <2>1, StillKeepsReset
<1>10. \A w \in Thread, m \in Nodes : ~Active(w)' => Asked(w, m, Requests(w, m)) = 0 /\ Outstanding(w, m) = 0
  <2> TAKE w \in Thread, m \in Nodes
  <2>1. FlowInv(w, m)
    BY DEF IInv, WorkersInv
  <2>2. Active(w)' <=> Active(w)
    BY DEF Active
  <2>3. QED
    BY <2>1, <2>2 DEF FlowInv, AsksOrders
<1>11. TodoEndsWithGet'
  BY <1>1 DEF TodoEndsWithGet
<1>12. QED
  BY <1>2, <1>5, <1>6, <1>7, <1>8, <1>9, <1>10, <1>11, QuietKeeps

LEMMA ExitReadKeeps ==
    ASSUME IInv, NEW i \in Nodes, NEW n \in Nodes, Read(i, n), Head(wire[i][n]).flag = "kExit",
           running' = [running EXCEPT ![n] = @ \ {"receiver"}],
           UNCHANGED <<pc, task, todo, pending, added, work_queue, barrier_count>>,
           UNCHANGED <<progress_tracker, buffer, storage, lost, aborted>>
    PROVE  IInv'
<1> DEFINE x == Head(wire[i][n])
<1>1. StateTyped /\ QueuesTyped /\ SeenInv
  BY DEF IInv
<1>2. /\ x \in Message /\ x \in OnWire(i, n) /\ QueuesTyped'
      /\ Popped(wire[i], wire'[i], n, x) /\ \A h \in Nodes : h # i => wire'[h] = wire[h]
  BY <1>1, ReadEffect
<1>3. x.flag = "kExit" /\ send_queue' = send_queue
  BY DEF Read
<1> HIDE DEF x
<1>4. StateTyped'
  BY <1>1 DEF StateTyped
<1>5. SeenInv'
  <2>1. \A j \in Nodes : wire'[i][j] \in Seq(Seen)
    BY <1>1, <1>2 DEF Popped, SeenInv
  <2>2. QED
    BY <1>1, <1>2, <1>3, <2>1, SeenStays DEF SeenInv
<1>6. \A V : (\A y \in V : y.flag # "kExit") => Still(V)
  <2> TAKE V
  <2> HAVE \A y \in V : y.flag # "kExit"
  <2>1. x \notin V /\ wire[i] \in [Nodes -> Seq(Message)]
    BY <1>1, <1>3 DEF QueuesTyped
  <2>2. Alike(wire[i], wire'[i], V)
    BY <1>2, <2>1, AlikeEffects
  <2>3. QED
    BY <1>2, <1>3, <2>2, SameIsAlike DEF Still
<1>7. QED
  BY <1>2, <1>4, <1>5, <1>6, StoppingKeeps

LEMMA DeliverKeeps ==
    ASSUME IInv, NEW i \in Nodes, NEW n \in Nodes, Deliver(i, n),
           UNCHANGED <<pc, task, running, todo, pending, added, barrier_count>>,
           UNCHANGED <<progress_tracker, buffer, storage, lost, aborted>>
    PROVE  IInv'
<1> DEFINE x == Head(wire[i][n])
<1>1. StateTyped /\ QueuesTyped /\ SeenInv /\ BarrierInv /\ ParkedOnce
  BY DEF IInv
<1>2. /\ x \in Message /\ x \in OnWire(i, n) /\ QueuesTyped'
      /\ Popped(wire[i], wire'[i], n, x) /\ \A h \in Nodes : h # i => wire'[h] = wire[h]
  BY <1>1, DeliverEffect
<1>3. x \notin Barriers /\ send_queue' = send_queue
  BY DEF Deliver, Read
<1> HIDE DEF x
<1>4. StateTyped'
  BY <1>1 DEF StateTyped
<1>5. ParkedOnce'
  BY <1>1 DEF ParkedOnce
<1>6. BarrierInv'
  <2>1. \A j \in Nodes : Begun(j)' = Begun(j) /\ Over(j)' = Over(j)
    BY DEF Begun, Over
  <2>2. \A j \in Nodes : wire'[i][j] \in Seq(Message)
    BY <1>2 DEF QueuesTyped
  <2>3. \A j \in Nodes : Count(wire'[i][j], Barriers) \in Nat
    BY <2>2, CountBasics
  <2>4. \A j \in Nodes : Count(wire'[i][j], Barriers) = Count(wire[i][j], Barriers)
    BY <1>2, <1>3, <2>3 DEF Popped, One
  <2>5. \A h, j \in Nodes : Count(wire'[h][j], Barriers) = Count(wire[h][j], Barriers)
    BY <1>2, <2>4
  <2>6. QED
    BY <1>1, <2>1, <2>5, BarrierStays
<1>7. SeenInv'
  <2>1. \A j \in Nodes : wire'[i][j] \in Seq(Seen)
    BY <1>1, <1>2 DEF Popped, SeenInv
  <2>2. QED
    BY <1>1, <1>2, <1>3, <2>1, SeenStays DEF SeenInv
<1>8. \A w \in Thread : ResetInv(w)'
  BY <1>1, DeliverKeepsReset DEF IInv, WorkersInv
<1>9. ASSUME NEW w \in Thread, NEW m \in Nodes
      PROVE  FlowInv(w, m)' /\ StorageInv(w, m)' /\ Outstanding(w, m)' = Outstanding(w, m)
  <2>1. FlowInv(w, m) /\ StorageInv(w, m)
    BY DEF IInv, WorkersInv
  <2>2. FlowInv(w, m)' /\ Outstanding(w, m)' = Outstanding(w, m)
    BY <1>1, <2>1, DeliverKeepsFlow
  <2>3. Adds(w, m) \subseteq Requests(w, m)
    BY KindsOf
  <2>4. Asked(w, m, Adds(w, m))' = Asked(w, m, Adds(w, m))
    BY <1>1, <2>3, AskedSame
  <2>5. StorageInv(w, m)'
    BY <2>1, <2>4 DEF StorageInv
  <2>6. QED
    BY <2>2, <2>5
<1>10. \A j \in Nodes : storage'[j] \subseteq added'
  BY DEF IInv
<1>11. QED
  BY <1>2, <1>4, <1>5, <1>6, <1>7, <1>8, <1>9, <1>10, BusyKeeps

LEMMA ResetReadKeeps ==
    ASSUME IInv, NEW i \in Nodes, NEW n \in Nodes, Read(i, n), Head(wire[i][n]).at = "main",
           pc' = [pc EXCEPT ![n] = "reset"],
           UNCHANGED <<task, running, todo, pending, added, work_queue, barrier_count>>,
           UNCHANGED <<progress_tracker, buffer, storage, lost, aborted>>
    PROVE  IInv'
<1> DEFINE x == Head(wire[i][n])
<1>1. StateTyped /\ QueuesTyped /\ SeenInv /\ BarrierInv /\ TodoEndsWithGet
  BY DEF IInv
<1>2. /\ x \in Message /\ x \in OnWire(i, n) /\ QueuesTyped'
      /\ Popped(wire[i], wire'[i], n, x) /\ \A h \in Nodes : h # i => wire'[h] = wire[h]
  BY <1>1, ReadEffect
<1>3. x.flag = "kReset" /\ send_queue' = send_queue
  <2>1. x.at = "main"
    OBVIOUS
  <2>2. QED
    BY <1>2, <2>1, ReadIs DEF Read
<1>4. pc[n] = "resetting" /\ \A w \in Thread : ResetInv(w)'
  <2>1. \A w \in Thread : ResetInv(w)
    BY DEF IInv, WorkersInv
  <2>2. \A w \in Thread : ResetInv(w)' /\ pc[n] = "resetting"
    BY <1>1, <2>1, ResetDoneKeepsReset
  <2>3. Worker(n) \in Thread
    BY <1>1, WorkerIs
  <2>4. QED
    BY <2>2, <2>3
<1> HIDE DEF x
<1>5. StateTyped'
  BY <1>1 DEF StateTyped, Places
<1>6. \A j \in Nodes : j # n => pc'[j] = pc[j]
  BY <1>1 DEF StateTyped
<1>7. pc'[n] = "reset"
  BY <1>1 DEF StateTyped
<1>8. BarrierInv'
  <2>1. \A j \in Nodes : Begun(j)' = Begun(j) /\ Over(j)' = Over(j)
    BY <1>4, <1>6, <1>7 DEF Begun, Over
  <2>2. \A j \in Nodes : wire'[i][j] \in Seq(Message)
    BY <1>2 DEF QueuesTyped
  <2>3. \A j \in Nodes : Count(wire'[i][j], Barriers) \in Nat
    BY <2>2, CountBasics
  <2>4. \A j \in Nodes : Count(wire'[i][j], Barriers) = Count(wire[i][j], Barriers)
    <3>1. x \notin Barriers
      BY <1>3 DEF Barriers
    <3>2. QED
      BY <1>2, <2>3, <3>1 DEF Popped, One
  <2>5. \A h, j \in Nodes : Count(wire'[h][j], Barriers) = Count(wire[h][j], Barriers)
    BY <1>2, <2>4
  <2>6. QED
    BY <1>1, <2>1, <2>5, BarrierStays
<1>9. SeenInv'
  <2>1. \A j \in Nodes : wire'[i][j] \in Seq(Seen)
    BY <1>1, <1>2 DEF Popped, SeenInv
  <2>2. QED
    BY <1>1, <1>2, <1>3, <2>1, SeenStays DEF SeenInv
<1>10. Still(Of(Flags))
  <2>1. x \notin Of(Flags) /\ wire[i] \in [Nodes -> Seq(Message)]
    BY <1>1, <1>3 DEF Of, Flags, QueuesTyped
  <2>2. Alike(wire[i], wire'[i], Of(Flags))
    BY <1>2, <2>1, AlikeEffects
  <2>3. QED
    BY <1>2, <1>3, <2>2, SameIsAlike DEF Still
<1>11. \A w \in Thread, m \in Nodes : ~Active(w)' => Asked(w, m, Requests(w, m)) = 0 /\ Outstanding(w, m) = 0
  <2> TAKE w \in Thread, m \in Nodes
  <2>1. FlowInv(w, m) /\ w.node \in Nodes
    BY DEF IInv, WorkersInv, Thread
  <2>2. Active(w)' <=> Active(w)
    BY <1>4, <1>6, <1>7, <2>1 DEF Active
  <2>3. QED
    BY <2>1, <2>2 DEF FlowInv, AsksOrders
<1>12. TodoEndsWithGet'
  BY <1>1 DEF TodoEndsWithGet
<1>13. QED
  BY <1>2, <1>4, <1>5, <1>8, <1>9, <1>10, <1>11, <1>12, QuietKeeps

LEMMA AnswerReadKeeps ==
    ASSUME IInv, NEW i \in Nodes, NEW n \in Nodes, Read(i, n), Head(wire[i][n]).at = "worker",
           pending' = [pending EXCEPT ![n] = @ - 1],
           UNCHANGED <<pc, task, running, todo, added, work_queue, barrier_count>>,
           UNCHANGED <<progress_tracker, buffer, storage, lost, aborted>>
    PROVE  IInv'
<1> DEFINE x == Head(wire[i][n])
<1>1. StateTyped /\ QueuesTyped /\ SeenInv /\ BarrierInv /\ TodoEndsWithGet /\ ParkedOnce /\ PendingInv
  BY DEF IInv
<1>2. /\ x \in Message /\ x \in OnWire(i, n) /\ QueuesTyped'
      /\ Popped(wire[i], wire'[i], n, x) /\ \A h \in Nodes : h # i => wire'[h] = wire[h]
  BY <1>1, ReadEffect
<1>3. PICK v \in Thread : v = x.of /\ x \in AnswersTo(v) /\ v.node = n /\ x.flag = "kGet"
  <2>1. x.at = "worker"
    OBVIOUS
  <2>2. QED
    BY <1>2, <2>1, ReadIs
<1>4. send_queue' = send_queue
  BY DEF Read
<1>5. ASSUME NEW w \in Thread, NEW m \in Nodes
      PROVE  /\ FlowInv(w, m)' /\ StorageInv(w, m)'
             /\ Outstanding(w, m)' = Outstanding(w, m) - IF v = w /\ m = i THEN 1 ELSE 0
  <2>1. FlowInv(w, m) /\ StorageInv(w, m)
    BY DEF IInv, WorkersInv
  <2>2. FlowInv(w, m)' /\ Outstanding(w, m)' = Outstanding(w, m) - IF x.of = w /\ m = i THEN 1 ELSE 0
    BY <1>1, <2>1, AnswerKeepsFlow
  <2> HIDE DEF x
  <2>3. Asked(w, m, Adds(w, m))' = Asked(w, m, Adds(w, m))
    <3>1. \A y \in Adds(w, m) : y.at = "server"
      BY KindsOf
    <3>2. x \notin Adds(w, m) /\ w.node \in Nodes
      BY <1>3, <3>1 DEF AnswersTo, Thread
    <3>3. \A h \in Nodes : Alike(wire[h], wire'[h], Adds(w, m))
      <4>1. wire[i] \in [Nodes -> Seq(Message)]
        BY <1>1 DEF QueuesTyped
      <4>2. Alike(wire[i], wire'[i], Adds(w, m))
        BY <1>2, <3>2, <4>1, AlikeEffects
      <4>3. QED
        BY <1>2, <4>2, SameIsAlike
    <3>4. QED
      BY <1>4, <3>2, <3>3 DEF Asked, Alike
  <2>4. StorageInv(w, m)'
    BY <2>1, <2>3 DEF StorageInv
  <2>5. QED
    BY <1>3, <2>2, <2>4
<1> HIDE DEF x
<1>6. Count(wire[i][n], AnswersTo(v)) > 0
  <2>1. Count(wire[i][n], AnswersTo(v)) = Count(wire'[i][n], AnswersTo(v)) + 1
    BY <1>2, <1>3 DEF Popped, One
  <2>2. wire'[i][n] \in Seq(Message)
    BY <1>2 DEF QueuesTyped
  <2>3. Count(wire'[i][n], AnswersTo(v)) \in Nat
    BY <2>2, CountBasics
  <2>4. QED
    BY <2>1, <2>3
<1>7. v = Worker(n)
  <2>1. Active(v)
    BY <1>3, <1>6, WhoIsActive
  <2>2. QED
    BY <1>1, <1>3, <2>1, WorkerIs DEF Active
<1>8. Outstanding(v, i) = 1
  <2>1. Outstanding(v, i) \in {0, 1}
    BY DEF IInv, WorkersInv, FlowInv, AsksOrders
  <2>2. Outstanding(v, i)' \in {0, 1} /\ Outstanding(v, i)' = Outstanding(v, i) - 1
    BY <1>5 DEF FlowInv, AsksOrders
  <2>3. QED
    BY <2>1, <2>2
<1>9. \A j \in Nodes : Waiting(j)' = IF j = n THEN Waiting(j) \ {i} ELSE Waiting(j)
  <2> TAKE j \in Nodes
  <2>1. PICK u \in Thread : u = Worker(j) /\ u.node = j
    BY <1>1, WorkerIs
  <2>2. Worker(j)' = u
    BY <2>1 DEF Worker
  <2>3. Waiting(j) = {m \in Nodes : Outstanding(u, m) = 1} /\ Waiting(j)' = {m \in Nodes : Outstanding(u, m)' = 1}
    BY <2>1, <2>2 DEF Waiting
  <2>4. u = v <=> j = n
    BY <1>3, <1>7, <2>1
  <2>5. \A m \in Nodes : Outstanding(u, m) \in {0, 1}
    BY DEF IInv, WorkersInv, FlowInv, AsksOrders
  <2>6. \A m \in Nodes : Outstanding(u, m)' = Outstanding(u, m) - IF j = n /\ m = i THEN 1 ELSE 0
    BY <1>5, <2>4
  <2>7. \A m \in Nodes : Outstanding(u, m)' = 1 <=> Outstanding(u, m) = 1 /\ ~(j = n /\ m = i)
    BY <2>5, <2>6
  <2>8. QED
    BY <2>3, <2>7
<1>10. i \in Waiting(n) /\ \A j \in Nodes : IsFiniteSet(Waiting(j)) /\ Cardinality(Waiting(j)) \in Nat
  <2>1. i \in Waiting(n)
    BY <1>7, <1>8 DEF Waiting
  <2>2. \A j \in Nodes : Waiting(j) \subseteq Nodes
    BY DEF Waiting
  <2>3. QED
    BY <2>1, <2>2, EngineAssumption, FS_Subset, FS_CardinalityType
<1>11. Cardinality(Waiting(n) \ {i}) = Cardinality(Waiting(n)) - 1 /\ Cardinality(Waiting(n)) > 0
  <2>1. Cardinality(Waiting(n) \ {i}) = Cardinality(Waiting(n)) - 1 /\ IsFiniteSet(Waiting(n) \ {i})
    BY <1>10, FS_RemoveElement
  <2>2. Cardinality(Waiting(n) \ {i}) \in Nat
    BY <2>1, FS_CardinalityType
  <2>3. QED
    BY <1>10, <2>1, <2>2
<1>12. PendingInv'
  <2>1. \A j \in Nodes : pending[j] = Cardinality(Waiting(j))
    BY <1>1 DEF PendingInv
  <2>2. \A j \in Nodes : pending'[j] = IF j = n THEN pending[j] - 1 ELSE pending[j]
    BY <1>1 DEF StateTyped
  <2>3. QED
    BY <1>9, <1>11, <2>1, <2>2 DEF PendingInv
<1>13. StateTyped'
  <2>1. pending[n] \in Nat /\ pending[n] > 0
    BY <1>1, <1>11 DEF PendingInv, StateTyped
  <2>2. pending' \in [Nodes -> Nat]
    BY <1>1, <2>1 DEF StateTyped
  <2>3. QED
    BY <1>1, <2>2 DEF StateTyped
<1>14. Still(Of({"kReset"})) /\ Still(Of({"kBarrier"}))
  <2>1. x \notin Of({"kReset"}) /\ x \notin Of({"kBarrier"}) /\ wire[i] \in [Nodes -> Seq(Message)]
    BY <1>1, <1>3 DEF Of, QueuesTyped
  <2>2. Alike(wire[i], wire'[i], Of({"kReset"})) /\ Alike(wire[i], wire'[i], Of({"kBarrier"}))
    BY <1>2, <2>1, AlikeEffects
  <2>3. QED
    BY <1>2, <1>4, <2>2, SameIsAlike DEF Still
<1>15. BarrierInv'
  <2>1. \A j \in Nodes : Begun(j)' = Begun(j) /\ Over(j)' = Over(j)
    BY DEF Begun, Over
  <2>2. Barriers \subseteq Of({"kBarrier"})
    BY DEF Barriers, Of
  <2>3. \A h, j \in Nodes : Count(wire'[h][j], Barriers) = Count(wire[h][j], Barriers)
    BY <1>14, <2>2 DEF Still, Alike
  <2>4. QED
    BY <1>1, <2>1, <2>3, BarrierStays
<1>16. \A w \in Thread : ResetInv(w)'
  <2> TAKE w \in Thread
  <2>1. ResetInv(w) /\ \A places : At(w, places)' <=> At(w, places)
    BY DEF IInv, WorkersInv, At
  <2>2. QED
    BY <1>14, <2>1, StillKeepsReset
<1>17. SeenInv'
  <2>1. \A j \in Nodes : wire'[i][j] \in Seq(Seen)
    BY <1>1, <1>2 DEF Popped, SeenInv
  <2>2. QED
    BY <1>1, <1>2, <1>4, <2>1, SeenStays DEF SeenInv
<1>18. TodoEndsWithGet' /\ ParkedOnce'
  BY <1>1 DEF TodoEndsWithGet, ParkedOnce
<1>19. WorkersInv'
  BY <1>5, <1>16 DEF WorkersInv
<1>20. lost' = {} /\ aborted' = FALSE /\ \A j \in Nodes : storage'[j] \subseteq added'
  BY DEF IInv
<1>21. QED
  BY <1>2, <1>12, <1>13, <1>15, <1>17, <1>18, <1>19, <1>20 DEF IInv

LEMMA ReceiverStepKeeps ==
    ASSUME IInv, NEW i \in Nodes, NEW n \in Nodes, ReceiverStep(i, n)
    PROVE  IInv'
<1> DEFINE x == Head(wire[i][n])
<1>1. /\ Read(i, n)
      /\ UNCHANGED <<task, todo, added, progress_tracker, buffer, storage, lost, aborted>>
  BY DEF ReceiverStep, Read, serverVars, histVars
<1>2. x \in OnWire(i, n)
  BY <1>1, ReadEffect DEF IInv
<1>3. CASE x.flag = "kBarrier" /\ barrier_count' = [barrier_count EXCEPT ![n] = @ + 1]
           /\ UNCHANGED <<pc, running, pending, work_queue>>
  BY <1>1, <1>3, BarrierReadKeeps
<1>4. CASE x.flag = "kExit" /\ running' = [running EXCEPT ![n] = @ \ {"receiver"}]
           /\ UNCHANGED <<pc, pending, work_queue, barrier_count>>
  BY <1>1, <1>4, ExitReadKeeps
<1>5. CASE x.flag \notin {"kBarrier", "kExit"} /\ x.at = "server"
           /\ work_queue' = [work_queue EXCEPT ![n] = Append(@, x)]
           /\ UNCHANGED <<pc, running, pending, barrier_count>>
  <2>1. x \notin Barriers
    BY <1>5 DEF Barriers
  <2>2. Deliver(i, n)
    BY <1>1, <1>5, <2>1 DEF Deliver
  <2>3. QED
    BY <1>1, <1>5, <2>2, DeliverKeeps
<1>6. CASE x.at = "main" /\ pc' = [pc EXCEPT ![n] = "reset"]
           /\ UNCHANGED <<running, pending, work_queue, barrier_count>>
  BY <1>1, <1>6, ResetReadKeeps
<1>7. CASE x.at = "worker" /\ pending' = [pending EXCEPT ![n] = @ - 1]
           /\ UNCHANGED <<pc, running, work_queue, barrier_count>>
  BY <1>1, <1>7, AnswerReadKeeps
<1>8. QED
  BY <1>3, <1>4, <1>5, <1>6, <1>7 DEF ReceiverStep

-----------------------------------------------------------------------------
(* Worker thread                                                           *)

LEMMA SeqOver ==
    ASSUME NEW S, NEW T, NEW q \in Seq(S), \A i \in 1 .. Len(q) : q[i] \in T
    PROVE  q \in Seq(T)
<1>1. Len(q) \in Nat /\ q \in [1 .. Len(q) -> S]
  BY LenProperties
<1>2. q \in [1 .. Len(q) -> T]
  BY <1>1
<1>3. QED
  BY <1>1, <1>2

LEMMA NoneWaiting ==
    ASSUME IInv, NEW n \in Nodes, pending[n] = 0, NEW m \in Nodes
    PROVE  Outstanding(Worker(n), m) = 0
<1>1. Waiting(n) \in SUBSET Nodes /\ IsFiniteSet(Nodes)
  BY EngineAssumption DEF Waiting
<1>2. IsFiniteSet(Waiting(n))
  BY <1>1, FS_Subset
<1>3. Cardinality(Waiting(n)) = 0
  BY DEF IInv, PendingInv
<1>4. Waiting(n) = {}
  BY <1>2, <1>3, FS_EmptySet
<1>5. PICK w \in Thread : w = Worker(n)
  BY WorkerIs DEF IInv
<1>6. Outstanding(w, m) \in {0, 1}
  BY DEF IInv, WorkersInv, FlowInv, AsksOrders
<1>7. QED
  BY <1>4, <1>5, <1>6 DEF Waiting

\* While a task is at work, the answers on their way are to its workers.
LEMMA AnswersOfTheTask ==
    ASSUME IInv, NEW k \in Nodes, pc[k] = "working", NEW j \in Nodes
    PROVE  /\ \A i \in 1 .. Len(send_queue[j]) :
                 send_queue[j][i].at = "worker" => send_queue[j][i].of.task = task[k]
           /\ \A h \in Nodes : \A i \in 1 .. Len(wire[j][h]) :
                 wire[j][h][i].at = "worker" => wire[j][h][i].of.task = task[k]
<1>1. StateTyped /\ QueuesTyped /\ BarrierInv
  BY DEF IInv
<1>2. ASSUME NEW w \in Thread, Active(w) PROVE w.task = task[k]
  <2>1. w.node \in Nodes
    BY DEF Thread
  <2>2. QED
    BY <1>1, <1>2, <2>1, WorkingTogether DEF Active
<1>3. ASSUME NEW i \in 1 .. Len(send_queue[j]), send_queue[j][i].at = "worker"
      PROVE  send_queue[j][i].of.task = task[k]
  <2>1. PICK y : y = send_queue[j][i]
    OBVIOUS
  <2>2. send_queue[j] \in Seq(Sent(j)) /\ send_queue[j] \in Seq(Message)
    BY <1>1 DEF QueuesTyped
  <2>3. y \in Sent(j)
    BY <2>1, <2>2, ElementOfSeq
  <2>4. y \in AnswersTo(y.of) /\ y.of \in Thread
    BY <1>3, <2>1, <2>3 DEF Sent, IsRequest, Resets, ResetsDone, Exits, Message
  <2>5. Count(send_queue[j], AnswersTo(y.of)) \in Nat /\ Count(send_queue[j], AnswersTo(y.of)) # 0
    BY <2>1, <2>2, <2>4, CountBasics
  <2>6. Active(y.of)
    BY <2>4, <2>5, WhoIsActive
  <2>7. QED
    BY <1>2, <2>1, <2>4, <2>6
<1>4. ASSUME NEW h \in Nodes, NEW i \in 1 .. Len(wire[j][h]), wire[j][h][i].at = "worker"
      PROVE  wire[j][h][i].of.task = task[k]
  <2>1. PICK y : y = wire[j][h][i]
    OBVIOUS
  <2>2. wire[j][h] \in Seq(OnWire(j, h)) /\ wire[j][h] \in Seq(Message)
    BY <1>1 DEF QueuesTyped
  <2>3. y \in OnWire(j, h)
    BY <2>1, <2>2, ElementOfSeq
  <2>4. y \in AnswersTo(y.of) /\ y.of \in Thread /\ y.of.node = h
    BY <1>4, <2>1, <2>3, ReadIs
  <2>5. Count(wire[j][h], AnswersTo(y.of)) \in Nat /\ Count(wire[j][h], AnswersTo(y.of)) # 0
    BY <2>1, <2>2, <2>4, CountBasics
  <2>6. Active(y.of)
    BY <2>4, <2>5, WhoIsActive
  <2>7. QED
    BY <1>2, <2>1, <2>4, <2>6
<1>5. QED
  BY <1>3, <1>4

LEMMA CallKeeps ==
    ASSUME IInv, NEW n \in Nodes, Call(n)
    PROVE  IInv'
<1> DEFINE flag == Head(todo[n])
           s == Round(Worker(n), flag)
<1>1. StateTyped /\ QueuesTyped /\ SeenInv /\ BarrierInv /\ TodoEndsWithGet /\ ParkedOnce /\ PendingInv
  BY DEF IInv
<1>2. /\ pc[n] = "working" /\ pending[n] = 0 /\ todo[n] # <<>>
      /\ send_queue' = [send_queue EXCEPT ![n] = @ \o s]
      /\ added' = IF flag = "kAdd" THEN added \cup {Worker(n)} ELSE added
      /\ pending' = [pending EXCEPT ![n] = IF flag = "kGet" THEN NumNodes ELSE 0]
      /\ todo' = [todo EXCEPT ![n] = Tail(@)]
      /\ UNCHANGED <<pc, task, running, wire, work_queue, barrier_count>>
      /\ UNCHANGED <<progress_tracker, buffer, storage, lost, aborted>>
  BY DEF Call, Round, serverVars, histVars
<1>3. PICK v \in Thread : v = Worker(n) /\ v.node = n /\ v.task = task[n]
  BY <1>1, WorkerIs
<1>4. Asks(n)
  BY <1>1, <1>2, <1>3, WorkerIs DEF Asks, Active
<1>5. /\ flag \in Flags /\ s \in Seq(Message) /\ s \in Seq(Sent(n))
      /\ Extended(send_queue, send_queue', n, s) /\ QueuesTyped'
  BY <1>1, <1>4, AsksEffect
<1>6. (\A w : Count(s, AnswersTo(w)) = 0) /\ Count(s, Of({"kReset", "kBarrier"})) = 0
  BY <1>3, <1>5, RoundEffect
<1> HIDE DEF flag, s
<1>7. NumNodes \in Nat
  BY EngineAssumption, FS_CardinalityType DEF NumNodes
<1>8. StateTyped'
  <2>1. todo[n] \in Seq(Flags) /\ Tail(todo[n]) \in Seq(Flags)
    BY <1>1, <1>2, HeadTailProperties DEF StateTyped
  <2>2. todo' \in [Nodes -> Seq(Flags)] /\ pending' \in [Nodes -> Nat] /\ added' \in SUBSET Thread
    BY <1>1, <1>2, <1>3, <1>7, <2>1 DEF StateTyped
  <2>3. QED
    BY <1>1, <1>2, <2>2 DEF StateTyped
<1>9. TodoEndsWithGet'
  <2>1. \A j \in Nodes : j # n => todo'[j] = todo[j]
    BY <1>1, <1>2 DEF StateTyped
  <2>2. todo'[n] = Tail(todo[n]) /\ todo[n] \in Seq(Flags)
    BY <1>1, <1>2 DEF StateTyped
  <2>3. Tail(todo[n]) # <<>> => Tail(todo[n])[Len(Tail(todo[n]))] = todo[n][Len(todo[n])]
    <3>1. \A q \in Seq(Flags) : q # <<>> /\ Tail(q) # <<>> => Tail(q)[Len(Tail(q))] = q[Len(q)]
      <4> TAKE q \in Seq(Flags)
      <4> HAVE q # <<>> /\ Tail(q) # <<>>
      <4>1. Len(Tail(q)) = Len(q) - 1 /\ Tail(q) \in Seq(Flags) /\ Len(Tail(q)) \in Nat \ {0}
        BY HeadTailProperties, EmptySeq
      <4>2. Tail(q)[Len(Tail(q))] = q[Len(Tail(q)) + 1]
        BY <4>1, HeadTailProperties
      <4>3. QED
        BY <4>1, <4>2
    <3>2. QED
      BY <1>2, <2>2, <3>1
  <2>4. QED
    BY <1>1, <1>2, <2>1, <2>2, <2>3 DEF TodoEndsWithGet
<1>10. ASSUME NEW w \in Thread, NEW m \in Nodes
       PROVE  /\ FlowInv(w, m)' /\ StorageInv(w, m)'
              /\ Outstanding(w, m)' = IF w = v THEN (IF flag = "kGet" THEN 1 ELSE 0) ELSE Outstanding(w, m)
  <2>1. FlowInv(w, m) /\ StorageInv(w, m)
    BY DEF IInv, WorkersInv
  <2>2. w = Worker(n) => Outstanding(w, m) = 0
    BY <1>2, NoneWaiting
  <2>3. /\ FlowInv(w, m)'
        /\ Outstanding(w, m)' = IF w = v THEN (IF flag = "kGet" THEN 1 ELSE 0) ELSE Outstanding(w, m)
    BY <1>1, <1>3, <1>4, <2>1, <2>2, AsksKeepsFlow DEF flag
  <2>4. StorageInv(w, m)'
    BY <1>1, <1>2, <1>4, <2>1, AsksKeepsStorage DEF flag
  <2>5. QED
    BY <2>3, <2>4
<1>11. PendingInv'
  <2>1. ASSUME NEW j \in Nodes PROVE pending'[j] = Cardinality(Waiting(j)')
    <3>1. PICK u \in Thread : u = Worker(j) /\ u.node = j
      BY <1>1, WorkerIs
    <3>2. Worker(j)' = u
      BY <1>2, <3>1 DEF Worker
    <3>3. Waiting(j) = {m \in Nodes : Outstanding(u, m) = 1} /\ Waiting(j)' = {m \in Nodes : Outstanding(u, m)' = 1}
      BY <3>1, <3>2 DEF Waiting
    <3>4. CASE j # n
      <4>1. u # v
        BY <1>3, <3>1, <3>4
      <4>2. Waiting(j)' = Waiting(j) /\ pending'[j] = pending[j]
        BY <1>1, <1>2, <1>10, <3>3, <3>4, <4>1 DEF StateTyped
      <4>3. QED
        BY <1>1, <4>2 DEF PendingInv
    <3>5. CASE j = n
      <4>1. u = v /\ pending'[j] = IF flag = "kGet" THEN NumNodes ELSE 0
        BY <1>1, <1>2, <1>3, <3>1, <3>5 DEF StateTyped
      <4>2. Waiting(j)' = IF flag = "kGet" THEN Nodes ELSE {}
        BY <1>10, <3>3, <4>1
      <4>3. QED
        BY <4>1, <4>2, FS_EmptySet DEF NumNodes
    <3>6. QED
      BY <3>4, <3>5
  <2>2. QED
    BY <2>1 DEF PendingInv
<1>12. SeenInv'
  <2>1. ASSUME NEW y \in Seen, y.at = "worker" => y.of.task = task[n] PROVE y \in Seen'
    <3>1. y \in Message
      BY DEF Seen
    <3>2. y.at = "worker" => {a \in added' : a.task < y.of.task} \subseteq y.adds
      <4> HAVE y.at = "worker"
      <4>1. {a \in added : a.task < y.of.task} \subseteq y.adds /\ y.of.task = task[n]
        BY <2>1 DEF Seen
      <4>2. task[n] \in Nat
        BY <1>1 DEF StateTyped, Tasks
      <4>3. \A a \in added' : a \in added \/ a.task = task[n]
        BY <1>2, <1>3
      <4>4. QED
        BY <4>1, <4>2, <4>3
    <3>3. QED
      BY <3>1, <3>2 DEF Seen
  <2>2. s \in Seq(Seen')
    <3>1. ASSUME NEW i \in 1 .. Len(s) PROVE s[i] \in Seen'
      <4>1. PICK y : y = s[i]
        OBVIOUS
      <4>2. y \in Sent(n) /\ y \notin AnswersTo(y.of)
        BY <1>5, <1>6, <4>1, ElementOfSeq, CountBasics
      <4>3. y \in Message /\ y.at # "worker"
        BY <4>2 DEF Sent, IsRequest, Resets, ResetsDone, Exits
      <4>4. QED
        BY <4>1, <4>3 DEF Seen
    <3>2. QED
      BY <1>5, <3>1, SeqOver
  <2>3. ASSUME NEW j \in Nodes PROVE send_queue[j] \in Seq(Seen')
    <3>1. send_queue[j] \in Seq(Seen)
      BY <1>1 DEF SeenInv
    <3>2. \A i \in 1 .. Len(send_queue[j]) : send_queue[j][i] \in Seen
      BY <3>1, ElementOfSeq
    <3>3. \A i \in 1 .. Len(send_queue[j]) : send_queue[j][i] \in Seen'
      BY <1>2, <2>1, <3>2, AnswersOfTheTask
    <3>4. QED
      BY <3>1, <3>3, SeqOver
  <2>4. ASSUME NEW j \in Nodes, NEW h \in Nodes PROVE wire[j][h] \in Seq(Seen')
    <3>1. wire[j][h] \in Seq(Seen)
      BY <1>1 DEF SeenInv
    <3>2. \A i \in 1 .. Len(wire[j][h]) : wire[j][h][i] \in Seen
      BY <3>1, ElementOfSeq
    <3>3. \A i \in 1 .. Len(wire[j][h]) : wire[j][h][i] \in Seen'
      <4>1. \A i \in 1 .. Len(wire[j][h]) : wire[j][h][i].at = "worker" => wire[j][h][i].of.task = task[n]
        BY <1>2, AnswersOfTheTask
      <4>2. QED
        BY <2>1, <3>2, <4>1
    <3>4. QED
      BY <3>1, <3>3, SeqOver
  <2>5. \A j \in Nodes : send_queue'[j] \in Seq(Seen')
    BY <1>5, <2>2, <2>3 DEF Extended
  <2>6. QED
    BY <1>2, <2>4, <2>5 DEF SeenInv
<1>13. Still(Of({"kReset"}))
  <2>1. Of({"kReset"}) \subseteq Of({"kReset", "kBarrier"})
    BY DEF Of
  <2>2. Count(s, Of({"kReset"})) \in Nat /\ Count(s, Of({"kReset"})) <= Count(s, Of({"kReset", "kBarrier"}))
    BY <1>5, <2>1, CountBasics
  <2>3. Count(s, Of({"kReset"})) = 0 /\ send_queue \in [Nodes -> Seq(Message)]
    BY <1>1, <1>6, <2>2 DEF QueuesTyped
  <2>4. Alike(send_queue, send_queue', Of({"kReset"}))
    BY <1>5, <2>3, AlikeEffects
  <2>5. QED
    BY <1>2, <2>4, SameIsAlike DEF Still
<1>14. \A w \in Thread : ResetInv(w)'
  <2> TAKE w \in Thread
  <2>1. ResetInv(w) /\ \A places : At(w, places)' <=> At(w, places)
    BY <1>2 DEF IInv, WorkersInv, At
  <2>2. QED
    BY <1>2, <1>13, <2>1, StillKeepsReset
<1>15. BarrierInv'
  <2>1. \A j \in Nodes : Begun(j)' = Begun(j) /\ Over(j)' = Over(j)
    BY <1>2 DEF Begun, Over
  <2>2. QED
    BY <1>1, <1>2, <2>1, BarrierStays
<1>16. WorkersInv'
  BY <1>10, <1>14 DEF WorkersInv
<1>17. ParkedOnce' /\ lost' = {} /\ aborted' = FALSE /\ \A j \in Nodes : storage'[j] \subseteq added'
  <2>1. lost = {} /\ aborted = FALSE /\ \A j \in Nodes : storage[j] \subseteq added
    BY DEF IInv
  <2>2. QED
    BY <1>1, <1>2, <2>1 DEF ParkedOnce
<1>18. QED
  BY <1>5, <1>8, <1>9, <1>11, <1>12, <1>14, <1>15, <1>16, <1>17 DEF IInv

-----------------------------------------------------------------------------
(* Server thread                                                           *)

LEMMA ServeKeepsReset ==
    ASSUME IInv, NEW n \in Nodes, NEW x, NEW s, Serve(n, x, s),
           x.flag # "kReset", Count(s, Of({"kReset", "kBarrier"})) = 0,
           \A j \in Nodes : DOMAIN progress_tracker'[j].progresses = DOMAIN progress_tracker[j].progresses,
           NEW w \in Thread
    PROVE  ResetInv(w)'
<1> DEFINE V == Of({"kReset"})
<1>1. QueuesTyped /\ ResetInv(w) /\ w.node \in Nodes
  BY DEF IInv, WorkersInv, Thread
<1>2. /\ Popped(work_queue, work_queue', n, x) /\ Extended(send_queue, send_queue', n, s)
      /\ UNCHANGED <<wire, pc, task>> /\ s \in Seq(Message)
  BY <1>1, ServeEffect DEF Serve
<1>3. x \notin V /\ V \subseteq Of({"kReset", "kBarrier"})
  BY DEF Of
<1> HIDE DEF V
<1>4. Count(s, V) \in Nat /\ Count(s, V) <= Count(s, Of({"kReset", "kBarrier"}))
  BY <1>2, <1>3, CountBasics
<1>5. Count(s, V) = 0 /\ send_queue \in [Nodes -> Seq(Message)] /\ work_queue \in [Nodes -> Seq(Message)]
  BY <1>1, <1>4 DEF QueuesTyped
<1>6. Alike(send_queue, send_queue', V) /\ Alike(work_queue, work_queue', V)
  BY <1>2, <1>3, <1>5, AlikeEffects
<1>7. Still(V)
  BY <1>2, <1>6, SameIsAlike DEF Still
<1>8. \A places : At(w, places)' <=> At(w, places)
  BY <1>2 DEF At
<1>9. QED
  BY <1>1, <1>7, <1>8, StillKeepsReset DEF V

\* A message of the work queue is handled, whatever it is.
LEMMA ServeKeeps ==
    ASSUME IInv, NEW n \in Nodes, NEW x, NEW s, Serve(n, x, s), StateTyped', ParkedOnce',
           s \in Seq(Seen), \A w \in Thread : ResetInv(w)',
           UNCHANGED <<pending, added, barrier_count, lost, aborted>>,
           storage' = IF x.flag = "kAdd" THEN [storage EXCEPT ![n] = @ \cup {x.of}] ELSE storage
    PROVE  IInv'
<1>1. StateTyped /\ QueuesTyped /\ SeenInv /\ BarrierInv
  BY DEF IInv
<1>2. /\ x \in Message /\ x \in Work(n) /\ QueuesTyped'
      /\ Popped(work_queue, work_queue', n, x) /\ Extended(send_queue, send_queue', n, s)
      /\ UNCHANGED <<wire, pc, task, todo>>
  BY <1>1, ServeEffect DEF Serve
<1>3. BarrierInv'
  <2>1. \A j \in Nodes : Begun(j)' = Begun(j) /\ Over(j)' = Over(j)
    BY <1>2 DEF Begun, Over
  <2>2. QED
    BY <1>1, <1>2, <2>1, BarrierStays
<1>4. SeenInv'
  <2>1. \A j \in Nodes : send_queue'[j] \in Seq(Seen)
    BY <1>1, <1>2 DEF Extended, SeenInv
  <2>2. QED
    BY <1>1, <1>2, <2>1, SeenStays DEF SeenInv
<1>5. ASSUME NEW w \in Thread, NEW m \in Nodes
      PROVE  FlowInv(w, m)' /\ StorageInv(w, m)' /\ Outstanding(w, m)' = Outstanding(w, m)
  <2>1. FlowInv(w, m) /\ StorageInv(w, m) /\ storage \in [Nodes -> SUBSET Thread]
    BY <1>1 DEF IInv, WorkersInv, StateTyped
  <2>2. FlowInv(w, m)' /\ Outstanding(w, m)' = Outstanding(w, m)
    BY <1>1, <2>1, ServeKeepsFlow
  <2>3. StorageInv(w, m)'
    BY <1>1, <2>1, ServeKeepsStorage
  <2>4. QED
    BY <2>2, <2>3
<1>6. x.flag = "kAdd" => x.of \in added
  <2> HAVE x.flag = "kAdd"
  <2>1. x.of \in Thread /\ x \in Adds(x.of, n)
    BY <1>2 DEF Work, Resets, Exits, Adds, Requests, Message
  <2>2. Adds(x.of, n) \subseteq Requests(x.of, n)
    BY <2>1, KindsOf
  <2>3. Asked(x.of, n, Adds(x.of, n)) = Asked(x.of, n, Adds(x.of, n))' + 1 /\ Asked(x.of, n, Adds(x.of, n))' \in Nat
    BY <1>1, <2>1, <2>2, AskedServe DEF One
  <2>4. StorageInv(x.of, n)
    BY <2>1 DEF IInv, WorkersInv
  <2>5. QED
    BY <2>3, <2>4 DEF StorageInv
<1>7. \A j \in Nodes : storage'[j] \subseteq added'
  <2>1. storage \in [Nodes -> SUBSET Thread] /\ \A j \in Nodes : storage[j] \subseteq added
    BY <1>1 DEF IInv, StateTyped
  <2>2. QED
    BY <1>6, <2>1
<1>8. QED
  BY <1>2, <1>3, <1>4, <1>5, <1>7, BusyKeeps

LEMMA TakeIs ==
    ASSUME IInv, NEW n \in Nodes, NEW flag, Take(n, flag), NEW x, x = Head(work_queue[n])
    PROVE  /\ x \in Message /\ x \in Work(n) /\ x.flag = flag /\ x.of \in Thread
           /\ Popped(work_queue, work_queue', n, x)
           /\ flag \in {"kAdd", "kClock", "kGet"} => x \in Requests(x.of, n)
           /\ flag = "kGet" => x \in Gets(x.of, n)
           /\ flag # "kGet" => \A w : x \notin Gets(w, n)
           /\ \A X : x \in X => Count(work_queue[n], X) > 0
<1>1. /\ QueuesTyped /\ work_queue[n] # <<>> /\ work_queue' = [work_queue EXCEPT ![n] = Tail(@)] /\ x.flag = flag
  BY DEF IInv, Take
<1>2. Popped(work_queue, work_queue', n, x)
  BY <1>1, PopEffect DEF QueuesTyped
<1>3. x \in Message /\ x \in Work(n)
  BY <1>1, <1>2 DEF Popped, QueuesTyped
<1>4. x.of \in Thread
  BY <1>3 DEF Message
<1>5. flag \in {"kAdd", "kClock", "kGet"} => x \in Requests(x.of, n)
  BY <1>1, <1>3 DEF Work, Resets, Exits, Requests
<1>6. /\ flag = "kGet" => x \in Gets(x.of, n)
      /\ flag # "kGet" => \A w : x \notin Gets(w, n)
  BY <1>1, <1>5 DEF Gets
<1>7. \A X : x \in X => Count(work_queue[n], X) > 0
  <2> TAKE X
  <2> HAVE x \in X
  <2>1. Count(work_queue[n], X) = Count(work_queue'[n], X) + 1
    BY <1>2 DEF Popped, One
  <2>2. Count(work_queue'[n], X) \in Nat
    BY <1>2, CountBasics DEF Popped
  <2>3. QED
    BY <2>1, <2>2
<1>8. QED
  BY <1>1, <1>2, <1>3, <1>4, <1>5, <1>6, <1>7

\* A request meets the tracker of its task.
LEMMA RequestValid ==
    ASSUME IInv, NEW n \in Nodes, NEW flag \in {"kAdd", "kClock", "kGet"}, Take(n, flag),
           NEW x, x = Head(work_queue[n])
    PROVE  Active(x.of) /\ Valid(n, x.of)
<1>1. x.of \in Thread /\ x \in Requests(x.of, n) /\ Count(work_queue[n], Requests(x.of, n)) > 0
  BY TakeIs
<1>2. Active(x.of)
  BY <1>1, WhoIsActive
<1>3. x.of.node \in Nodes /\ x.of.task = task[x.of.node] /\ pc[x.of.node] = "working"
  BY <1>1, <1>2 DEF Active, Thread
<1>4. x.of.task = task[n] /\ pc[n] \in {"starting", "working", "ending"}
  BY <1>3, WorkingTogether DEF IInv
<1>5. PICK v \in Thread : v = Worker(n) /\ v.node = n /\ v.task = task[n]
  BY WorkerIs DEF IInv
<1>6. DOMAIN progress_tracker[n].progresses = AllThreads(v)
  BY <1>4, <1>5 DEF IInv, WorkersInv, ResetInv, At
<1>7. QED
  BY <1>1, <1>2, <1>4, <1>5, <1>6 DEF Valid, AllThreads

LEMMA TrackerIs ==
    ASSUME IInv, NEW n \in Nodes
    PROVE  /\ progress_tracker[n].min_clock \in Nat
           /\ progress_tracker[n].progresses \in [DOMAIN progress_tracker[n].progresses -> Nat]
           /\ DOMAIN progress_tracker[n].progresses \in SUBSET Thread
           /\ progress_tracker[n] = [progresses |-> progress_tracker[n].progresses,
                                     min_clock |-> progress_tracker[n].min_clock]
<1>1. progress_tracker[n] \in Tracker
  BY DEF IInv, StateTyped
<1>2. PICK T \in SUBSET Thread : progress_tracker[n] \in [progresses : [T -> Nat], min_clock : Nat]
  BY <1>1 DEF Tracker
<1>3. QED
  BY <1>2

LEMMA NoAnswer ==
    ASSUME QueuesTyped, NEW n \in Nodes
    PROVE  /\ \A T : <<>> \in Seq(T)
           /\ \A X : Count(<<>>, X) = 0
           /\ send_queue = [send_queue EXCEPT ![n] = @ \o <<>>]
<1>1. (\A T : <<>> \in Seq(T)) /\ \A X : Count(<<>>, X) = 0
  BY EmptySeq, CountEmpty
<1>2. send_queue \in [Nodes -> Seq(Message)] /\ send_queue[n] \o <<>> = send_queue[n]
  BY ConcatEmptySeq DEF QueuesTyped
<1>3. QED
  BY <1>1, <1>2

LEMMA ResetWorkerKeeps ==
    ASSUME IInv, NEW n \in Nodes, ResetWorker(n)
    PROVE  IInv'
<1> DEFINE x == Head(work_queue[n])
           y == Reply(x, "main", {})
           s == <<y>>
<1>1. StateTyped /\ QueuesTyped /\ ParkedOnce /\ \A w \in Thread : ResetInv(w)
  BY DEF IInv, WorkersInv
<1>2. /\ Take(n, "kReset") /\ work_queue[n] # <<>>
      /\ work_queue' = [work_queue EXCEPT ![n] = Tail(@)]
      /\ progress_tracker' = [progress_tracker EXCEPT ![n] = TrackerInit(AllThreads(x.of))]
      /\ send_queue' = [send_queue EXCEPT ![n] = Append(@, y)]
      /\ UNCHANGED <<pc, task, todo, pending, added, barrier_count, wire, lost>>
      /\ UNCHANGED <<running, buffer, storage, aborted>>
  BY DEF ResetWorker, Take, workerVars
<1>3. x \in Work(n) /\ x.flag = "kReset" /\ \A w : x \notin Gets(w, n)
  BY <1>2, TakeIs
<1>4. /\ y \in Message /\ y \in ResetsDone(x.of) /\ y.at = "main" /\ y.flag = "kReset"
      /\ s \in Seq(Message) /\ s \in Seq(Sent(n)) /\ \A T : y \in T => s \in Seq(T)
      /\ \A X : Count(s, X) = One(y, X)
  BY <1>3, ResetAnswerIs
<1>5. send_queue' = [send_queue EXCEPT ![n] = @ \o s]
  <2>1. send_queue[n] \in Seq(Message)
    BY <1>1 DEF QueuesTyped
  <2>2. Append(send_queue[n], y) = send_queue[n] \o <<y>>
    BY <1>4, <2>1, AppendIsConcat
  <2>3. QED
    BY <1>2, <2>2
<1> HIDE DEF x, y, s
<1>6. Serve(n, x, s)
  <2>1. \A w, m : Count(s, Requests(w, m)) = 0
    BY <1>4 DEF Requests, IsRequest, One
  <2>2. \A w : Count(s, AnswersTo(w)) = 0
    BY <1>4 DEF AnswersTo, One
  <2>3. \A w : Parked(w, n) \in Nat /\ Parked(w, n)' = Parked(w, n) /\ One(x, Gets(w, n)) = 0
    BY <1>2, <1>3 DEF Parked, One
  <2>4. QED
    BY <1>2, <1>4, <1>5, <2>1, <2>2, <2>3 DEF Serve, x
<1>7. \A w \in Thread : ResetInv(w)'
  BY <1>1, <1>2, <1>3, <1>6, ServeResetKeepsReset DEF StateTyped, s, y
<1>8. TrackerInit(AllThreads(x.of)) \in Tracker
  <2>1. PICK T \in SUBSET Thread : T = AllThreads(x.of)
    BY DEF AllThreads
  <2>2. TrackerInit(T) \in [progresses : [T -> Nat], min_clock : Nat]
    BY DEF TrackerInit
  <2>3. QED
    BY <2>1, <2>2 DEF Tracker
<1>9. StateTyped'
  BY <1>1, <1>2, <1>8 DEF StateTyped
<1>10. ParkedOnce' /\ s \in Seq(Seen)
  <2>1. y \in Seen
    BY <1>4 DEF Seen
  <2>2. QED
    BY <1>1, <1>2, <1>4, <2>1 DEF ParkedOnce
<1>11. QED
  BY <1>2, <1>3, <1>6, <1>7, <1>9, <1>10, ServeKeeps

LEMMA ServerAddKeeps ==
    ASSUME IInv, NEW n \in Nodes, ServerAdd(n)
    PROVE  IInv'
<1> DEFINE x == Head(work_queue[n])
<1>1. StateTyped /\ QueuesTyped /\ ParkedOnce
  BY DEF IInv
<1>2. /\ Take(n, "kAdd") /\ work_queue[n] # <<>>
      /\ work_queue' = [work_queue EXCEPT ![n] = Tail(@)]
      /\ storage' = [storage EXCEPT ![n] = @ \cup {x.of}]
      /\ UNCHANGED <<pc, task, todo, pending, added, barrier_count, wire, lost>>
      /\ UNCHANGED <<running, progress_tracker, buffer, send_queue, aborted>>
  BY DEF ServerAdd, Take, workerVars
<1>3. x.of \in Thread /\ x.flag = "kAdd" /\ \A w : x \notin Gets(w, n)
  BY <1>2, TakeIs
<1> HIDE DEF x
<1>4. /\ \A T : <<>> \in Seq(T)
      /\ \A X : Count(<<>>, X) = 0
      /\ send_queue = [send_queue EXCEPT ![n] = @ \o <<>>]
  BY <1>1, NoAnswer
<1>5. Serve(n, x, <<>>)
  <2>1. \A w : Parked(w, n) \in Nat /\ Parked(w, n)' = Parked(w, n) /\ One(x, Gets(w, n)) = 0
    BY <1>2, <1>3 DEF Parked, One
  <2>2. QED
    BY <1>2, <1>4, <2>1 DEF Serve, x
<1>6. \A w \in Thread : ResetInv(w)'
  BY <1>2, <1>3, <1>4, <1>5, ServeKeepsReset
<1>7. StateTyped'
  BY <1>1, <1>2, <1>3 DEF StateTyped
<1>8. ParkedOnce'
  BY <1>1, <1>2 DEF ParkedOnce
<1>9. QED
  BY <1>2, <1>3, <1>4, <1>5, <1>6, <1>7, <1>8, ServeKeeps

\* The answers that a server gives to Gets hold what it has in its storage, and
\* with it all Adds of earlier tasks.
LEMMA AnswersSeen ==
    ASSUME IInv, NEW n \in Nodes, NEW reqs, IsFiniteSet(reqs),
           \A x \in reqs : x \in Gets(x.of, n) /\ x.of \in Thread /\ Active(x.of)
    PROVE  Answers(n, reqs) \in Seq(Seen)
<1>1. storage[n] \in SUBSET Thread
  BY DEF IInv, StateTyped
<1>2. ASSUME NEW x \in reqs PROVE Reply(x, "worker", storage[n]) \in Seen
  <2> DEFINE y == Reply(x, "worker", storage[n])
  <2>1. y \in Message /\ y.of = x.of /\ y.adds = storage[n]
    BY <1>1, AnswerIs
  <2> HIDE DEF y
  <2>2. {a \in added : a.task < x.of.task} \subseteq storage[n]
    BY EarlierApplied
  <2>3. y \in Seen
    BY <2>1, <2>2 DEF Seen
  <2>4. QED
    BY <2>3 DEF y
<1>3. QED
  BY <1>1, <1>2, AnswersEffect

LEMMA ServerGetKeeps ==
    ASSUME IInv, NEW n \in Nodes, ServerGet(n)
    PROVE  IInv'
<1> DEFINE x == Head(work_queue[n])
           pt == progress_tracker[n]
           p == [at |-> pt.progresses[x.of] - Staleness, req |-> x]
           s == Answers(n, {x})
<1>1. StateTyped /\ QueuesTyped /\ ParkedOnce /\ \A w \in Thread : ResetInv(w)
  BY DEF IInv, WorkersInv
<1>2. /\ Take(n, "kGet") /\ work_queue[n] # <<>>
      /\ work_queue' = [work_queue EXCEPT ![n] = Tail(@)]
      /\ UNCHANGED <<pc, task, todo, pending, added, barrier_count, wire, lost>>
  BY DEF ServerGet, Take, workerVars
<1>3. /\ x.of \in Thread /\ x.flag = "kGet" /\ x \in Gets(x.of, n) /\ x \in Message
      /\ Count(work_queue[n], Gets(x.of, n)) > 0
  BY <1>2, TakeIs
<1>4. Active(x.of) /\ Valid(n, x.of)
  BY <1>2, RequestValid
<1>5. /\ pt.min_clock \in Nat /\ pt.progresses[x.of] \in Nat
  BY <1>4, TrackerIs DEF Valid
<1>6. /\ UNCHANGED <<running, progress_tracker, storage, aborted>>
      /\ \/ /\ pt.progresses[x.of] > pt.min_clock + Staleness
            /\ buffer' = [buffer EXCEPT ![n] = @ \cup {p}] /\ UNCHANGED send_queue
         \/ send_queue' = [send_queue EXCEPT ![n] = @ \o s] /\ UNCHANGED buffer
  BY <1>4 DEF ServerGet
<1>7. \A w : One(x, Gets(w, n)) = IF w = x.of THEN 1 ELSE 0
  BY <1>3 DEF One, Gets, Requests
<1>8. Parked(x.of, n) = 0
  <2>1. FlowInv(x.of, n) /\ x.of.node \in Nodes
    BY <1>3, KindsOf DEF IInv, WorkersInv
  <2>2. /\ Count(send_queue[x.of.node], Gets(x.of, n)) \in Nat /\ Count(wire[x.of.node][n], Gets(x.of, n)) \in Nat
        /\ Count(work_queue[n], Gets(x.of, n)) \in Nat
        /\ Count(send_queue[n], AnswersTo(x.of)) \in Nat /\ Count(wire[n][x.of.node], AnswersTo(x.of)) \in Nat
    BY <1>1, <2>1, CountsTyped
  <2>3. Asked(x.of, n, Gets(x.of, n)) \in Nat /\ Asked(x.of, n, Gets(x.of, n)) > 0
    BY <1>3, <2>2 DEF Asked
  <2>4. Answered(x.of, n) \in Nat /\ Parked(x.of, n) \in Nat
    BY <2>2 DEF Answered, Parked
  <2>5. Asked(x.of, n, Gets(x.of, n)) + Parked(x.of, n) + Answered(x.of, n) \in {0, 1}
    BY <2>1 DEF FlowInv, AsksOrders, Outstanding
  <2>6. QED
    BY <2>3, <2>4, <2>5
<1>9. \A q \in buffer[n] : q.req.of # x.of
  BY <1>8 DEF Parked
<1> HIDE DEF x, pt, p, s
<1>10. CASE /\ pt.progresses[x.of] > pt.min_clock + Staleness
            /\ buffer' = [buffer EXCEPT ![n] = @ \cup {p}] /\ UNCHANGED send_queue
  <2>1. /\ \A T : <<>> \in Seq(T)
        /\ \A X : Count(<<>>, X) = 0
        /\ send_queue' = [send_queue EXCEPT ![n] = @ \o <<>>]
    BY <1>1, <1>10, NoAnswer
  <2>2. p \in [at : Nat, req : Message] /\ p.req = x
    <3>1. pt.progresses[x.of] - Staleness \in Nat
      BY <1>5, <1>10, EngineAssumption
    <3>2. QED
      BY <1>3, <3>1 DEF p
  <2>3. /\ buffer'[n] = buffer[n] \cup {p} /\ buffer[n] \in SUBSET [at : Nat, req : Message]
        /\ \A j \in Nodes : j # n => buffer'[j] = buffer[j]
        /\ buffer' \in [Nodes -> SUBSET [at : Nat, req : Message]]
    BY <1>1, <1>10, <2>2 DEF StateTyped
  <2>4. \A w : Parked(w, n)' = Parked(w, n) + One(x, Gets(w, n))
    <3> TAKE w
    <3>1. CASE w = x.of
      BY <1>7, <1>8, <2>2, <2>3, <3>1 DEF Parked
    <3>2. CASE w # x.of
      <4>1. (\E q \in buffer'[n] : q.req.of = w) <=> \E q \in buffer[n] : q.req.of = w
        BY <2>2, <2>3, <3>2
      <4>2. QED
        BY <1>7, <3>2, <4>1 DEF Parked
    <3>3. QED
      BY <3>1, <3>2
  <2>5. \A w : Parked(w, n)' \in Nat
    BY DEF Parked
  <2>6. Serve(n, x, <<>>)
    <3>1. \A w : Parked(w, n)' + Count(<<>>, AnswersTo(w)) = Parked(w, n) + One(x, Gets(w, n))
      BY <2>1, <2>4, <2>5
    <3>2. QED
      BY <1>2, <2>1, <2>3, <3>1 DEF Serve, x
  <2>7. ParkedOnce'
    <3>1. IsFiniteSet(buffer'[n])
      BY <1>1, <2>3, FS_AddElement DEF ParkedOnce
    <3>2. \A q \in buffer'[n] : q.req \in Gets(q.req.of, n)
      BY <1>1, <1>3, <2>2, <2>3 DEF ParkedOnce
    <3>3. \A q, r \in buffer'[n] : q.req = r.req => q = r
      BY <1>1, <1>9, <2>2, <2>3 DEF ParkedOnce
    <3>4. QED
      BY <1>1, <2>3, <3>1, <3>2, <3>3 DEF ParkedOnce
  <2>8. StateTyped'
    BY <1>1, <1>2, <1>6, <2>3 DEF StateTyped
  <2>9. \A w \in Thread : ResetInv(w)'
    BY <1>3, <1>6, <2>1, <2>6, ServeKeepsReset
  <2>10. QED
    BY <1>2, <1>3, <1>6, <2>1, <2>6, <2>7, <2>8, <2>9, ServeKeeps
<1>11. CASE send_queue' = [send_queue EXCEPT ![n] = @ \o s] /\ UNCHANGED buffer
  <2>1. IsFiniteSet({x}) /\ storage[n] \in SUBSET Thread /\ \A y \in {x} : y \in Gets(y.of, n) /\ y.of \in Thread /\ Active(y.of)
    BY <1>1, <1>3, <1>4, FS_Singleton DEF StateTyped
  <2>2. /\ s \in Seq(Message) /\ s \in Seq(Sent(n))
        /\ \A w : Count(s, AnswersTo(w)) = IF \E y \in {x} : y.of = w THEN 1 ELSE 0
        /\ \A w, m : Count(s, Requests(w, m)) = 0
        /\ Count(s, Of({"kReset", "kBarrier"})) = 0
    <3>1. storage[n] \in SUBSET Thread /\ IsFiniteSet({x}) /\ \A y \in {x} : y \in Gets(y.of, n)
      BY <2>1
    <3>2. QED
      BY ONLY <3>1, n \in Nodes, AnswersEffect DEF s
  <2>3. s \in Seq(Seen)
    BY <2>1, AnswersSeen DEF s
  <2>4. Serve(n, x, s)
    <3>1. \A w : Parked(w, n) \in Nat /\ Parked(w, n)' = Parked(w, n)
      BY <1>11 DEF Parked
    <3>2. \A w : Parked(w, n)' + Count(s, AnswersTo(w)) = Parked(w, n) + One(x, Gets(w, n))
      BY <1>7, <2>2, <3>1
    <3>3. QED
      BY <1>2, <1>11, <2>2, <3>2 DEF Serve, x
  <2>5. ParkedOnce'
    BY <1>1, <1>11 DEF ParkedOnce
  <2>6. StateTyped'
    BY <1>1, <1>2, <1>6, <1>11 DEF StateTyped
  <2>7. \A w \in Thread : ResetInv(w)'
    BY <1>3, <1>6, <2>2, <2>4, ServeKeepsReset
  <2>8. QED
    BY <1>2, <1>3, <1>6, <2>3, <2>4, <2>5, <2>6, <2>7, ServeKeeps
<1>12. QED
  BY <1>6, <1>10, <1>11

LEMMA ServerClockKeeps ==
    ASSUME IInv, NEW n \in Nodes, ServerClock(n)
    PROVE  IInv'
<1> DEFINE x == Head(work_queue[n])
           w0 == x.of
           pt == progress_tracker[n]
           freed == {p \in buffer[n] : p.at = ChangedMinClock(pt, w0)}
           reqs == {p.req : p \in freed}
           s == Answers(n, reqs)
<1>1. StateTyped /\ QueuesTyped /\ ParkedOnce /\ \A w \in Thread : ResetInv(w)
  BY DEF IInv, WorkersInv
<1>2. /\ Take(n, "kClock") /\ work_queue[n] # <<>>
      /\ work_queue' = [work_queue EXCEPT ![n] = Tail(@)]
      /\ UNCHANGED <<pc, task, todo, pending, added, barrier_count, wire, lost>>
  BY DEF ServerClock, Take, workerVars
<1>3. x.of \in Thread /\ x.flag = "kClock" /\ \A w : x \notin Gets(w, n)
  BY <1>2, TakeIs
<1>4. Valid(n, w0)
  BY <1>2, RequestValid
<1>5. /\ progress_tracker' = [progress_tracker EXCEPT ![n] = Advance(@, w0)]
      /\ buffer' = [buffer EXCEPT ![n] = @ \ freed]
      /\ send_queue' = [send_queue EXCEPT ![n] = @ \o s]
      /\ UNCHANGED <<running, storage, aborted>>
  BY <1>4 DEF ServerClock
<1>6. /\ progress_tracker' \in [Nodes -> Tracker]
      /\ \A j \in Nodes : DOMAIN progress_tracker'[j].progresses = DOMAIN progress_tracker[j].progresses
  <2>1. PICK T \in SUBSET Thread : pt \in [progresses : [T -> Nat], min_clock : Nat]
    BY <1>1 DEF StateTyped, Tracker
  <2>2. w0 \in T
    BY <1>4, <2>1 DEF Valid
  <2> HIDE DEF pt, w0
  <2>3. pt.progresses \in [T -> Nat] /\ pt.min_clock \in Nat
    BY <2>1
  <2>4. [pt.progresses EXCEPT ![w0] = @ + 1] \in [T -> Nat]
    BY <2>2, <2>3
  <2>5. (IF IsUniqueMin(pt, w0) THEN pt.min_clock + 1 ELSE pt.min_clock) \in Nat
    BY <2>3
  <2>6. /\ Advance(pt, w0) \in [progresses : [T -> Nat], min_clock : Nat]
        /\ Advance(pt, w0).progresses \in [T -> Nat]
    BY <2>4, <2>5 DEF Advance
  <2>7. Advance(pt, w0) \in Tracker /\ DOMAIN Advance(pt, w0).progresses = DOMAIN pt.progresses
    BY <2>3, <2>6 DEF Tracker
  <2>8. progress_tracker \in [Nodes -> Tracker] /\ progress_tracker'[n] = Advance(pt, w0)
    BY <1>1, <1>5 DEF StateTyped, pt
  <2>9. progress_tracker' \in [Nodes -> Tracker]
    BY <1>5, <2>7, <2>8 DEF pt
  <2>10. QED
    BY <1>5, <2>7, <2>8, <2>9 DEF pt
<1>7. freed \in SUBSET buffer[n]
  OBVIOUS
<1>8. reqs = {p.req : p \in freed}
  OBVIOUS
<1> HIDE DEF x, w0, pt, freed, reqs, s
<1>9. IsFiniteSet(freed) /\ IsFiniteSet(reqs)
  <2>1. IsFiniteSet(freed)
    BY <1>1, <1>7, FS_Subset DEF ParkedOnce
  <2> DEFINE f == [p \in freed |-> p.req]
  <2>2. f \in Surjection(freed, reqs)
    BY <1>8 DEF Surjection
  <2>3. IsFiniteSet(reqs)
    BY <2>1, <2>2, FS_Surjection
  <2>4. QED
    BY <2>1, <2>3
<1>10. ASSUME NEW y \in reqs PROVE y \in Gets(y.of, n) /\ y.of \in Thread /\ Active(y.of)
  <2>1. PICK p \in freed : p.req = y
    BY <1>8
  <2>2. p \in buffer[n] /\ y \in Gets(y.of, n)
    BY <1>1, <1>7, <2>1 DEF ParkedOnce
  <2>3. y.of \in Thread
    BY <2>2 DEF Gets, Requests, Message
  <2>4. Parked(y.of, n) > 0
    BY <2>1, <2>2 DEF Parked
  <2>5. QED
    BY <2>2, <2>3, <2>4, WhoIsActive
<1>11. /\ s \in Seq(Message) /\ s \in Seq(Sent(n))
       /\ \A w : Count(s, AnswersTo(w)) = IF \E y \in reqs : y.of = w THEN 1 ELSE 0
       /\ \A w, m : Count(s, Requests(w, m)) = 0
       /\ Count(s, Of({"kReset", "kBarrier"})) = 0
  <2>1. storage[n] \in SUBSET Thread
    BY <1>1 DEF StateTyped
  <2>2. QED
    BY <1>9, <1>10, <2>1, AnswersEffect DEF s
<1>12. s \in Seq(Seen)
  BY <1>9, <1>10, AnswersSeen DEF s
<1>13. /\ buffer'[n] = buffer[n] \ freed /\ buffer[n] \in SUBSET [at : Nat, req : Message]
       /\ \A j \in Nodes : j # n => buffer'[j] = buffer[j]
       /\ buffer' \in [Nodes -> SUBSET [at : Nat, req : Message]]
  BY <1>1, <1>5 DEF StateTyped
<1>14. ASSUME NEW w PROVE Parked(w, n)' + Count(s, AnswersTo(w)) = Parked(w, n) + One(x, Gets(w, n))
  <2>1. One(x, Gets(w, n)) = 0
    BY <1>3 DEF One
  <2>2. CASE \E y \in reqs : y.of = w
    <3>1. PICK p \in freed : p.req.of = w
      BY <1>8, <2>2
    <3>2. p \in buffer[n] /\ p.req \in Gets(w, n)
      BY <1>1, <1>7, <3>1 DEF ParkedOnce
    <3>3. \A q \in buffer[n] : q.req.of = w => q = p
      <4> TAKE q \in buffer[n]
      <4> HAVE q.req.of = w
      <4>1. q.req \in Gets(w, n)
        BY <1>1 DEF ParkedOnce
      <4>2. q.req = p.req
        BY <3>2, <4>1, GetsAlike
      <4>3. QED
        BY <1>1, <3>2, <4>2 DEF ParkedOnce
    <3>4. ~\E q \in buffer'[n] : q.req.of = w
      BY <1>13, <3>1, <3>3
    <3>5. Parked(w, n)' = 0 /\ Parked(w, n) = 1
      BY <3>1, <3>2, <3>4 DEF Parked
    <3>6. QED
      BY <1>11, <2>1, <2>2, <3>5
  <2>3. CASE ~\E y \in reqs : y.of = w
    <3>1. (\E q \in buffer'[n] : q.req.of = w) <=> \E q \in buffer[n] : q.req.of = w
      BY <1>8, <1>13, <2>3
    <3>2. Parked(w, n)' = Parked(w, n) /\ Parked(w, n) \in Nat
      BY <3>1 DEF Parked
    <3>3. QED
      BY <1>11, <2>1, <2>3, <3>2
  <2>4. QED
    BY <2>2, <2>3
<1>15. Serve(n, x, s)
  BY <1>2, <1>5, <1>11, <1>13, <1>14 DEF Serve, x
<1>16. ParkedOnce'
  <2>1. IsFiniteSet(buffer'[n])
    BY <1>1, <1>13, FS_Subset DEF ParkedOnce
  <2>2. QED
    BY <1>1, <1>13, <2>1 DEF ParkedOnce
<1>17. StateTyped'
  BY <1>1, <1>2, <1>5, <1>6, <1>13 DEF StateTyped
<1>18. \A w \in Thread : ResetInv(w)'
  BY <1>3, <1>6, <1>11, <1>15, ServeKeepsReset
<1>19. QED
  BY <1>2, <1>3, <1>5, <1>12, <1>15, <1>16, <1>17, <1>18, ServeKeeps

LEMMA ServerExitKeeps ==
    ASSUME IInv, NEW n \in Nodes, ServerExit(n)
    PROVE  IInv'
<1> DEFINE x == Head(work_queue[n])
<1>1. StateTyped /\ QueuesTyped /\ SeenInv
  BY DEF IInv
<1>2. /\ Take(n, "kExit") /\ work_queue[n] # <<>>
      /\ work_queue' = [work_queue EXCEPT ![n] = Tail(@)]
      /\ running' = [running EXCEPT ![n] = @ \ {"server"}]
      /\ UNCHANGED <<pc, task, todo, pending, added, barrier_count, wire, lost>>
      /\ UNCHANGED <<progress_tracker, buffer, storage, send_queue, aborted>>
  BY DEF ServerExit, Take, workerVars, serverVars
<1>3. x.flag = "kExit" /\ Popped(work_queue, work_queue', n, x)
  BY <1>2, TakeIs
<1> HIDE DEF x
<1>4. StateTyped'
  BY <1>1, <1>2 DEF StateTyped
<1>5. QueuesTyped' /\ SeenInv'
  BY <1>1, <1>2, <1>3, SeenStays DEF QueuesTyped, Popped, SeenInv
<1>6. \A V : (\A y \in V : y.flag # "kExit") => Still(V)
  <2> TAKE V
  <2> HAVE \A y \in V : y.flag # "kExit"
  <2>1. x \notin V /\ work_queue \in [Nodes -> Seq(Message)]
    BY <1>1, <1>3 DEF QueuesTyped
  <2>2. Alike(work_queue, work_queue', V)
    BY <1>3, <2>1, AlikeEffects
  <2>3. QED
    BY <1>2, <2>2, SameIsAlike DEF Still
<1>7. QED
  BY <1>2, <1>4, <1>5, <1>6, StoppingKeeps

-----------------------------------------------------------------------------
(* The theorems                                                            *)

LEMMA InitHolds == Init => IInv
<1> SUFFICES ASSUME Init PROVE IInv
  OBVIOUS
<1>1. /\ pc = [n \in Nodes |-> "run"] /\ task = [n \in Nodes |-> 1]
      /\ todo = [n \in Nodes |-> <<>>] /\ pending = [n \in Nodes |-> 0]
      /\ running = [n \in Nodes |-> {"receiver", "sender", "server"}]
      /\ send_queue = [n \in Nodes |-> <<>>] /\ work_queue = [n \in Nodes |-> <<>>]
      /\ wire = [m \in Nodes |-> [n \in Nodes |-> <<>>]]
      /\ barrier_count = [n \in Nodes |-> 0] /\ progress_tracker = [n \in Nodes |-> TrackerInit({})]
      /\ buffer = [n \in Nodes |-> {}] /\ storage = [n \in Nodes |-> {}]
      /\ added = {} /\ lost = {} /\ aborted = FALSE
  BY DEF Init
<1>2. (\A T : <<>> \in Seq(T)) /\ \A X : Count(<<>>, X) = 0
  BY EmptySeq, CountEmpty
<1>3. \A G, X : LastIn(<<>>, G, X)
  BY EmptySeq DEF LastIn
<1>4. StateTyped
  <2>1. TrackerInit({}) \in Tracker
    <3>1. TrackerInit({}) \in [progresses : [{} -> Nat], min_clock : Nat]
      BY DEF TrackerInit
    <3>2. QED
      BY <3>1 DEF Tracker
  <2>2. 1 \in Tasks
    BY EngineAssumption DEF Tasks
  <2>3. QED
    BY <1>1, <1>2, <2>1, <2>2 DEF StateTyped, Places
<1>5. QueuesTyped /\ SeenInv
  BY <1>1, <1>2 DEF QueuesTyped, SeenInv
<1>6. ParkedOnce
  BY <1>1, FS_EmptySet DEF ParkedOnce
<1>7. BarrierInv
  <2>1. \A n \in Nodes : Begun(n) = 0 /\ Over(n) = 0
    BY <1>1 DEF Begun, Over
  <2>2. \A m, n \in Nodes : Heard(m, n) = 0
    BY <1>1, <1>2, <2>1 DEF Heard
  <2>3. Rounds(0) = {} /\ \A n \in Nodes : Calls(n) = {}
    BY <2>2 DEF Rounds, Calls
  <2>4. Cardinality({}) = 0
    BY FS_EmptySet
  <2>5. \A n \in Nodes : barrier_count[n] + Cardinality(Rounds(Over(n))) = Cardinality(Calls(n))
    <3> TAKE n \in Nodes
    <3>1. barrier_count[n] = 0 /\ Over(n) = 0
      BY <1>1, <2>1
    <3>2. QED
      BY <2>3, <2>4, <3>1
  <2>6. QED
    BY <2>1, <2>2, <2>5 DEF BarrierInv
<1>8. \A w \in Thread : ~Active(w) /\ ~At(w, {"resetting"}) /\ ~At(w, {"reset", "starting", "working", "ending"})
  BY <1>1 DEF Active, At, Thread
<1>9. \A w \in Thread, m \in Nodes : \A X : Asked(w, m, X) = 0
  BY <1>1, <1>2 DEF Asked, Thread
<1>10. \A w \in Thread, m \in Nodes : Parked(w, m) = 0 /\ Answered(w, m) = 0
  BY <1>1, <1>2 DEF Parked, Answered, Thread
<1>11. \A w \in Thread, m \in Nodes : Outstanding(w, m) = 0
  BY <1>9, <1>10 DEF Outstanding
<1>12. \A w \in Thread : ResetInv(w)
  <2>1. \A w \in Thread : Resetting(w) = 0 /\ Done(w) = 0
    BY <1>1, <1>2, <1>9 DEF Resetting, Done, Thread
  <2>2. QED
    BY <1>8, <2>1 DEF ResetInv
<1>13. \A w \in Thread, m \in Nodes : FlowInv(w, m) /\ StorageInv(w, m)
  <2> TAKE w \in Thread, m \in Nodes
  <2>1. w.node \in Nodes
    BY DEF Thread
  <2>2. GetIsLast(w, m)
    BY <1>1, <1>2, <1>3, <1>9, <2>1 DEF GetIsLast
  <2>3. AsksOrders(w, m)
    BY <1>8, <1>9, <1>11 DEF AsksOrders
  <2>4. StorageInv(w, m)
    BY <1>1, <1>9 DEF StorageInv
  <2>5. QED
    BY <2>2, <2>3, <2>4 DEF FlowInv
<1>14. PendingInv
  <2>1. \A n \in Nodes : Waiting(n) = {}
    BY <1>4, <1>11, WorkerIs DEF Waiting
  <2>2. QED
    BY <1>1, <2>1, FS_EmptySet DEF PendingInv
<1>15. TodoEndsWithGet
  BY <1>1 DEF TodoEndsWithGet
<1>16. QED
  BY <1>1, <1>4, <1>5, <1>6, <1>7, <1>12, <1>13, <1>14, <1>15 DEF IInv, WorkersInv

LEMMA StutterKeeps ==
    ASSUME IInv, UNCHANGED vars
    PROVE  IInv'
<1>1. StateTyped /\ QueuesTyped /\ SeenInv
  BY DEF IInv
<1>2. /\ UNCHANGED <<pc, task, todo, pending, added, running, send_queue, wire, work_queue, barrier_count>>
      /\ UNCHANGED <<progress_tracker, buffer, storage, lost, aborted>> /\ UNCHANGED netVars
  BY DEF vars, workerVars, serverVars, histVars, netVars
<1>3. StateTyped' /\ QueuesTyped' /\ SeenInv'
  BY <1>1, <1>2, SeenStays DEF StateTyped, QueuesTyped, SeenInv
<1>4. \A V : Still(V)
  BY <1>2, SameIsAlike
<1>5. QED
  BY <1>2, <1>3, <1>4, StoppingKeeps

LEMMA NextKeeps ==
    ASSUME IInv, LambdasEndWithGet, Next
    PROVE  IInv'
<1>1. CASE \E n \in Nodes : Main(n) \/ Call(n) \/ SenderStep(n) \/ Server(n)
  <2>1. PICK n \in Nodes : Main(n) \/ Call(n) \/ SenderStep(n) \/ Server(n)
    BY <1>1
  <2>2. CASE Main(n)
    BY <2>2, StartTaskKeeps, EnterBarrierStep, LeaveBarrierStep, SendExitKeeps, CloseSocketsKeeps, JoinThreadsKeeps
       DEF Main
  <2>3. CASE Call(n)
    BY <2>3, CallKeeps
  <2>4. CASE SenderStep(n)
    BY <2>4, SenderStepKeeps
  <2>5. CASE Server(n)
    BY <2>5, ResetWorkerKeeps, ServerAddKeeps, ServerGetKeeps, ServerClockKeeps, ServerExitKeeps DEF Server
  <2>6. QED
    BY <2>1, <2>2, <2>3, <2>4, <2>5
<1>2. CASE \E i, n \in Nodes : ReceiverStep(i, n)
  BY <1>2, ReceiverStepKeeps
<1>3. QED
  BY <1>1, <1>2 DEF Next

LEMMA InvTyped == IInv => TasksSound
<1> SUFFICES ASSUME IInv PROVE TasksSound
  OBVIOUS
<1>1. StateTyped /\ QueuesTyped /\ BarrierInv /\ PendingInv /\ lost = {} /\ aborted = FALSE
  BY DEF IInv
<1>2. pending \in [Nodes -> 0 .. NumNodes]
  <2>1. \A n \in Nodes : Cardinality(Waiting(n)) \in 0 .. NumNodes
    <3> TAKE n \in Nodes
    <3>1. Waiting(n) \in SUBSET Nodes /\ IsFiniteSet(Nodes)
      BY EngineAssumption DEF Waiting
    <3>2. IsFiniteSet(Waiting(n)) /\ Cardinality(Waiting(n)) <= Cardinality(Nodes)
      BY <3>1, FS_Subset
    <3>3. Cardinality(Waiting(n)) \in Nat /\ Cardinality(Nodes) \in Nat
      BY <3>1, <3>2, FS_CardinalityType
    <3>4. QED
      BY <3>2, <3>3 DEF NumNodes
  <2>2. QED
    BY <1>1, <2>1 DEF PendingInv, StateTyped
<1>3. barrier_count \in [Nodes -> 0 .. 2 * NumNodes - 1]
  <2>1. ASSUME NEW n \in Nodes PROVE barrier_count[n] \in 0 .. 2 * NumNodes - 1
    <3> DEFINE k == Over(n)
    <3>1. /\ k \in Nat /\ Begun(n) \in Nat /\ Begun(n) <= k + 1 /\ barrier_count[n] \in Nat
          /\ barrier_count[n] + Cardinality(Rounds(k)) = Cardinality(Calls(n))
      BY <1>1, BarrierBounds DEF BarrierInv, StateTyped
    <3> HIDE DEF k
    <3>2. \A m \in Nodes : Heard(m, n) \in Nat /\ Heard(m, n) <= k + 2
      <4> TAKE m \in Nodes
      <4>1. /\ Over(m) \in Nat /\ Begun(m) \in Nat /\ Begun(m) <= Over(m) + 1 /\ Over(m) <= Begun(n)
            /\ Heard(m, n) \in Nat /\ Heard(m, n) <= Begun(m)
        BY <1>1, BarrierBounds
      <4>2. QED
        BY <3>1, <4>1
    <3>3. Heard(n, n) < k + 2
      <4>1. Heard(n, n) \in Nat /\ Heard(n, n) <= Begun(n)
        BY <1>1, BarrierBounds
      <4>2. QED
        BY <3>1, <4>1
    <3>4. Cardinality(Calls(n)) \in Nat /\ Cardinality(Calls(n)) < Cardinality(Rounds(k + 2))
      <4>1. k + 2 \in Nat
        BY <3>1
      <4>2. QED
        BY <3>2, <3>3, <4>1, CallsBounded
    <3>5. /\ Cardinality(Rounds(k)) \in Nat /\ NumNodes \in Nat
          /\ Cardinality(Rounds(k + 2)) = Cardinality(Rounds(k)) + 2 * NumNodes
      BY <3>1, RoundsCounted
    <3>6. QED
      BY <3>1, <3>4, <3>5
  <2>2. QED
    BY <1>1, <2>1 DEF StateTyped
<1>4. \A n \in Nodes : progress_tracker[n].min_clock \in Nat
  BY TrackerIs
<1>5. \A n \in Nodes : \A p \in buffer[n] : p.at \in Nat /\ p.req \in Message
  BY <1>1 DEF StateTyped
<1>6. storage \in [Nodes -> SUBSET added]
  <2>1. storage \in [Nodes -> SUBSET Thread] /\ \A n \in Nodes : storage[n] \subseteq added
    BY <1>1 DEF IInv, StateTyped
  <2>2. QED
    BY <2>1
<1>7. TypeOK
  BY <1>1, <1>2, <1>3, <1>4, <1>5, <1>6 DEF TypeOK, StateTyped, QueuesTyped, Places
<1>8. QED
  BY <1>1, <1>7 DEF TasksSound, NoCheckFails

LEMMA InvVisible == IInv => EarlierTasksVisible
<1> SUFFICES ASSUME IInv, NEW n \in Nodes,
                    NEW m \in ToSet(send_queue[n]) \cup UNION {ToSet(wire[n][k]) : k \in Nodes},
                    m.at = "worker"
             PROVE  {a \in added : a.task < m.of.task} \subseteq m.adds
  BY DEF EarlierTasksVisible
<1>1. SeenInv
  BY DEF IInv
<1>2. ASSUME NEW q \in Seq(Seen), m \in ToSet(q) PROVE m \in Seen
  BY <1>2, LenProperties, ElementOfSeq DEF ToSet
<1>3. m \in Seen
  <2>1. CASE m \in ToSet(send_queue[n])
    BY <1>1, <1>2, <2>1 DEF SeenInv
  <2>2. CASE m \in UNION {ToSet(wire[n][k]) : k \in Nodes}
    <3>1. PICK k \in Nodes : m \in ToSet(wire[n][k])
      BY <2>2
    <3>2. QED
      BY <1>1, <1>2, <3>1 DEF SeenInv
  <2>3. QED
    BY <2>1, <2>2
<1>4. QED
  BY <1>3 DEF Seen

LEMMA InvStops == IInv => StopLosesNothing
<1> SUFFICES ASSUME IInv, NEW n \in Nodes, pc[n] = "stopped"
             PROVE  storage[n] = added
  BY DEF IInv, StopLosesNothing
<1>1. StateTyped /\ QueuesTyped /\ BarrierInv /\ storage[n] \subseteq added
  BY DEF IInv
<1>2. ASSUME NEW w \in added PROVE w \in storage[n]
  <2>1. w \in Thread /\ w.node \in Nodes
    BY <1>1 DEF StateTyped, Thread
  <2>2. ~Active(w)
    <3> SUFFICES ASSUME Active(w) PROVE FALSE
      OBVIOUS
    <3>1. pc[w.node] = "working"
      BY DEF Active
    <3>2. pc[n] \in {"starting", "working", "ending"}
      BY <1>1, <2>1, <3>1, WorkingTogether
    <3>3. QED
      BY <3>2
  <2>3. FlowInv(w, n) /\ StorageInv(w, n) /\ Adds(w, n) \subseteq Requests(w, n)
    BY <2>1, KindsOf DEF IInv, WorkersInv
  <2>4. Asked(w, n, Adds(w, n)) = 0
    BY <1>1, <2>1, <2>2, <2>3, NothingAsked
  <2>5. QED
    BY <2>3, <2>4 DEF StorageInv
<1>3. QED
  BY <1>1, <1>2

\* The inductive invariant: Engine::Run, Barrier and the threads of the node keep
\* it, whatever order their steps and messages come in.
THEOREM EngineInvariant ==
    ASSUME LambdasEndWithGet
    PROVE  Spec => []IInv
<1>1. Init => IInv
  BY InitHolds
<1>2. IInv /\ [Next]_vars => IInv'
  BY NextKeeps, StutterKeeps
<1>3. QED
  BY <1>1, <1>2, PTL DEF Spec

\* All values keep their types, with barrier_count below two rounds, and no
\* request meets the tracker of another task: CheckThreadValid in ProgressTracker
\* and the CHECK of SSPModel::Get never fail, although the Barriers of Engine::Run
\* overtake what is in the Senders' queues.
THEOREM EngineTasksSound ==
    ASSUME LambdasEndWithGet
    PROVE  Spec => []TasksSound
<1>1. Spec => []IInv
  BY EngineInvariant
<1>2. IInv => TasksSound
  BY InvTyped
<1>3. QED
  BY <1>1, <1>2, PTL

\* What a worker Gets holds all Adds of the tasks before its own, although a
\* KVClientTable::Add is never acknowledged and Barrier bypasses the Sender.
THEOREM EngineVisible ==
    ASSUME LambdasEndWithGet
    PROVE  Spec => []EarlierTasksVisible
<1>1. Spec => []IInv
  BY EngineInvariant
<1>2. IInv => EarlierTasksVisible
  BY InvVisible
<1>3. QED
  BY <1>1, <1>2, PTL

\* StopEverything loses nothing: no message is dropped for want of its receiver,
\* and a server whose threads have been joined has every Add of all workers.
THEOREM EngineStops ==
    ASSUME LambdasEndWithGet
    PROVE  Spec => []StopLosesNothing
<1>1. Spec => []IInv
  BY EngineInvariant
<1>2. IInv => StopLosesNothing
  BY InvStops
<1>3. QED
  BY <1>1, <1>2, PTL
=============================================================================
