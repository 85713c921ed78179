---------------------------- MODULE ChannelProofs -----------------------------
(***************************************************************************)
(* First part: the barrier of comm2/.  this_count and next_count are the      *)
(* numbers of nodes whose next call of Barrier, and the one after it, the      *)
(* receiver has heard of.  The lemmas hold for any set S of messages, so that  *)
(* the second part can use them.                                            *)
(*                                                                         *)
(* Second part: SyncAndGet over that barrier.  Everything is dated by the      *)
(* number of Waits: a thread has passed done(t) of them, its node has begun    *)
(* m_generation, and for each the node calls Barrier once, after the one of    *)
(* the constructor.                                                        *)
(***************************************************************************)
EXTENDS Channel, MailboxProofs

\* The nodes that n has heard of as having called Barrier more than k times.
HeardAfter(n, k) == {m \in Nodes : Heard(m, n) > k}

Counted ==
    /\ this_count \in [Nodes -> Nat]
    /\ next_count \in [Nodes -> Nat]
    /\ \A n \in Nodes : this_count[n] = Cardinality(HeardAfter(n, left[n]))
    /\ \A n \in Nodes : next_count[n] = Cardinality(HeardAfter(n, left[n] + 1))
    /\ \A m, n \in Nodes : left[n] <= Heard(m, n)

BarrierInv(S) == NetInv(S) /\ Counted /\ NoLostWakeup

IInv == BarrierInv(Message) /\ aborted = FALSE

-----------------------------------------------------------------------------
(* Sets of nodes                                                           *)

LEMMA SomeNodes ==
    ASSUME NEW T \in SUBSET Nodes
    PROVE  /\ Cardinality(T) \in 0 .. NumNodes /\ NumNodes \in Nat
           /\ Cardinality(T) = NumNodes <=> T = Nodes
           /\ \A m \in Nodes \ T : Cardinality(T \cup {m}) = Cardinality(T) + 1
<1>1. IsFiniteSet(Nodes)
  BY MailboxAssumption
<1>2. /\ IsFiniteSet(T) /\ Cardinality(T) <= Cardinality(Nodes)
      /\ Cardinality(Nodes) = Cardinality(T) => Nodes = T
  BY <1>1, FS_Subset
<1>3. Cardinality(T) \in Nat /\ Cardinality(Nodes) \in Nat
  BY <1>1, <1>2, FS_CardinalityType
<1>4. \A m \in Nodes \ T : Cardinality(T \cup {m}) = Cardinality(T) + 1
  BY <1>2, FS_AddElement
<1>5. QED
  BY <1>2, <1>3, <1>4 DEF NumNodes

\* A node is at most one Barrier ahead of any other one.
LEMMA OneRoundApart ==
    ASSUME NEW S, Dated(S), NetInv(S), Counted
    PROVE  \A m, n \in Nodes : /\ left[n] \in Nat /\ entered[n] \in Nat
                              /\ Heard(m, n) \in Nat
                              /\ left[n] <= Heard(m, n) /\ Heard(m, n) <= entered[m]
                              /\ entered[m] <= left[m] + 1
                              /\ left[m] <= entered[n]
                              /\ Heard(m, n) <= left[n] + 2
<1>1. \A m, n \in Nodes : /\ left[n] \in Nat /\ entered[n] \in Nat /\ entered[m] \in Nat
                         /\ Heard(m, n) \in Nat /\ Heard(m, n) <= entered[m]
  BY NetInvParts
<1>2. \A m, n \in Nodes : left[n] <= Heard(m, n)
  BY DEF Counted
<1>3. \A m \in Nodes : entered[m] <= left[m] + 1
  BY <1>1 DEF NetInv, OneAtATime
<1>4. \A m, n \in Nodes : left[m] <= entered[n]
  BY <1>1, <1>2
<1>5. \A m, n \in Nodes : Heard(m, n) <= left[n] + 2
  BY <1>1, <1>3, <1>4
<1>6. QED
  BY <1>1, <1>2, <1>3, <1>4, <1>5

-----------------------------------------------------------------------------
(* The receiver counts, the barrier returns                                *)

LEMMA CountedKept ==
    ASSUME Counted, UNCHANGED <<counts, left>>,
           \A m, n \in Nodes : Heard(m, n)' = Heard(m, n)
    PROVE  Counted'
<1>1. \A n \in Nodes : \A k : HeardAfter(n, k)' = HeardAfter(n, k)
  BY DEF HeardAfter
<1>2. UNCHANGED <<this_count, next_count, left>>
  BY DEF counts
<1>3. QED
  BY <1>1, <1>2 DEF Counted

\* The message is of the receiver's round or of the next one, and of the next
\* one the receiver's own message is missing.
LEMMA ReceiveBarrierKeeps ==
    ASSUME NEW S, Dated(S), BarrierInv(S), NEW m \in Nodes, NEW n \in Nodes,
           ReceiveBarrier(m, n)
    PROVE  BarrierInv(S)' /\ aborted' = FALSE
<1> DEFINE version == Head(wire[m][n]).version
           this == ThisRound(n, version)
           next == version = left[n] + 1
<1>1. /\ Received(m, n, "kBarrier") /\ UNCHANGED <<entered, left, unsent>>
      /\ this_count' = [this_count EXCEPT ![n] = IF this THEN @ + 1 ELSE @]
      /\ next_count' = [next_count EXCEPT ![n] = IF next THEN @ + 1 ELSE @]
      /\ pc' = [pc EXCEPT ![n] = IF (this /\ this_count[n] + 1 = NumNodes) /\ @ = "waiting"
                                 THEN "checking" ELSE @]
      /\ aborted' = (\/ ~this /\ ~next
                     \/ next /\ next_count[n] + 1 >= NumNodes)
  BY DEF ReceiveBarrier, Notify
<1>2. NetInv(S) /\ Counted /\ NoLostWakeup
  BY DEF BarrierInv
<1>3. pc \in [Nodes -> Places]
  BY <1>2 DEF NetInv, NetTyped
<1>4. \/ pc' = pc
      \/ /\ pc[n] = "waiting" /\ pc' = [pc EXCEPT ![n] = "checking"]
  BY <1>1, <1>3
<1>5. /\ NetInv(S)'
      /\ \A j, k \in Nodes : <<j, k>> # <<m, n>> => Heard(j, k)' = Heard(j, k)
      /\ Heard(m, n)' = Heard(m, n) + 1
      /\ Heard(m, n) = version
  BY <1>1, <1>2, <1>4, ReceiveKeeps
<1>6. \A j, k \in Nodes : /\ left[k] \in Nat /\ Heard(j, k) \in Nat
                         /\ left[k] <= Heard(j, k) /\ Heard(j, k) <= left[k] + 2
                         /\ Heard(j, k) <= entered[j] /\ entered[j] \in Nat
                         /\ entered[j] <= left[j] + 1
  BY <1>2, OneRoundApart
<1>7. Heard(m, n) < left[n] + 2
  <2>1. Heard(m, n) + 1 <= entered[m]
    BY <1>1, <1>5, NetInvPartsNext
  <2>2. left[m] <= entered[n]
    BY <1>2, OneRoundApart
  <2>3. QED
    BY <1>6, <2>1, <2>2
<1>8. (this <=> Heard(m, n) = left[n]) /\ (next <=> Heard(m, n) = left[n] + 1)
  BY <1>5 DEF ThisRound
<1> HIDE DEF version, this, next
<1>9. this \/ next
  BY <1>6, <1>7, <1>8
<1>10. \A k \in Nat : HeardAfter(n, k)' = IF Heard(m, n) = k THEN HeardAfter(n, k) \cup {m}
                                        ELSE HeardAfter(n, k)
  BY <1>5, <1>6 DEF HeardAfter
<1>11. \A k \in Nat : Cardinality(HeardAfter(n, k))' =
           Cardinality(HeardAfter(n, k)) + (IF Heard(m, n) = k THEN 1 ELSE 0)
  <2> SUFFICES ASSUME NEW k \in Nat
               PROVE  Cardinality(HeardAfter(n, k))' =
                          Cardinality(HeardAfter(n, k)) + (IF Heard(m, n) = k THEN 1 ELSE 0)
    OBVIOUS
  <2>1. HeardAfter(n, k) \in SUBSET Nodes
    BY DEF HeardAfter
  <2>2. Cardinality(HeardAfter(n, k)) \in Nat
    BY <2>1, SomeNodes
  <2>3. CASE Heard(m, n) = k
    <3>1. m \notin HeardAfter(n, k)
      BY <1>6, <2>3 DEF HeardAfter
    <3>2. QED
      BY <1>10, <2>1, <2>3, <3>1, SomeNodes
  <2>4. CASE Heard(m, n) # k
    BY <1>10, <2>2, <2>4
  <2>5. QED
    BY <2>3, <2>4
<1>12. \A j \in Nodes : j # n => \A k : HeardAfter(j, k)' = HeardAfter(j, k)
  BY <1>5 DEF HeardAfter
<1>13. /\ this_count \in [Nodes -> Nat] /\ next_count \in [Nodes -> Nat]
       /\ \A j \in Nodes : this_count[j] = Cardinality(HeardAfter(j, left[j]))
       /\ \A j \in Nodes : next_count[j] = Cardinality(HeardAfter(j, left[j] + 1))
  BY <1>2 DEF Counted
<1>14. /\ this_count' \in [Nodes -> Nat] /\ next_count' \in [Nodes -> Nat]
       /\ this_count'[n] = this_count[n] + (IF this THEN 1 ELSE 0)
       /\ next_count'[n] = next_count[n] + (IF next THEN 1 ELSE 0)
       /\ \A j \in Nodes : j # n => this_count'[j] = this_count[j] /\ next_count'[j] = next_count[j]
  BY <1>1, <1>13
<1>15. left[n] \in Nat /\ left[n] + 1 \in Nat /\ left' = left
  BY <1>1, <1>6
<1>16. Counted'
  <2>1. \A j \in Nodes : this_count'[j] = Cardinality(HeardAfter(j, left[j]))'
    <3> SUFFICES ASSUME NEW j \in Nodes
                 PROVE  this_count'[j] = Cardinality(HeardAfter(j, left[j]))'
      OBVIOUS
    <3>1. CASE j = n
      BY <1>8, <1>11, <1>13, <1>14, <1>15, <3>1
    <3>2. CASE j # n
      BY <1>12, <1>13, <1>14, <1>15, <3>2
    <3>3. QED
      BY <3>1, <3>2
  <2>2. \A j \in Nodes : next_count'[j] = Cardinality(HeardAfter(j, left[j] + 1))'
    <3> SUFFICES ASSUME NEW j \in Nodes
                 PROVE  next_count'[j] = Cardinality(HeardAfter(j, left[j] + 1))'
      OBVIOUS
    <3>1. CASE j = n
      BY <1>8, <1>11, <1>13, <1>14, <1>15, <3>1
    <3>2. CASE j # n
      BY <1>12, <1>13, <1>14, <1>15, <3>2
    <3>3. QED
      BY <3>1, <3>2
  <2>3. \A j, k \in Nodes : left'[k] <= Heard(j, k)'
    BY <1>5, <1>6, <1>15
  <2>4. QED
    BY <1>14, <2>1, <2>2, <2>3 DEF Counted
<1>17. aborted' = FALSE
  <2> SUFFICES ASSUME next PROVE next_count[n] + 1 < NumNodes
    BY <1>1, <1>9, <1>13, SomeNodes DEF HeardAfter
  <2> DEFINE T == HeardAfter(n, left[n] + 1) \cup {m}
  <2>1. m \notin HeardAfter(n, left[n] + 1)
    BY <1>6, <1>8 DEF HeardAfter
  <2>2. n \notin T
    <3>1. n \notin HeardAfter(n, left[n] + 1) /\ Heard(n, n) <= left[n] + 1
      BY <1>6 DEF HeardAfter
    <3>2. n # m
      <4>1. Heard(m, n) + 1 <= entered[m]
        BY <1>1, <1>5, NetInvPartsNext
      <4>2. QED
        BY <1>6, <1>8, <4>1
    <3>3. QED
      BY <3>1, <3>2
  <2>3. /\ Cardinality(T) = next_count[n] + 1 /\ NumNodes \in Nat
        /\ Cardinality(T) \in 0 .. NumNodes /\ Cardinality(T) # NumNodes
    <3>1. HeardAfter(n, left[n] + 1) \in SUBSET Nodes /\ T \in SUBSET Nodes /\ T # Nodes
      BY <2>2 DEF HeardAfter
    <3>2. Cardinality(T) = next_count[n] + 1
      BY <1>13, <2>1, <3>1, SomeNodes
    <3> HIDE DEF T
    <3>3. QED
      BY <3>1, <3>2, SomeNodes
  <2>4. QED
    BY <1>13, <2>3
<1>18. NoLostWakeup'
  <2> SUFFICES ASSUME NEW j \in Nodes, pc'[j] = "waiting"
               PROVE  this_count'[j] # NumNodes
    BY DEF NoLostWakeup, Complete
  <2>1. pc[j] = "waiting" /\ this_count[j] # NumNodes
    BY <1>2, <1>3, <1>4 DEF NoLostWakeup, Complete
  <2>2. CASE j = n
    BY <1>1, <1>3, <1>14, <2>1, <2>2
  <2>3. CASE j # n
    BY <1>14, <2>1, <2>3
  <2>4. QED
    BY <2>2, <2>3
<1>19. QED
  BY <1>5, <1>16, <1>17, <1>18 DEF BarrierInv

\* A Barrier that returns has heard of everybody's call, and what it counted of
\* the next round is all it has heard of that one.
LEMMA ReturnKeeps ==
    ASSUME NEW S, Dated(S), BarrierInv(S), NEW n \in Nodes, Return(n)
    PROVE  /\ BarrierInv(S)'
           /\ \A m \in Nodes : left[n] < Heard(m, n) /\ left[n] < entered[m]
<1>1. /\ LeaveBarrier(n, Complete(n)) /\ this_count[n] = NumNodes
      /\ this_count' = [this_count EXCEPT ![n] = next_count[n]]
      /\ next_count' = [next_count EXCEPT ![n] = 0]
      /\ left' = [left EXCEPT ![n] = @ + 1]
      /\ pc' = [pc EXCEPT ![n] = "running"]
  BY DEF Return, LeaveBarrier, Complete
<1>2. NetInv(S) /\ Counted /\ NoLostWakeup
  BY DEF BarrierInv
<1>3. Complete(n) \in BOOLEAN
  BY DEF Complete
<1>4. NetInv(S)' /\ \A j, k \in Nodes : Heard(j, k)' = Heard(j, k)
  BY <1>1, <1>2, <1>3, MainKeeps
<1>5. /\ this_count \in [Nodes -> Nat] /\ next_count \in [Nodes -> Nat]
      /\ \A j \in Nodes : this_count[j] = Cardinality(HeardAfter(j, left[j]))
      /\ \A j \in Nodes : next_count[j] = Cardinality(HeardAfter(j, left[j] + 1))
  BY <1>2 DEF Counted
<1>6. \A j, k \in Nodes : /\ left[k] \in Nat /\ Heard(j, k) \in Nat
                         /\ left[k] <= Heard(j, k) /\ Heard(j, k) <= left[k] + 2
                         /\ Heard(j, k) <= entered[j] /\ entered[j] \in Nat
  BY <1>2, OneRoundApart
<1>7. HeardAfter(n, left[n]) = Nodes
  BY <1>1, <1>5, SomeNodes DEF HeardAfter
<1>8. \A m \in Nodes : left[n] < Heard(m, n) /\ left[n] < entered[m]
  BY <1>6, <1>7 DEF HeardAfter
<1>9. /\ left \in [Nodes -> 0 .. MaxBarriers] /\ pc \in [Nodes -> Places]
  BY <1>2 DEF NetInv, NetTyped
<1>10. /\ left'[n] = left[n] + 1 /\ \A j \in Nodes : j # n => left'[j] = left[j]
       /\ this_count'[n] = next_count[n] /\ next_count'[n] = 0
       /\ \A j \in Nodes : j # n => this_count'[j] = this_count[j] /\ next_count'[j] = next_count[j]
       /\ this_count' \in [Nodes -> Nat] /\ next_count' \in [Nodes -> Nat]
       /\ pc'[n] = "running" /\ \A j \in Nodes : j # n => pc'[j] = pc[j]
  BY <1>1, <1>5, <1>9
<1>11. \A j \in Nodes : \A k : HeardAfter(j, k)' = HeardAfter(j, k)
  BY <1>4 DEF HeardAfter
<1>12. Cardinality(HeardAfter(n, left[n] + 2)) = 0
  <2>1. HeardAfter(n, left[n] + 2) = {}
    BY <1>6 DEF HeardAfter
  <2>2. QED
    BY <2>1, FS_EmptySet
<1>13. Counted'
  <2>1. \A j \in Nodes : this_count'[j] = Cardinality(HeardAfter(j, left[j]))'
    <3> SUFFICES ASSUME NEW j \in Nodes
                 PROVE  this_count'[j] = Cardinality(HeardAfter(j, left[j]))'
      OBVIOUS
    <3>1. Cardinality(HeardAfter(j, left[j]))' = Cardinality(HeardAfter(j, left'[j]))
      BY <1>11
    <3>2. QED
      BY <1>5, <1>10, <3>1
  <2>2. \A j \in Nodes : next_count'[j] = Cardinality(HeardAfter(j, left[j] + 1))'
    <3> SUFFICES ASSUME NEW j \in Nodes
                 PROVE  next_count'[j] = Cardinality(HeardAfter(j, left[j] + 1))'
      OBVIOUS
    <3>1. Cardinality(HeardAfter(j, left[j] + 1))' = Cardinality(HeardAfter(j, left'[j] + 1))
      BY <1>11
    <3>2. left'[n] + 1 = left[n] + 2
      BY <1>6, <1>10
    <3>3. QED
      BY <1>5, <1>10, <1>12, <3>1, <3>2
  <2>3. \A j, k \in Nodes : left'[k] <= Heard(j, k)'
    BY <1>4, <1>6, <1>8, <1>10
  <2>4. QED
    BY <1>10, <2>1, <2>2, <2>3 DEF Counted
<1>14. NoLostWakeup'
  <2> SUFFICES ASSUME NEW j \in Nodes, pc'[j] = "waiting"
               PROVE  this_count'[j] # NumNodes
    BY DEF NoLostWakeup, Complete
  <2>1. j # n
    BY <1>10
  <2>2. QED
    BY <1>2, <1>10, <2>1 DEF NoLostWakeup, Complete
<1>15. QED
  BY <1>4, <1>8, <1>13, <1>14 DEF BarrierInv

\* The other steps count nothing, and only Block goes to sleep.
LEMMA QuietKeeps ==
    ASSUME NEW S, BarrierInv(S), NetInv(S)', UNCHANGED <<counts, left>>,
           \A m, n \in Nodes : Heard(m, n)' = Heard(m, n),
           \A n \in Nodes : pc'[n] = "waiting" => pc[n] = "waiting" \/ ~Complete(n)
    PROVE  BarrierInv(S)'
<1>1. Counted'
  BY CountedKept DEF BarrierInv
<1>2. NoLostWakeup'
  BY DEF BarrierInv, NoLostWakeup, Complete, counts
<1>3. QED
  BY <1>1, <1>2 DEF BarrierInv

-----------------------------------------------------------------------------
LEMMA InitKeeps ==
    ASSUME NEW S, Init
    PROVE  BarrierInv(S)
<1>1. NetInv(S) /\ \A m, n \in Nodes : Heard(m, n) = 0
  BY NetInitKeeps DEF Init
<1>2. Counted
  <2>1. \A n \in Nodes : \A k \in Nat : HeardAfter(n, k) = {}
    BY <1>1 DEF HeardAfter
  <2>2. \A n \in Nodes : \A k \in Nat : Cardinality(HeardAfter(n, k)) = 0
    BY <2>1, FS_EmptySet
  <2>3. QED
    BY <1>1, <2>2 DEF Counted, Init, NetInit
<1>3. NoLostWakeup
  BY DEF NoLostWakeup, Init, NetInit
<1>4. QED
  BY <1>1, <1>2, <1>3 DEF BarrierInv

LEMMA InitIInv == Init => IInv
BY InitKeeps DEF IInv, Init

LEMMA NextIInv == IInv /\ [Next]_vars => IInv'
<1> SUFFICES ASSUME IInv, [Next]_vars PROVE IInv'
  OBVIOUS
<1>0. /\ BarrierInv(Message) /\ NetInv(Message) /\ aborted = FALSE
      /\ Dated(Message) /\ Signals \subseteq Message
      /\ pc \in [Nodes -> Places]
  BY MessageDated DEF IInv, BarrierInv, NetInv, NetTyped
<1>1. ASSUME NEW n \in Nodes, EnterBarrier(n), UNCHANGED <<counts, aborted>> PROVE IInv'
  <2>1. NetInv(Message)' /\ \A j, k \in Nodes : Heard(j, k)' = Heard(j, k)
    BY <1>0, <1>1, EnterKeeps
  <2>2. left' = left /\ \A j \in Nodes : pc'[j] = "waiting" => pc[j] = "waiting"
    BY <1>0, <1>1 DEF EnterBarrier
  <2>3. QED
    BY <1>0, <1>1, <2>1, <2>2, QuietKeeps DEF IInv
<1>2. ASSUME NEW n \in Nodes, Block(n, Complete(n)), UNCHANGED <<counts, aborted>> PROVE IInv'
  <2>1. NetInv(Message)' /\ \A j, k \in Nodes : Heard(j, k)' = Heard(j, k)
    <3>1. Complete(n) \in BOOLEAN
      BY DEF Complete
    <3>2. QED
      BY <1>0, <1>2, <3>1, MainKeeps
  <2>2. /\ left' = left
        /\ \A j \in Nodes : pc'[j] = "waiting" => pc[j] = "waiting" \/ ~Complete(j)
    BY <1>0, <1>2 DEF Block
  <2>3. QED
    BY <1>0, <1>2, <2>1, <2>2, QuietKeeps DEF IInv
<1>3. ASSUME NEW n \in Nodes, Return(n) PROVE IInv'
  <2>1. aborted' = FALSE
    BY <1>0, <1>3 DEF Return
  <2>2. QED
    BY <1>0, <1>3, <2>1, ReturnKeeps DEF IInv
<1>4. ASSUME NEW n \in Nodes, SendExit(n), UNCHANGED <<counts, aborted>> PROVE IInv'
  <2>1. NetInv(Message)' /\ \A j, k \in Nodes : Heard(j, k)' = Heard(j, k)
    BY <1>0, <1>4, ExitKeeps
  <2>2. left' = left /\ \A j \in Nodes : pc'[j] = "waiting" => pc[j] = "waiting"
    BY <1>0, <1>4 DEF SendExit
  <2>3. QED
    BY <1>0, <1>4, <2>1, <2>2, QuietKeeps DEF IInv
<1>5. ASSUME NEW n \in Nodes, SpuriousWakeup(n), UNCHANGED <<counts, aborted>> PROVE IInv'
  <2>1. NetInv(Message)' /\ \A j, k \in Nodes : Heard(j, k)' = Heard(j, k)
    BY <1>0, <1>5, MainKeeps
  <2>2. left' = left /\ \A j \in Nodes : pc'[j] = "waiting" => pc[j] = "waiting"
    BY <1>0, <1>5 DEF SpuriousWakeup
  <2>3. QED
    BY <1>0, <1>5, <2>1, <2>2, QuietKeeps DEF IInv
<1>6. ASSUME NEW m \in Nodes, NEW n \in Nodes, SendData(m, n), UNCHANGED <<counts, aborted>>
      PROVE  IInv'
  <2> DEFINE x == [flag |-> "kData", version |-> entered[m]]
  <2>1. x \in Message /\ x.flag = "kData" /\ x.version = entered[m]
    BY <1>0 DEF NetInv, NetTyped, Message
  <2>2. /\ wire' = [wire EXCEPT ![m][n] = Append(@, x)]
        /\ pc[m] \notin {"joining", "stopped"} /\ UNCHANGED <<pc, entered, left>>
    BY <1>6 DEF SendData
  <2>3. unsent' \in 0 .. MaxData
    BY <1>0, <1>6, MailboxAssumption DEF SendData, NetInv, NetTyped
  <2> HIDE DEF x
  <2>4. NetInv(Message)' /\ \A j, k \in Nodes : Heard(j, k)' = Heard(j, k)
    BY <1>0, <2>1, <2>2, <2>3, SendKeeps
  <2>5. QED
    BY <1>0, <1>6, <2>2, <2>4, QuietKeeps DEF IInv
<1>7. ASSUME NEW m \in Nodes, NEW n \in Nodes, ReceiveData(m, n), UNCHANGED <<counts, aborted>>
      PROVE  IInv'
  <2>1. Received(m, n, "kData") /\ UNCHANGED <<pc, entered, left, unsent>>
    BY <1>7 DEF ReceiveData
  <2>2. NetInv(Message)' /\ \A j, k \in Nodes : Heard(j, k)' = Heard(j, k)
    BY <1>0, <2>1, ReceiveDataKeeps
  <2>3. QED
    BY <1>0, <1>7, <2>1, <2>2, QuietKeeps DEF IInv
<1>8. ASSUME NEW m \in Nodes, NEW n \in Nodes, ReceiveBarrier(m, n) PROVE IInv'
  BY <1>0, <1>8, ReceiveBarrierKeeps DEF IInv
<1>9. ASSUME NEW m \in Nodes, NEW n \in Nodes, ReceiveExit(m, n), UNCHANGED <<counts, aborted>>
      PROVE  IInv'
  <2>1. NetInv(Message)' /\ \A j, k \in Nodes : Heard(j, k)' = Heard(j, k)
    BY <1>0, <1>9, ReceiveExitKeeps
  <2>2. left' = left /\ \A j \in Nodes : pc'[j] = "waiting" => pc[j] = "waiting"
    BY <1>0, <1>9 DEF ReceiveExit
  <2>3. QED
    BY <1>0, <1>9, <2>1, <2>2, QuietKeeps DEF IInv
<1>10. ASSUME UNCHANGED vars PROVE IInv'
  <2>1. UNCHANGED <<wire, pc, entered, left, unsent, this_count, next_count, aborted>>
    BY <1>10 DEF vars, netVars, counts
  <2>2. NetInv(Message)' /\ \A j, k \in Nodes : Heard(j, k)' = Heard(j, k)
    BY <1>0, <2>1, NetStutterKeeps DEF netVars
  <2>3. QED
    BY <1>0, <2>1, <2>2, QuietKeeps DEF IInv, counts
<1>11. QED
  BY <1>1, <1>2, <1>3, <1>4, <1>5, <1>6, <1>7, <1>8, <1>9, <1>10 DEF Next, Main, Receiver, Done

LEMMA IInvAlways == Spec => []IInv
BY InitIInv, NextIInv, PTL DEF Spec

-----------------------------------------------------------------------------
(* The theorems                                                            *)

LEMMA IInvTypeOK == IInv => TypeOK
<1> SUFFICES ASSUME IInv PROVE TypeOK
  OBVIOUS
<1>1. NetTyped(Message) /\ Counted /\ aborted = FALSE
  BY DEF IInv, BarrierInv, NetInv
<1>2. \A n \in Nodes : this_count[n] \in 0 .. NumNodes /\ next_count[n] \in 0 .. NumNodes
  BY <1>1, SomeNodes DEF Counted, HeardAfter
<1>3. QED
  BY <1>1, <1>2 DEF TypeOK, NetTyped, NetTypeOK, Counted

\* The variables keep their types, whatever the nodes, the calls of Barrier and
\* the data: this_count_ and next_count_ never exceed the number of nodes.
THEOREM VersionBarrierTypeOK == Spec => []TypeOK
BY IInvAlways, IInvTypeOK, PTL

\* Mailbox::Receiving of comm2/: no CHECK fails, as a barrier message is of the
\* receiver's round or of the next one, and the next round is never complete
\* before this one.
THEOREM VersionBarrierNoCheckFails == Spec => []NoCheckFails
<1>1. IInv => NoCheckFails
  BY DEF IInv, NoCheckFails
<1>2. QED
  BY <1>1, IInvAlways, PTL

\* Mailbox::Barrier of comm2/: nobody stays asleep when its round is complete.
THEOREM VersionBarrierNoLostWakeup == Spec => []NoLostWakeup
<1>1. IInv => NoLostWakeup
  BY DEF IInv, BarrierInv
<1>2. QED
  BY <1>1, IInvAlways, PTL

\* When Barrier of comm2/ has returned k times, nothing sent to the node before
\* the sender's k-th call is still on its way.
THEOREM VersionBarrierFlushes == Spec => []BarrierFlushes
<1>1. IInv => BarrierFlushes
  <2> SUFFICES ASSUME IInv, NEW m \in Nodes, NEW n \in Nodes,
                      NEW i \in 1 .. Len(wire[m][n]), wire[m][n][i].flag = "kData"
               PROVE  wire[m][n][i].version >= left[n]
    BY DEF BarrierFlushes
  <2>1. Dated(Message) /\ NetInv(Message) /\ Counted
    BY MessageDated DEF IInv, BarrierInv
  <2>2. /\ left[n] \in Nat /\ Heard(m, n) \in Nat /\ left[n] <= Heard(m, n)
        /\ Heard(m, n) <= RoundBefore(wire[m][n][i], entered[m])
    BY <2>1, NetInvParts, OneRoundApart
  <2>3. RoundBefore(wire[m][n][i], entered[m]) = wire[m][n][i].version
    BY DEF RoundBefore
  <2>4. wire[m][n][i].version \in Nat
    <3>1. wire[m][n] \in Seq(Message)
      BY <2>1, NetInvParts
    <3>2. wire[m][n][i] \in Message
      BY <3>1, ElementOfSeq
    <3>3. QED
      BY <3>2, MailboxAssumption DEF Message
  <2>5. QED
    BY <2>2, <2>3, <2>4
<1>2. QED
  BY <1>1, IInvAlways, PTL

\* Mailbox::StopReceiving of comm2/: when a receiver thread has exited, all that
\* was sent to it before the senders' last Barrier has been received.
THEOREM VersionBarrierStopLosesNothing == Spec => []StopLosesNothing
<1>1. IInv => StopLosesNothing
  <2> SUFFICES ASSUME IInv PROVE StopLosesNothing
    OBVIOUS
  <2>1. Dated(Message) /\ NetInv(Message) /\ Counted
    BY MessageDated DEF IInv, BarrierInv
  <2>2. \A m, n \in Nodes : pc[n] = "stopped" => Heard(m, n) >= MaxBarriers
    BY <2>1 DEF NetInv, OneAtATime, Counted
  <2>3. QED
    BY <2>1, <2>2, AllHeardAtStop
<1>2. QED
  BY <1>1, IInvAlways, PTL

\* Mailbox::Barrier of comm2/ is a barrier: every step is a call or a return of
\* Rendezvous, or none, so the k-th call returns after every node's k-th call.
THEOREM VersionBarrierIsBarrier == Spec => IsBarrier
<1>1. Init => Round!Init
  BY DEF Init, NetInit, Round!Init
<1>2. IInv /\ [Next]_vars => [Round!Next]_(Round!vars)
  <2> SUFFICES ASSUME IInv, [Next]_vars PROVE [Round!Next]_(Round!vars)
    OBVIOUS
  <2>0. BarrierInv(Message) /\ Dated(Message) /\ NetInv(Message)
    BY MessageDated DEF IInv, BarrierInv
  <2>1. ASSUME NEW n \in Nodes, EnterBarrier(n) PROVE Round!Next
    <3>1. Round!Enter(n)
      BY <2>0, <2>1 DEF EnterBarrier, NetInv, OneAtATime, Round!Enter
    <3>2. QED
      BY <3>1 DEF Round!Next
  <2>2. ASSUME NEW n \in Nodes, Return(n) PROVE Round!Next
    <3>1. \A m \in Nodes : left[n] < entered[m]
      BY <2>0, <2>2, ReturnKeeps
    <3>2. Round!Leave(n)
      BY <2>2, <3>1 DEF Return, LeaveBarrier, Round!Leave
    <3>3. QED
      BY <3>2 DEF Round!Next
  <2>3. ASSUME UNCHANGED <<entered, left>> PROVE UNCHANGED Round!vars
    BY <2>3 DEF Round!vars
  <2>4. QED
    BY <2>1, <2>2, <2>3 DEF Next, Main, Receiver, Done, Block, SendExit, SpuriousWakeup, SendData,
                            ReceiveData, ReceiveBarrier, ReceiveExit, vars, netVars
<1>3. QED
  BY <1>1, <1>2, IInvAlways, PTL DEF Spec, IsBarrier, Round!Spec

-----------------------------------------------------------------------------
(* SyncAndGet                                                              *)

\* What PushTo sends, and all that is on the wire.
Pushes == [to : Threads, step : 0 .. MaxSteps - 1, id : 1 .. MaxData]
ChannelMessage == Signals \cup [flag : {"kData"}, version : 0 .. MaxBarriers, push : Pushes]

done(t) == 2 * step[t] + wait[t] - 1
InWait(t) == place[t] \in {"asleep", "woken"}

ChannelTyped ==
    /\ main \in [Nodes -> {"outside", "constructing", "inside", "stopping", "destroyed"}]
    /\ place \in [Threads -> {"idle", "running", "arriving", "asleep", "woken", "barrier",
                              "popping", "joined"}]
    /\ wait \in [Threads -> {1, 2}]
    /\ step \in [Threads -> Nat]
    /\ m_count \in [Nodes -> Int]
    /\ m_generation \in [Nodes -> Nat]
    /\ gen \in [Threads -> Nat]
    /\ lock \in [Nodes -> Threads \cup {NoThread}]
    /\ queue \in [Threads -> Seq(Pushes)]
    /\ rets \in [Threads -> SUBSET Pushes]
    /\ pushed \in SUBSET Pushes

\* The main thread and the calls of Barrier.
MainOK(n) ==
    /\ main[n] = "outside" => entered[n] = 0 /\ pc[n] = "running"
    /\ main[n] = "constructing" => entered[n] = 1 /\ pc[n] \in {"checking", "waiting"}
    /\ main[n] \in {"outside", "constructing"} => m_generation[n] = 0
    /\ main[n] = "inside" =>
          /\ entered[n] = m_generation[n] + 1
          /\ pc[n] \in IF lock[n] = NoThread THEN {"running"} ELSE {"checking", "waiting"}
    /\ main[n] # "inside" => lock[n] = NoThread
    /\ main[n] = "destroyed" => pc[n] = "stopped"
MainInv == \A n \in Nodes : MainOK(n)

\* A thread is in the Wait that its node is in, or still in the one before.
ThreadOK(t, n) ==
    /\ main[n] \in {"outside", "constructing"} <=> place[t] = "idle"
    /\ main[n] \in {"stopping", "destroyed"} => place[t] = "joined"
    /\ place[t] = "idle" => done(t) = 0
    /\ place[t] \in {"running", "arriving", "popping", "joined"} => done(t) = m_generation[n]
    /\ InWait(t) => gen[t] = done(t) /\ m_generation[n] \in {done(t), done(t) + 1}
    /\ place[t] = "barrier" => lock[n] = t /\ m_generation[n] = done(t) + 1
    /\ place[t] \in {"running", "joined"} => wait[t] = 1
    /\ place[t] = "popping" => wait[t] = 2
    /\ place[t] # "idle" => done(t) + 1 <= left[n]
ThreadInv == \A t \in Threads : ThreadOK(t, NodeOf[t])

\* Whoever holds the lock has seen all the others arrive.
LockInv ==
    \A n \in Nodes : lock[n] # NoThread =>
        /\ place[lock[n]] = "barrier" /\ NodeOf[lock[n]] = n
        /\ \A t \in LocalThreads(n) \ {lock[n]} : InWait(t) /\ m_generation[n] = done(t) + 1

Waiting(n) == {t \in LocalThreads(n) : InWait(t) /\ gen[t] = m_generation[n]}
CountInv == \A n \in Nodes : m_count[n] = NumLocalThreads(n) - Cardinality(Waiting(n))

DataIn(q) == {x \in {q[i] : i \in 1 .. Len(q)} : x.flag = "kData"}

\* Every push, and every push under way, is of a superstep that all nodes have
\* come to; what is under way says so by its version.
PushInv ==
    /\ \A p \in pushed : \A n \in Nodes : 2 * p.step + 1 <= entered[n]
    /\ \A m, n \in Nodes : \A x \in DataIn(wire[m][n]) :
          x.push \in pushed /\ NodeOf[x.push.to] = n /\ x.version = 2 * x.push.step + 1

OnWire(t) == {p \in pushed : p.to = t /\ \E m \in Nodes : \E x \in DataIn(wire[m][NodeOf[t]]) :
                 x.push = p}
Queued(t) == {queue[t][i] : i \in 1 .. Len(queue[t])}

\* The first superstep whose pushes t has not popped, nor begun to.
NextToPop(t) == IF wait[t] = 2 THEN step[t] + 1 ELSE step[t]
PushedFrom(t, k) == {p \in pushed : p.to = t /\ p.step >= k}
PushedIn(t, k) == {p \in pushed : p.to = t /\ p.step = k}

DataOK(t) ==
    IF place[t] = "popping"
    THEN OnWire(t) \cup Queued(t) \cup rets[t] = PushedFrom(t, step[t])
    ELSE /\ OnWire(t) \cup Queued(t) = PushedFrom(t, NextToPop(t))
         /\ rets[t] = IF wait[t] = 2 \/ place[t] \in {"running", "joined"}
                      THEN PushedIn(t, NextToPop(t) - 1) ELSE {}
DataInv == \A t \in Threads : DataOK(t)

ThreadsInv == ChannelTyped /\ MainInv /\ ThreadInv /\ LockInv /\ CountInv

ChannelInv ==
    /\ BarrierInv(ChannelMessage) /\ aborted = FALSE
    /\ ThreadsInv /\ PushInv /\ DataInv

-----------------------------------------------------------------------------
(* The data on a channel                                                   *)

LEMMA DataInAppend ==
    ASSUME NEW S, NEW q \in Seq(S), NEW x \in S
    PROVE  DataIn(Append(q, x)) = IF x.flag = "kData" THEN DataIn(q) \cup {x} ELSE DataIn(q)
<1> DEFINE r == Append(q, x)
<1>1. /\ Len(r) = Len(q) + 1 /\ Len(q) \in Nat
      /\ \A i \in 1 .. Len(q) : r[i] = q[i]
      /\ r[Len(q) + 1] = x
  BY PushOne
<1> HIDE DEF r
<1>2. {r[i] : i \in 1 .. Len(r)} = {q[i] : i \in 1 .. Len(q)} \cup {x}
  BY <1>1
<1>3. DataIn(r) = IF x.flag = "kData" THEN DataIn(q) \cup {x} ELSE DataIn(q)
  BY <1>2 DEF DataIn
<1>4. QED
  BY <1>3 DEF r

LEMMA DataInTail ==
    ASSUME NEW S, NEW q \in Seq(S), q # <<>>
    PROVE  DataIn(q) = IF Head(q).flag = "kData" THEN DataIn(Tail(q)) \cup {Head(q)}
                       ELSE DataIn(Tail(q))
<1> DEFINE r == Tail(q)
<1>1. /\ Head(q) = q[1] /\ Len(q) \in Nat \ {0} /\ Len(r) = Len(q) - 1
      /\ \A i \in 1 .. Len(q) - 1 : r[i] = q[i + 1]
  BY PopOne
<1> HIDE DEF r
<1>2. {q[i] : i \in 1 .. Len(q)} = {r[i] : i \in 1 .. Len(r)} \cup {q[1]}
  <2>1. ASSUME NEW i \in 1 .. Len(q) PROVE q[i] = q[1] \/ \E j \in 1 .. Len(r) : q[i] = r[j]
    <3>1. CASE i = 1
      BY <3>1
    <3>2. CASE i # 1
      <4>1. i - 1 \in 1 .. Len(r) /\ q[i] = r[i - 1]
        BY <1>1, <2>1, <3>2
      <4>2. QED
        BY <4>1
    <3>3. QED
      BY <3>1, <3>2
  <2>2. ASSUME NEW j \in 1 .. Len(r) PROVE j + 1 \in 1 .. Len(q) /\ r[j] = q[j + 1]
    BY <1>1, <2>2
  <2>3. 1 \in 1 .. Len(q)
    BY <1>1
  <2>4. {q[i] : i \in 1 .. Len(q)} \subseteq {r[i] : i \in 1 .. Len(r)} \cup {q[1]}
    BY <2>1
  <2>5. {r[i] : i \in 1 .. Len(r)} \cup {q[1]} \subseteq {q[i] : i \in 1 .. Len(q)}
    BY <2>2, <2>3
  <2>6. QED
    BY <2>4, <2>5
<1>3. DataIn(q) = IF q[1].flag = "kData" THEN DataIn(r) \cup {q[1]} ELSE DataIn(r)
  BY <1>2 DEF DataIn
<1>4. QED
  BY <1>1, <1>3 DEF r

LEMMA ChannelMessageDated ==
    /\ Dated(ChannelMessage) /\ Signals \subseteq ChannelMessage
    /\ \A x \in ChannelMessage : x.flag = "kData" => x.push \in Pushes
<1>1. \A x \in Signals : x.flag \in {"kData", "kBarrier", "kExit"} \ {"kData"} /\ x.version \in 0 .. MaxBarriers
  BY DEF Signals, Message
<1>2. QED
  BY <1>1 DEF Dated, ChannelMessage

\* Calls of Barrier and the exit put no data on the wire, and take none off.
LEMMA SignalsAreNoData ==
    ASSUME BarrierInv(ChannelMessage), NEW n \in Nodes,
           EnterBarrier(n) \/ SendExit(n)
    PROVE  \A j, k \in Nodes : DataIn(wire[j][k])' = DataIn(wire[j][k])
<1> DEFINE x == [flag |-> "kBarrier", version |-> left[n]]
           y == [flag |-> "kExit", version |-> 0]
<1>1. /\ wire \in [Nodes -> [Nodes -> Seq(ChannelMessage)]] /\ left \in [Nodes -> 0 .. MaxBarriers]
      /\ \A j, k \in Nodes : wire[j][k] \in Seq(ChannelMessage)
  BY DEF BarrierInv, NetInv, NetTyped
<1>2. x \in ChannelMessage /\ y \in ChannelMessage
  <2>1. x \in Message /\ y \in Message
    BY <1>1, MailboxAssumption DEF Message
  <2>2. QED
    BY <2>1 DEF ChannelMessage, Signals
<1>3. \A j, k \in Nodes : wire'[j][k] \in {wire[j][k], Append(wire[j][k], x), Append(wire[j][k], y)}
  <2> TAKE j, k \in Nodes
  <2>1. CASE EnterBarrier(n)
    <3>1. wire' = [wire EXCEPT ![n] = [h \in Nodes |-> Append(@[h], x)]]
      BY <2>1 DEF EnterBarrier
    <3>2. wire'[j][k] = IF j = n THEN Append(wire[j][k], x) ELSE wire[j][k]
      BY <1>1, <3>1
    <3>3. QED
      BY <3>2
  <2>2. CASE SendExit(n)
    <3>1. wire' = [wire EXCEPT ![n][n] = Append(@, y)]
      BY <2>2 DEF SendExit
    <3>2. wire'[j][k] = IF j = n /\ k = n THEN Append(wire[j][k], y) ELSE wire[j][k]
      BY <1>1, <3>1
    <3>3. QED
      BY <3>2
  <2>3. QED
    BY <2>1, <2>2
<1>4. \A j, k \in Nodes : /\ DataIn(Append(wire[j][k], x)) = DataIn(wire[j][k])
                         /\ DataIn(Append(wire[j][k], y)) = DataIn(wire[j][k])
  BY <1>1, <1>2, DataInAppend
<1>5. QED
  BY <1>3, <1>4

LEMMA SignalsWereNoData ==
    ASSUME BarrierInv(ChannelMessage), NEW m \in Nodes, NEW n \in Nodes,
           Received(m, n, "kBarrier") \/ Received(m, n, "kExit")
    PROVE  \A j, k \in Nodes : DataIn(wire[j][k])' = DataIn(wire[j][k])
<1>1. /\ wire \in [Nodes -> [Nodes -> Seq(ChannelMessage)]]
      /\ \A j, k \in Nodes : wire[j][k] \in Seq(ChannelMessage)
  BY DEF BarrierInv, NetInv, NetTyped
<1>2. /\ wire[m][n] # <<>> /\ Head(wire[m][n]).flag # "kData"
      /\ wire'[m][n] = Tail(wire[m][n])
      /\ \A j, k \in Nodes : <<j, k>> # <<m, n>> => wire'[j][k] = wire[j][k]
  BY <1>1 DEF Received
<1>3. DataIn(Tail(wire[m][n])) = DataIn(wire[m][n])
  BY <1>1, <1>2, DataInTail
<1>4. QED
  BY <1>2, <1>3

-----------------------------------------------------------------------------
(* What the invariant says of one thread or node                           *)

LEMMA Facts ==
    ASSUME ChannelInv
    PROVE  /\ NetInv(ChannelMessage) /\ Counted
           /\ \A m, n \in Nodes : /\ left[n] \in Nat /\ entered[n] \in Nat
                                  /\ left[m] <= entered[n]
           /\ \A n \in Nodes : /\ m_generation[n] \in Nat
                               /\ pc[n] \in {"checking", "waiting"} => entered[n] = left[n] + 1
                               /\ pc[n] \notin {"checking", "waiting"} => entered[n] = left[n]
                               /\ lock[n] \in Threads \cup {NoThread}
           /\ \A t \in Threads : /\ NodeOf[t] \in Nodes
                                 /\ step[t] \in Nat /\ wait[t] \in {1, 2} /\ done(t) \in Nat
<1>1. NetInv(ChannelMessage) /\ Counted /\ Dated(ChannelMessage) /\ ChannelTyped
  BY ChannelMessageDated DEF ChannelInv, BarrierInv, ThreadsInv
<1>2. \A m, n \in Nodes : left[n] \in Nat /\ entered[n] \in Nat /\ left[m] <= entered[n]
  BY <1>1, OneRoundApart
<1>3. \A t \in Threads : /\ NodeOf[t] \in Nodes
                         /\ step[t] \in Nat /\ wait[t] \in {1, 2} /\ done(t) \in Nat
  BY <1>1, ChannelAssumption DEF ChannelTyped, done
<1>4. \A n \in Nodes : m_generation[n] \in Nat /\ lock[n] \in Threads \cup {NoThread}
  BY <1>1 DEF ChannelTyped
<1>5. QED
  BY <1>1, <1>2, <1>3, <1>4 DEF NetInv, OneAtATime

\* The node of a thread that is not in Barrier has no call of it pending.
LEMMA ActiveThread ==
    ASSUME ChannelInv, NEW t \in Threads,
           \/ place[t] \in {"running", "arriving", "popping"}
           \/ InWait(t) /\ lock[NodeOf[t]] = NoThread
    PROVE  LET n == NodeOf[t] IN
           /\ main[n] = "inside" /\ lock[n] = NoThread /\ pc[n] = "running"
           /\ entered[n] = m_generation[n] + 1 /\ left[n] = m_generation[n] + 1
<1> DEFINE n == NodeOf[t]
<1>1. /\ n \in Nodes /\ ThreadOK(t, n) /\ MainOK(n) /\ t \in LocalThreads(n)
      /\ main[n] \in {"outside", "constructing", "inside", "stopping", "destroyed"}
  BY Facts DEF ChannelInv, ThreadsInv, ThreadInv, MainInv, LocalThreads, ChannelTyped
<1>2. main[n] = "inside"
  BY <1>1 DEF ThreadOK, InWait
<1>3. lock[n] = NoThread
  <2>1. lock[n] # NoThread => (t = lock[n] /\ place[t] = "barrier") \/ InWait(t)
    BY <1>1 DEF ChannelInv, ThreadsInv, LockInv
  <2>2. QED
    BY <2>1 DEF InWait
<1>4. pc[n] = "running" /\ entered[n] = m_generation[n] + 1
  BY <1>1, <1>2, <1>3 DEF MainOK
<1>5. left[n] = entered[n]
  BY <1>1, <1>4, Facts
<1>6. QED
  BY <1>2, <1>3, <1>4, <1>5

\* A thread that may push or pop is in the superstep of its node's generation.
LEMMA StepOfThread ==
    ASSUME ChannelInv, NEW t \in Threads
    PROVE  /\ place[t] = "running" => /\ wait[t] = 1 /\ 2 * step[t] = m_generation[NodeOf[t]]
           /\ place[t] = "popping" => /\ wait[t] = 2 /\ 2 * step[t] + 1 = m_generation[NodeOf[t]]
           /\ place[t] # "idle" => done(t) + 1 <= left[NodeOf[t]]
           /\ place[t] = "idle" => done(t) = 0
<1>1. ThreadOK(t, NodeOf[t]) /\ step[t] \in Nat
  BY Facts DEF ChannelInv, ThreadsInv, ThreadInv
<1>2. QED
  BY <1>1 DEF ThreadOK, done

-----------------------------------------------------------------------------
(* What most steps leave alone                                             *)

\* Steps of mailboxes and main threads that no thread and no Wait takes part in.
LEMMA ThreadsAlike ==
    ASSUME ChannelInv, UNCHANGED <<main, place, wait, step, waitVars>>, ChannelTyped', MainInv',
           \A n \in Nodes : left'[n] \in Nat /\ left[n] <= left'[n]
    PROVE  ThreadsInv'
<1>1. /\ UNCHANGED <<main, place, wait, step, m_count, m_generation, gen, lock>>
      /\ ThreadInv /\ LockInv /\ CountInv
  BY DEF ChannelInv, ThreadsInv, waitVars
<1>2. ThreadInv'
  <2> SUFFICES ASSUME NEW t \in Threads PROVE ThreadOK(t, NodeOf[t])'
    BY DEF ThreadInv
  <2>1. /\ ThreadOK(t, NodeOf[t]) /\ NodeOf[t] \in Nodes /\ done(t) \in Nat
        /\ left[NodeOf[t]] \in Nat
    BY <1>1, Facts DEF ThreadInv
  <2>2. done(t)' = done(t) /\ InWait(t)' = InWait(t)
    BY <1>1 DEF done, InWait
  <2>3. QED
    BY <1>1, <2>1, <2>2 DEF ThreadOK
<1>3. LockInv'
  BY <1>1 DEF LockInv, InWait, done
<1>4. CountInv'
  BY <1>1 DEF CountInv, Waiting, InWait
<1>5. QED
  BY <1>2, <1>3, <1>4 DEF ThreadsInv

LEMMA ThreadsKept ==
    ASSUME ChannelInv, UNCHANGED <<threadVars, waitVars, pushed, main>>, MainInv',
           \A n \in Nodes : left'[n] \in Nat /\ left[n] <= left'[n]
    PROVE  ThreadsInv'
<1>1. /\ UNCHANGED <<main, place, wait, step, queue, rets, m_count, m_generation, gen, lock, pushed>>
      /\ UNCHANGED waitVars /\ ChannelTyped
  BY DEF ChannelInv, ThreadsInv, threadVars, waitVars
<1>2. ChannelTyped'
  BY <1>1 DEF ChannelTyped
<1>3. QED
  BY <1>1, <1>2, ThreadsAlike

\* Steps that leave the data where they are; the threads of T may begin or end
\* to pop.
LEMMA DataKept ==
    ASSUME ChannelInv, NEW T \in SUBSET Threads, pushed' = pushed,
           \A n \in Nodes : entered'[n] \in Nat /\ entered[n] <= entered'[n],
           \A j, k \in Nodes : DataIn(wire[j][k])' = DataIn(wire[j][k]),
           \A t \in Threads \ T :
              /\ wait'[t] = wait[t] /\ step'[t] = step[t]
              /\ queue'[t] = queue[t] /\ rets'[t] = rets[t]
              /\ place'[t] = "popping" <=> place[t] = "popping"
              /\ place'[t] \in {"running", "joined"} <=> place[t] \in {"running", "joined"},
           \A t \in T : OnWire(t)' = OnWire(t) => DataOK(t)'
    PROVE  PushInv' /\ DataInv'
<1>1. PushInv /\ DataInv /\ ChannelTyped
  BY DEF ChannelInv, ThreadsInv
<1>2. PushInv'
  <2>1. \A p \in pushed : \A n \in Nodes : 2 * p.step + 1 <= entered'[n]
    <3> TAKE p \in pushed
    <3> TAKE n \in Nodes
    <3>1. 2 * p.step + 1 <= entered[n] /\ entered[n] \in Nat
      BY <1>1, Facts DEF PushInv
    <3>2. p.step \in Nat
      BY <1>1, ChannelAssumption DEF ChannelTyped, Pushes
    <3>3. QED
      BY <3>1, <3>2
  <2>2. QED
    BY <1>1, <2>1 DEF PushInv
<1>3. \A t \in Threads : OnWire(t)' = OnWire(t)
  BY Facts DEF OnWire
<1>4. ASSUME NEW t \in Threads \ T PROVE DataOK(t)'
  <2>1. /\ wait'[t] = wait[t] /\ step'[t] = step[t]
        /\ queue'[t] = queue[t] /\ rets'[t] = rets[t]
        /\ place'[t] = "popping" <=> place[t] = "popping"
        /\ place'[t] \in {"running", "joined"} <=> place[t] \in {"running", "joined"}
    OBVIOUS
  <2>2. Queued(t)' = Queued(t) /\ NextToPop(t)' = NextToPop(t) /\ OnWire(t)' = OnWire(t)
    BY <1>3, <2>1 DEF Queued, NextToPop
  <2>3. DataOK(t)
    BY <1>1 DEF DataInv
  <2>4. \A k : PushedFrom(t, k)' = PushedFrom(t, k) /\ PushedIn(t, k)' = PushedIn(t, k)
    BY DEF PushedFrom, PushedIn
  <2>5. QED
    BY <2>1, <2>2, <2>3, <2>4 DEF DataOK
<1>5. QED
  BY <1>2, <1>3, <1>4 DEF DataInv

-----------------------------------------------------------------------------
(* Mailboxes and main threads                                              *)

\* A receiver thread counts a message, or the main thread blocks or wakes.
LEMMA NetStepKeeps ==
    ASSUME ChannelInv, UNCHANGED <<channelVars, entered, left>>, BarrierInv(ChannelMessage)',
           aborted' = FALSE,
           \A j, k \in Nodes : DataIn(wire[j][k])' = DataIn(wire[j][k]),
           \A n \in Nodes : pc'[n] = pc[n] \/ {pc'[n], pc[n]} \subseteq {"checking", "waiting"}
    PROVE  ChannelInv'
<1>1. /\ UNCHANGED <<main, threadVars, waitVars, pushed, entered, left>>
      /\ UNCHANGED <<place, wait, step, queue, rets, m_generation, lock>>
  BY DEF channelVars, threadVars, waitVars
<1>2. MainInv'
  <2>1. \A n \in Nodes : MainOK(n)
    BY DEF ChannelInv, ThreadsInv, MainInv
  <2>2. \A n \in Nodes : MainOK(n)'
    <3> SUFFICES ASSUME NEW n \in Nodes PROVE MainOK(n)'
      OBVIOUS
    <3>1. MainOK(n)
      BY <2>1
    <3>2. CASE pc'[n] = pc[n]
      BY <1>1, <3>1, <3>2 DEF MainOK
    <3>3. CASE {pc'[n], pc[n]} \subseteq {"checking", "waiting"}
      BY <1>1, <3>1, <3>3 DEF MainOK
    <3>4. QED
      BY <3>2, <3>3
  <2>3. QED
    BY <2>2 DEF MainInv
<1>3. \A n \in Nodes : left'[n] \in Nat /\ left[n] <= left'[n] /\ entered'[n] \in Nat /\ entered[n] <= entered'[n]
  BY <1>1, Facts
<1>4. ThreadsInv'
  BY <1>1, <1>2, <1>3, ThreadsKept
<1>5. PushInv' /\ DataInv'
  <2>1. {} \in SUBSET Threads
    OBVIOUS
  <2>2. QED
    BY <1>1, <1>3, <2>1, DataKept
<1>6. QED
  BY <1>4, <1>5 DEF ChannelInv

LEMMA ChannelReceiveBarrier ==
    ASSUME ChannelInv, NEW m \in Nodes, NEW n \in Nodes,
           ReceiveBarrier(m, n), UNCHANGED channelVars
    PROVE  ChannelInv'
<1>1. BarrierInv(ChannelMessage)' /\ aborted' = FALSE
  BY ReceiveBarrierKeeps, ChannelMessageDated DEF ChannelInv
<1>2. \A j, k \in Nodes : DataIn(wire[j][k])' = DataIn(wire[j][k])
  BY SignalsWereNoData DEF ChannelInv, ReceiveBarrier
<1>3. UNCHANGED <<entered, left>>
  BY DEF ReceiveBarrier
<1>4. \A k \in Nodes : pc'[k] = pc[k] \/ {pc'[k], pc[k]} \subseteq {"checking", "waiting"}
  BY Facts DEF ReceiveBarrier, Notify, NetInv, NetTyped
<1>5. QED
  BY <1>1, <1>2, <1>3, <1>4, NetStepKeeps

LEMMA BlocksOrWakes ==
    ASSUME ChannelInv, NEW n \in Nodes, Blocks(n) \/ WakesForNothing(n)
    PROVE  ChannelInv'
<1>1. /\ Block(n, Complete(n)) \/ SpuriousWakeup(n)
      /\ UNCHANGED <<counts, aborted, channelVars>>
      /\ Complete(n) \in BOOLEAN /\ UNCHANGED <<wire, entered, left>>
  BY DEF Blocks, WakesForNothing, Block, SpuriousWakeup, Complete
<1>2. NetInv(ChannelMessage)' /\ \A j, k \in Nodes : Heard(j, k)' = Heard(j, k)
  BY <1>1, Facts, MainKeeps
<1>3. /\ \A k \in Nodes : pc'[k] = pc[k] \/ {pc'[k], pc[k]} \subseteq {"checking", "waiting"}
      /\ \A k \in Nodes : pc'[k] = "waiting" => pc[k] = "waiting" \/ ~Complete(k)
  BY <1>1, Facts DEF Block, SpuriousWakeup, NetInv, NetTyped
<1>4. BarrierInv(ChannelMessage)' /\ aborted' = FALSE
  BY <1>1, <1>2, <1>3, QuietKeeps DEF ChannelInv
<1>5. QED
  BY <1>1, <1>3, <1>4, NetStepKeeps DEF DataIn

\* The exit is only received when Stop joins the receiver thread.
LEMMA ChannelReceiveExit ==
    ASSUME ChannelInv, NEW m \in Nodes, NEW n \in Nodes,
           ReceiveExit(m, n), UNCHANGED <<counts, aborted, channelVars>>
    PROVE  ChannelInv'
<1>1. /\ UNCHANGED <<main, threadVars, waitVars, pushed, entered, left>>
      /\ UNCHANGED <<place, wait, step, queue, rets, m_generation, lock>>
      /\ pc' = [pc EXCEPT ![n] = "stopped"]
  BY DEF channelVars, threadVars, waitVars, ReceiveExit
<1>2. /\ NetInv(ChannelMessage)' /\ \A j, k \in Nodes : Heard(j, k)' = Heard(j, k)
      /\ pc[n] = "joining"
  BY Facts, ReceiveExitKeeps, ChannelMessageDated
<1>3. /\ pc'[n] = "stopped" /\ \A k \in Nodes : k # n => pc'[k] = pc[k]
  BY <1>1, Facts DEF NetInv, NetTyped
<1>4. BarrierInv(ChannelMessage)' /\ aborted' = FALSE
  <2>1. \A k \in Nodes : pc'[k] = "waiting" => pc[k] = "waiting" \/ ~Complete(k)
    BY <1>3
  <2>2. QED
    BY <1>1, <1>2, <2>1, QuietKeeps DEF ChannelInv
<1>5. MainInv'
  <2> SUFFICES ASSUME NEW k \in Nodes PROVE MainOK(k)'
    BY DEF MainInv
  <2>1. MainOK(k)
    BY DEF ChannelInv, ThreadsInv, MainInv
  <2>2. QED
    BY <1>1, <1>2, <1>3, <2>1 DEF MainOK
<1>6. \A k \in Nodes : left'[k] \in Nat /\ left[k] <= left'[k] /\ entered'[k] \in Nat /\ entered[k] <= entered'[k]
  BY <1>1, Facts
<1>7. ThreadsInv'
  BY <1>1, <1>5, <1>6, ThreadsKept
<1>8. PushInv' /\ DataInv'
  <2>1. {} \in SUBSET Threads /\ \A j, k \in Nodes : DataIn(wire[j][k])' = DataIn(wire[j][k])
    BY SignalsWereNoData DEF ChannelInv, ReceiveExit
  <2>2. QED
    BY <1>1, <1>6, <2>1, DataKept
<1>9. QED
  BY <1>4, <1>7, <1>8 DEF ChannelInv

\* A node calls Barrier or sends itself the exit: what the main thread and the
\* threads make of it is left to MainInv and ThreadsInv.
LEMMA EnterOrExit ==
    ASSUME ChannelInv, NEW n \in Nodes, EnterBarrier(n) \/ SendExit(n), UNCHANGED <<counts, aborted>>
    PROVE  /\ BarrierInv(ChannelMessage)' /\ aborted' = FALSE
           /\ left' = left /\ pc[n] = "running" /\ entered[n] = left[n]
           /\ EnterBarrier(n) => entered'[n] = entered[n] + 1 /\ pc'[n] = "checking"
           /\ SendExit(n) => entered'[n] = entered[n] /\ pc'[n] = "joining"
           /\ \A k \in Nodes : k # n => entered'[k] = entered[k] /\ pc'[k] = pc[k]
           /\ \A k \in Nodes : entered'[k] \in Nat /\ entered[k] <= entered'[k]
           /\ \A j, k \in Nodes : DataIn(wire[j][k])' = DataIn(wire[j][k])
<1>1. /\ pc \in [Nodes -> Places] /\ entered \in [Nodes -> 0 .. MaxBarriers]
      /\ \A k \in Nodes : entered[k] \in Nat
  BY Facts DEF NetInv, NetTyped
<1>2. NetInv(ChannelMessage)' /\ \A j, k \in Nodes : Heard(j, k)' = Heard(j, k)
  BY Facts, EnterKeeps, ExitKeeps, ChannelMessageDated
<1>3. /\ left' = left /\ pc[n] = "running"
      /\ EnterBarrier(n) => entered'[n] = entered[n] + 1 /\ pc'[n] = "checking"
      /\ SendExit(n) => entered'[n] = entered[n] /\ pc'[n] = "joining"
      /\ \A k \in Nodes : k # n => entered'[k] = entered[k] /\ pc'[k] = pc[k]
  BY <1>1 DEF EnterBarrier, SendExit
<1>4. entered[n] = left[n]
  BY <1>3, Facts
<1>5. \A k \in Nodes : entered'[k] \in Nat /\ entered[k] <= entered'[k]
  BY <1>1, <1>3
<1>6. BarrierInv(ChannelMessage)' /\ aborted' = FALSE
  <2>1. \A k \in Nodes : pc'[k] = "waiting" => pc[k] = "waiting" \/ ~Complete(k)
    BY <1>3
  <2>2. QED
    BY <1>2, <1>3, <2>1, QuietKeeps DEF ChannelInv
<1>7. \A j, k \in Nodes : DataIn(wire[j][k])' = DataIn(wire[j][k])
  BY SignalsAreNoData DEF ChannelInv
<1>8. QED
  BY <1>3, <1>4, <1>5, <1>6, <1>7

\* A call of Barrier returns.
LEMMA ReturnFacts ==
    ASSUME ChannelInv, NEW n \in Nodes, Return(n)
    PROVE  /\ BarrierInv(ChannelMessage)' /\ aborted' = FALSE
           /\ UNCHANGED <<wire, entered>>
           /\ pc[n] = "checking" /\ pc'[n] = "running"
           /\ entered[n] = left[n] + 1 /\ left'[n] = left[n] + 1
           /\ \A k \in Nodes : k # n => left'[k] = left[k] /\ pc'[k] = pc[k]
           /\ \A k \in Nodes : /\ left'[k] \in Nat /\ left[k] <= left'[k]
                               /\ entered'[k] \in Nat /\ entered[k] <= entered'[k]
           /\ \A j, k \in Nodes : DataIn(wire[j][k])' = DataIn(wire[j][k])
<1>1. /\ pc \in [Nodes -> Places] /\ left \in [Nodes -> 0 .. MaxBarriers]
      /\ \A k \in Nodes : left[k] \in Nat /\ entered[k] \in Nat
  BY Facts DEF NetInv, NetTyped
<1>2. BarrierInv(ChannelMessage)' /\ aborted' = FALSE
  BY ReturnKeeps, ChannelMessageDated DEF ChannelInv, Return
<1>3. /\ UNCHANGED <<wire, entered>> /\ pc[n] = "checking"
      /\ left' = [left EXCEPT ![n] = @ + 1] /\ pc' = [pc EXCEPT ![n] = "running"]
  BY DEF Return, LeaveBarrier
<1>4. /\ pc'[n] = "running" /\ left'[n] = left[n] + 1
      /\ \A k \in Nodes : k # n => left'[k] = left[k] /\ pc'[k] = pc[k]
  BY <1>1, <1>3
<1>5. entered[n] = left[n] + 1
  BY <1>3, Facts
<1>6. \A k \in Nodes : /\ left'[k] \in Nat /\ left[k] <= left'[k]
                       /\ entered'[k] \in Nat /\ entered[k] <= entered'[k]
  BY <1>1, <1>3, <1>4
<1>7. QED
  BY <1>2, <1>3, <1>4, <1>5, <1>6 DEF DataIn

\* What a node's main thread does leaves the other nodes and their threads be.
LEMMA MainKept ==
    ASSUME ChannelInv, NEW n \in Nodes, MainOK(n)',
           \A k \in Nodes : k # n => /\ pc'[k] = pc[k] /\ entered'[k] = entered[k]
                                     /\ main'[k] = main[k] /\ lock'[k] = lock[k]
                                     /\ m_generation'[k] = m_generation[k]
    PROVE  MainInv'
<1> SUFFICES ASSUME NEW k \in Nodes, k # n PROVE MainOK(k)'
  BY DEF MainInv
<1>1. MainOK(k)
  BY DEF ChannelInv, ThreadsInv, MainInv
<1>2. QED
  BY <1>1 DEF MainOK

LEMMA StopReturnsKeeps ==
    ASSUME ChannelInv, NEW n \in Nodes, StopReturns(n)
    PROVE  ChannelInv'
<1>1. /\ main[n] = "stopping" /\ Return(n)
      /\ UNCHANGED <<main, threadVars, waitVars, pushed>>
      /\ UNCHANGED <<place, wait, step, queue, rets, m_generation, lock>>
  BY DEF StopReturns, channelVars, threadVars, waitVars
<1>2. /\ UNCHANGED entered /\ pc'[n] = "running" /\ BarrierInv(ChannelMessage)' /\ aborted' = FALSE
      /\ \A k \in Nodes : k # n => left'[k] = left[k] /\ pc'[k] = pc[k]
      /\ \A k \in Nodes : /\ left'[k] \in Nat /\ left[k] <= left'[k]
                          /\ entered'[k] \in Nat /\ entered[k] <= entered'[k]
      /\ \A j, k \in Nodes : DataIn(wire[j][k])' = DataIn(wire[j][k])
  BY <1>1, ReturnFacts
<1>3. MainOK(n)
  BY DEF ChannelInv, ThreadsInv, MainInv
<1>4. MainOK(n)'
  BY <1>1, <1>2, <1>3 DEF MainOK
<1>5. ThreadsInv'
  <2>1. MainInv'
    BY <1>1, <1>2, <1>4, MainKept
  <2>2. QED
    BY <1>1, <1>2, <2>1, ThreadsKept
<1>6. PushInv' /\ DataInv'
  <2>1. {} \in SUBSET Threads
    OBVIOUS
  <2>2. QED
    BY <1>1, <1>2, <2>1, DataKept
<1>7. QED
  BY <1>2, <1>5, <1>6 DEF ChannelInv

\* The main thread goes on in its life, and its threads stay idle or joined.
LEMMA ThreadsResting ==
    ASSUME ChannelInv, NEW n \in Nodes, NEW where,
           main' = [main EXCEPT ![n] = where],
           UNCHANGED <<threadVars, waitVars, pushed, left>>, MainInv',
           \/ main[n] = "outside" /\ where = "constructing"
           \/ /\ main[n] \in {"inside", "stopping"} /\ where \in {"stopping", "destroyed"}
              /\ \A t \in LocalThreads(n) : place[t] = "joined"
    PROVE  ThreadsInv'
<1>1. /\ UNCHANGED <<place, wait, step, queue, rets, m_count, m_generation, gen, lock, pushed>>
      /\ ChannelTyped /\ ThreadInv /\ LockInv /\ CountInv
  BY DEF ChannelInv, ThreadsInv, threadVars, waitVars
<1>2. ChannelTyped'
  BY <1>1 DEF ChannelTyped
<1>3. main'[n] = where /\ \A k \in Nodes : k # n => main'[k] = main[k]
  BY <1>1 DEF ChannelTyped
<1>4. ThreadInv'
  <2> SUFFICES ASSUME NEW t \in Threads PROVE ThreadOK(t, NodeOf[t])'
    BY DEF ThreadInv
  <2>1. ThreadOK(t, NodeOf[t]) /\ NodeOf[t] \in Nodes
    BY <1>1, Facts DEF ThreadInv
  <2>2. done(t)' = done(t) /\ InWait(t)' = InWait(t)
    BY <1>1 DEF done, InWait
  <2>3. CASE NodeOf[t] # n
    BY <1>1, <1>3, <2>1, <2>2, <2>3 DEF ThreadOK
  <2>4. CASE NodeOf[t] = n
    <3>1. t \in LocalThreads(n)
      BY <2>4 DEF LocalThreads
    <3>2. CASE main[n] = "outside" /\ where = "constructing"
      <4>1. place[t] = "idle"
        BY <2>1, <2>4, <3>2 DEF ThreadOK
      <4>2. QED
        BY <1>1, <1>3, <2>1, <2>2, <2>4, <3>2, <4>1 DEF ThreadOK
    <3>3. CASE /\ main[n] \in {"inside", "stopping"} /\ where \in {"stopping", "destroyed"}
               /\ place[t] = "joined"
      BY <1>1, <1>3, <2>1, <2>2, <2>4, <3>3 DEF ThreadOK
    <3>4. QED
      BY <3>1, <3>2, <3>3
  <2>5. QED
    BY <2>3, <2>4
<1>5. LockInv'
  BY <1>1 DEF LockInv, InWait, done
<1>6. CountInv'
  BY <1>1 DEF CountInv, Waiting, InWait
<1>7. QED
  BY <1>2, <1>4, <1>5, <1>6 DEF ThreadsInv

LEMMA ConstructKeeps ==
    ASSUME ChannelInv, NEW n \in Nodes, Construct(n)
    PROVE  ChannelInv'
<1>1. /\ main[n] = "outside" /\ EnterBarrier(n)
      /\ main' = [main EXCEPT ![n] = "constructing"]
      /\ UNCHANGED <<counts, aborted, threadVars, waitVars, pushed>>
      /\ UNCHANGED <<place, wait, step, queue, rets, m_generation, lock>>
  BY DEF Construct, threadVars, waitVars
<1>2. /\ BarrierInv(ChannelMessage)' /\ aborted' = FALSE /\ left' = left
      /\ entered'[n] = entered[n] + 1 /\ pc'[n] = "checking"
      /\ \A k \in Nodes : k # n => entered'[k] = entered[k] /\ pc'[k] = pc[k]
      /\ \A k \in Nodes : entered'[k] \in Nat /\ entered[k] <= entered'[k]
      /\ \A j, k \in Nodes : DataIn(wire[j][k])' = DataIn(wire[j][k])
  BY <1>1, EnterOrExit
<1>3. MainOK(n) /\ main \in [Nodes -> {"outside", "constructing", "inside", "stopping", "destroyed"}]
  BY DEF ChannelInv, ThreadsInv, MainInv, ChannelTyped
<1>4. main'[n] = "constructing" /\ \A k \in Nodes : k # n => main'[k] = main[k]
  BY <1>1, <1>3
<1>5. MainOK(n)'
  <2>1. entered[n] = 0 /\ m_generation[n] = 0 /\ lock[n] = NoThread
    BY <1>1, <1>3 DEF MainOK
  <2>2. QED
    BY <1>1, <1>2, <1>4, <2>1 DEF MainOK
<1>6. MainInv'
  BY <1>1, <1>2, <1>4, <1>5, MainKept
<1>7. ThreadsInv'
  BY <1>1, <1>2, <1>6, ThreadsResting
<1>8. PushInv' /\ DataInv'
  <2>1. {} \in SUBSET Threads
    OBVIOUS
  <2>2. QED
    BY <1>1, <1>2, <2>1, DataKept
<1>9. QED
  BY <1>2, <1>7, <1>8 DEF ChannelInv

LEMMA StopKeeps ==
    ASSUME ChannelInv, NEW n \in Nodes, Stop(n)
    PROVE  ChannelInv'
<1>1. /\ \/ /\ main[n] = "inside" /\ \A t \in LocalThreads(n) : place[t] = "joined"
            /\ main' = [main EXCEPT ![n] = "stopping"] /\ EnterBarrier(n)
         \/ main[n] = "stopping" /\ SendExit(n) /\ UNCHANGED main
      /\ UNCHANGED <<counts, aborted, threadVars, waitVars, pushed>>
      /\ UNCHANGED <<place, wait, step, queue, rets, m_generation, lock>>
  BY DEF Stop, threadVars, waitVars
<1>2. /\ BarrierInv(ChannelMessage)' /\ aborted' = FALSE /\ left' = left /\ pc[n] = "running"
      /\ \A k \in Nodes : k # n => entered'[k] = entered[k] /\ pc'[k] = pc[k]
      /\ \A k \in Nodes : entered'[k] \in Nat /\ entered[k] <= entered'[k]
      /\ \A j, k \in Nodes : DataIn(wire[j][k])' = DataIn(wire[j][k])
  BY <1>1, EnterOrExit
<1>3. /\ MainOK(n) /\ main \in [Nodes -> {"outside", "constructing", "inside", "stopping", "destroyed"}]
      /\ ThreadInv /\ LockInv
  BY DEF ChannelInv, ThreadsInv, MainInv, ChannelTyped
<1>4. main'[n] = "stopping" /\ \A k \in Nodes : k # n => main'[k] = main[k]
  BY <1>1, <1>3
<1>5. lock[n] = NoThread
  <2>1. CASE main[n] = "inside" /\ \A t \in LocalThreads(n) : place[t] = "joined"
    <3>1. lock[n] \in Threads => lock[n] \in LocalThreads(n) /\ place[lock[n]] = "barrier"
      BY <1>3, ChannelAssumption DEF LockInv, LocalThreads
    <3>2. QED
      BY <2>1, <3>1, Facts
  <2>2. CASE main[n] = "stopping"
    BY <1>3, <2>2 DEF MainOK
  <2>3. QED
    BY <1>1, <2>1, <2>2
<1>6. MainOK(n)'
  BY <1>1, <1>4, <1>5 DEF MainOK
<1>7. MainInv'
  BY <1>1, <1>2, <1>4, <1>6, MainKept
<1>8. ThreadsInv'
  <2>1. CASE main[n] = "inside" /\ \A t \in LocalThreads(n) : place[t] = "joined"
    <3>1. main' = [main EXCEPT ![n] = "stopping"]
      BY <1>1, <2>1
    <3>2. QED
      BY <1>1, <1>2, <1>7, <2>1, <3>1, ThreadsResting
  <2>2. CASE UNCHANGED main
    <3>1. \A k \in Nodes : left'[k] \in Nat /\ left[k] <= left'[k]
      BY <1>2, Facts
    <3>2. QED
      BY <1>1, <1>7, <2>2, <3>1, ThreadsKept
  <2>3. QED
    BY <1>1, <2>1, <2>2
<1>9. PushInv' /\ DataInv'
  <2>1. {} \in SUBSET Threads
    OBVIOUS
  <2>2. QED
    BY <1>1, <1>2, <2>1, DataKept
<1>10. QED
  BY <1>2, <1>8, <1>9 DEF ChannelInv

LEMMA MailboxUntouched ==
    ASSUME ChannelInv, UNCHANGED vars
    PROVE  /\ BarrierInv(ChannelMessage)' /\ aborted' = FALSE
           /\ UNCHANGED <<pc, entered, left, unsent>>
           /\ \A k \in Nodes : /\ left'[k] \in Nat /\ left[k] <= left'[k]
                               /\ entered'[k] \in Nat /\ entered[k] <= entered'[k]
           /\ \A j, k \in Nodes : DataIn(wire[j][k])' = DataIn(wire[j][k])
<1>1. /\ UNCHANGED <<netVars, counts, aborted>> /\ UNCHANGED <<wire, pc, entered, left, unsent>>
      /\ aborted = FALSE
  BY DEF vars, netVars, ChannelInv
<1>2. NetInv(ChannelMessage)' /\ \A j, k \in Nodes : Heard(j, k)' = Heard(j, k)
  BY <1>1, Facts, NetStutterKeeps
<1>3. \A k \in Nodes : pc'[k] = "waiting" => pc[k] = "waiting" \/ ~Complete(k)
  BY <1>1
<1>4. BarrierInv(ChannelMessage)'
  BY <1>1, <1>2, <1>3, QuietKeeps DEF ChannelInv
<1>5. \A k \in Nodes : /\ left'[k] \in Nat /\ left[k] <= left'[k]
                       /\ entered'[k] \in Nat /\ entered[k] <= entered'[k]
  BY <1>1, Facts
<1>6. QED
  BY <1>1, <1>4, <1>5 DEF DataIn

LEMMA DestructKeeps ==
    ASSUME ChannelInv, NEW n \in Nodes, Destruct(n)
    PROVE  ChannelInv'
<1>1. /\ main[n] = "stopping" /\ pc[n] = "stopped" /\ main' = [main EXCEPT ![n] = "destroyed"]
      /\ UNCHANGED vars /\ UNCHANGED <<threadVars, waitVars, pushed>>
      /\ UNCHANGED <<place, wait, step, queue, rets, m_generation, lock>>
  BY DEF Destruct, threadVars, waitVars
<1>2. /\ BarrierInv(ChannelMessage)' /\ aborted' = FALSE /\ UNCHANGED <<pc, entered, left>>
      /\ \A k \in Nodes : entered'[k] \in Nat /\ entered[k] <= entered'[k]
      /\ \A j, k \in Nodes : DataIn(wire[j][k])' = DataIn(wire[j][k])
  BY <1>1, MailboxUntouched
<1>3. /\ MainOK(n) /\ main \in [Nodes -> {"outside", "constructing", "inside", "stopping", "destroyed"}]
      /\ ThreadInv
  BY DEF ChannelInv, ThreadsInv, MainInv, ChannelTyped
<1>4. main'[n] = "destroyed" /\ \A k \in Nodes : k # n => main'[k] = main[k]
  BY <1>1, <1>3
<1>5. MainInv'
  <2>1. MainOK(n)'
    BY <1>1, <1>2, <1>3, <1>4 DEF MainOK
  <2>2. QED
    BY <1>1, <1>2, <1>4, <2>1, MainKept
<1>6. ThreadsInv'
  <2>1. \A t \in LocalThreads(n) : place[t] = "joined"
    BY <1>1, <1>3 DEF ThreadInv, ThreadOK, LocalThreads
  <2>2. QED
    BY <1>1, <1>2, <1>5, <2>1, ThreadsResting
<1>7. PushInv' /\ DataInv'
  <2>1. {} \in SUBSET Threads
    OBVIOUS
  <2>2. QED
    BY <1>1, <1>2, <2>1, DataKept
<1>8. QED
  BY <1>2, <1>6, <1>7 DEF ChannelInv

\* The threads start: nothing can have been pushed in a superstep before 0.
LEMMA ConstructedKeeps ==
    ASSUME ChannelInv, NEW n \in Nodes, Constructed(n)
    PROVE  ChannelInv'
<1>1. /\ main[n] = "constructing" /\ Return(n)
      /\ main' = [main EXCEPT ![n] = "inside"]
      /\ place' = [t \in Threads |-> IF NodeOf[t] = n THEN "running" ELSE place[t]]
      /\ UNCHANGED <<wait, step, queue, rets, m_count, m_generation, gen, lock, pushed>>
  BY DEF Constructed, waitVars
<1>2. /\ BarrierInv(ChannelMessage)' /\ aborted' = FALSE
      /\ UNCHANGED entered /\ pc'[n] = "running"
      /\ entered[n] = left[n] + 1 /\ left'[n] = left[n] + 1
      /\ \A k \in Nodes : k # n => left'[k] = left[k] /\ pc'[k] = pc[k]
      /\ \A k \in Nodes : entered'[k] \in Nat /\ entered[k] <= entered'[k]
      /\ \A j, k \in Nodes : DataIn(wire[j][k])' = DataIn(wire[j][k])
  BY <1>1, ReturnFacts
<1>3. ChannelTyped /\ MainOK(n) /\ ThreadInv /\ LockInv /\ CountInv /\ DataInv
  BY DEF ChannelInv, ThreadsInv, MainInv
<1>4. main'[n] = "inside" /\ \A k \in Nodes : k # n => main'[k] = main[k]
  BY <1>1, <1>3 DEF ChannelTyped
<1>5. entered[n] = 1 /\ left'[n] = 1 /\ m_generation[n] = 0 /\ lock[n] = NoThread
  BY <1>1, <1>2, <1>3 DEF MainOK
<1>6. \A t \in LocalThreads(n) : /\ place[t] = "idle" /\ wait[t] = 1 /\ step[t] = 0
                                 /\ place'[t] = "running"
  <2> TAKE t \in LocalThreads(n)
  <2>1. t \in Threads /\ NodeOf[t] = n
    BY DEF LocalThreads
  <2>2. place[t] = "idle" /\ done(t) = 0
    BY <1>1, <1>3, <2>1 DEF ThreadInv, ThreadOK
  <2>3. wait[t] = 1 /\ step[t] = 0
    BY <2>1, <2>2, Facts DEF done
  <2>4. QED
    BY <1>1, <2>1, <2>2, <2>3
<1>7. \A t \in Threads \ LocalThreads(n) : place'[t] = place[t] /\ NodeOf[t] # n
  BY <1>1 DEF LocalThreads
<1>8. MainInv'
  <2>1. MainOK(n)'
    BY <1>1, <1>2, <1>4, <1>5 DEF MainOK
  <2>2. QED
    BY <1>1, <1>2, <1>4, <2>1, MainKept
<1>9. ThreadsInv'
  <2>1. ChannelTyped'
    BY <1>1, <1>3 DEF ChannelTyped
  <2>2. ThreadInv'
    <3> SUFFICES ASSUME NEW t \in Threads PROVE ThreadOK(t, NodeOf[t])'
      BY DEF ThreadInv
    <3>1. ThreadOK(t, NodeOf[t]) /\ NodeOf[t] \in Nodes
      BY <1>3, Facts DEF ThreadInv
    <3>2. done(t)' = done(t)
      BY <1>1 DEF done
    <3>3. CASE t \in LocalThreads(n)
      <4>1. NodeOf[t] = n /\ done(t) = 0
        BY <1>6, <3>3 DEF LocalThreads, done
      <4>2. QED
        BY <1>1, <1>4, <1>5, <1>6, <3>2, <3>3, <4>1 DEF ThreadOK, InWait
    <3>4. CASE t \notin LocalThreads(n)
      BY <1>1, <1>2, <1>4, <1>7, <3>1, <3>2, <3>4 DEF ThreadOK, InWait
    <3>5. QED
      BY <3>3, <3>4
  <2>3. LockInv'
    <3> SUFFICES ASSUME NEW k \in Nodes, lock[k] # NoThread
                 PROVE  /\ place'[lock[k]] = "barrier" /\ NodeOf[lock[k]] = k
                        /\ \A t \in LocalThreads(k) \ {lock[k]} :
                              InWait(t)' /\ m_generation[k] = done(t)' + 1
      BY <1>1 DEF LockInv, LocalThreads
    <3>1. k # n /\ lock[k] \in Threads
      BY <1>5, Facts
    <3>2. \A t \in LocalThreads(k) : t \in Threads \ LocalThreads(n)
      BY <3>1 DEF LocalThreads
    <3>3. /\ place[lock[k]] = "barrier" /\ NodeOf[lock[k]] = k
          /\ \A t \in LocalThreads(k) \ {lock[k]} : InWait(t) /\ m_generation[k] = done(t) + 1
      BY <1>3 DEF LockInv
    <3>4. lock[k] \in LocalThreads(k)
      BY <3>1, <3>3 DEF LocalThreads
    <3>5. QED
      BY <1>1, <1>7, <3>2, <3>3, <3>4 DEF InWait, done
  <2>4. CountInv'
    <3>1. \A t \in Threads : InWait(t)' = InWait(t)
      BY <1>6, <1>7 DEF InWait
    <3>2. \A k \in Nodes : Waiting(k)' = Waiting(k)
      BY <1>1, <3>1 DEF Waiting, LocalThreads
    <3>3. QED
      BY <1>1, <1>3, <3>2 DEF CountInv
  <2>5. QED
    BY <1>8, <2>1, <2>2, <2>3, <2>4 DEF ThreadsInv
<1>10. PushInv' /\ DataInv'
  <2>1. ASSUME NEW t \in LocalThreads(n), OnWire(t)' = OnWire(t) PROVE DataOK(t)'
    <3>1. /\ DataOK(t) /\ place[t] = "idle" /\ wait[t] = 1 /\ step[t] = 0
          /\ place'[t] = "running" /\ t \in Threads
      BY <1>3, <1>6, <2>1 DEF DataInv, LocalThreads
    <3>2. /\ Queued(t)' = Queued(t) /\ PushedFrom(t, 0)' = PushedFrom(t, 0)
          /\ NextToPop(t) = 0 /\ NextToPop(t)' = 0
      BY <1>1, <3>1 DEF Queued, PushedFrom, NextToPop
    <3>3. PushedIn(t, -1)' = {}
      <4>1. \A p \in pushed : p.step \in Nat
        BY <1>3, ChannelAssumption DEF ChannelTyped, Pushes
      <4>2. QED
        BY <1>1, <4>1 DEF PushedIn
    <3>4. OnWire(t) \cup Queued(t) = PushedFrom(t, 0) /\ rets[t] = {}
      BY <3>1, <3>2 DEF DataOK
    <3>5. PushedIn(t, NextToPop(t) - 1)' = {}
      BY <3>2, <3>3
    <3>6. /\ (OnWire(t) \cup Queued(t))' = PushedFrom(t, NextToPop(t))' /\ rets'[t] = {}
      BY <1>1, <2>1, <3>2, <3>4
    <3>7. QED
      BY <3>1, <3>5, <3>6 DEF DataOK
  <2>2. LocalThreads(n) \in SUBSET Threads
    BY DEF LocalThreads
  <2>3. QED
    BY <1>1, <1>2, <1>7, <2>1, <2>2, DataKept
<1>11. QED
  BY <1>2, <1>9, <1>10 DEF ChannelInv

-----------------------------------------------------------------------------
(* The steps of one thread                                                 *)

LEMMA CountKept ==
    ASSUME CountInv, NEW t \in Threads, UNCHANGED <<m_count, m_generation>>,
           \A u \in Threads \ {t} : place'[u] = place[u] /\ gen'[u] = gen[u],
           InWait(t) /\ gen[t] = m_generation[NodeOf[t]]
               <=> InWait(t)' /\ gen'[t] = m_generation[NodeOf[t]]
    PROVE  CountInv'
<1>1. \A n \in Nodes : Waiting(n)' = Waiting(n)
  BY DEF Waiting, InWait, LocalThreads
<1>2. QED
  BY <1>1 DEF CountInv

\* Threads and nodes to which a step of t means nothing.
LEMMA OneThread ==
    ASSUME ChannelInv, NEW t \in Threads, UNCHANGED <<vars, main, m_generation, lock, pushed>>,
           \A u \in Threads \ {t} : /\ place'[u] = place[u] /\ wait'[u] = wait[u]
                                    /\ step'[u] = step[u] /\ gen'[u] = gen[u],
           place[t] # "barrier",
           lock[NodeOf[t]] # NoThread => InWait(t)' /\ done(t)' = done(t),
           ChannelTyped', CountInv', ThreadOK(t, NodeOf[t])'
    PROVE  ThreadsInv' /\ BarrierInv(ChannelMessage)' /\ aborted' = FALSE
<1>1. /\ BarrierInv(ChannelMessage)' /\ aborted' = FALSE
      /\ UNCHANGED <<pc, entered, left>>
  BY MailboxUntouched
<1>2. MainInv /\ ThreadInv /\ LockInv
  BY DEF ChannelInv, ThreadsInv
<1>3. MainInv'
  BY <1>1, <1>2 DEF MainInv, MainOK
<1>4. \A u \in Threads \ {t} : InWait(u)' = InWait(u) /\ done(u)' = done(u)
  BY DEF InWait, done
<1>5. ThreadInv'
  <2> SUFFICES ASSUME NEW u \in Threads \ {t} PROVE ThreadOK(u, NodeOf[u])'
    BY DEF ThreadInv
  <2>1. ThreadOK(u, NodeOf[u])
    BY <1>2 DEF ThreadInv
  <2>2. QED
    BY <1>1, <1>4, <2>1 DEF ThreadOK
<1>6. LockInv'
  <2> SUFFICES ASSUME NEW n \in Nodes, lock[n] # NoThread
               PROVE  /\ place'[lock[n]] = "barrier" /\ NodeOf[lock[n]] = n
                      /\ \A u \in LocalThreads(n) \ {lock[n]} :
                            InWait(u)' /\ m_generation[n] = done(u)' + 1
    BY DEF LockInv, LocalThreads
  <2>1. /\ place[lock[n]] = "barrier" /\ NodeOf[lock[n]] = n /\ lock[n] \in Threads
        /\ \A u \in LocalThreads(n) \ {lock[n]} : InWait(u) /\ m_generation[n] = done(u) + 1
    BY <1>2, Facts DEF LockInv
  <2>2. lock[n] # t
    BY <2>1
  <2>3. ASSUME NEW u \in LocalThreads(n) \ {lock[n]}
        PROVE  InWait(u)' /\ m_generation[n] = done(u)' + 1
    <3>1. CASE u = t
      BY <2>1, <2>3, <3>1 DEF LocalThreads
    <3>2. CASE u # t
      BY <1>4, <2>1, <2>3, <3>2 DEF LocalThreads
    <3>3. QED
      BY <3>1, <3>2
  <2>4. QED
    BY <2>1, <2>2, <2>3
<1>7. QED
  BY <1>1, <1>3, <1>5, <1>6 DEF ThreadsInv

\* ... and the data with it, of which only t's may be handled.
LEMMA OneThreadData ==
    ASSUME ChannelInv, NEW t \in Threads, UNCHANGED <<vars, pushed>>,
           \A u \in Threads \ {t} : /\ place'[u] = place[u] /\ wait'[u] = wait[u]
                                    /\ step'[u] = step[u]
                                    /\ queue'[u] = queue[u] /\ rets'[u] = rets[u],
           OnWire(t)' = OnWire(t) => DataOK(t)'
    PROVE  PushInv' /\ DataInv'
<1>1. /\ \A k \in Nodes : entered'[k] \in Nat /\ entered[k] <= entered'[k]
      /\ \A j, k \in Nodes : DataIn(wire[j][k])' = DataIn(wire[j][k])
  BY MailboxUntouched
<1>2. {t} \in SUBSET Threads
  OBVIOUS
<1>3. \A u \in Threads \ {t} :
         /\ wait'[u] = wait[u] /\ step'[u] = step[u]
         /\ queue'[u] = queue[u] /\ rets'[u] = rets[u]
         /\ place'[u] = "popping" <=> place[u] = "popping"
         /\ place'[u] \in {"running", "joined"} <=> place[u] \in {"running", "joined"}
  OBVIOUS
<1>4. QED
  BY <1>1, <1>2, <1>3, DataKept

LEMMA SyncAndGetKeeps ==
    ASSUME ChannelInv, NEW t \in Threads, SyncAndGet(t)
    PROVE  ChannelInv'
<1> DEFINE goesOn == step[t] < MaxSteps
<1>1. /\ place[t] = "running"
      /\ place' = [place EXCEPT ![t] = IF goesOn THEN "arriving" ELSE "joined"]
      /\ rets' = [rets EXCEPT ![t] = IF goesOn THEN {} ELSE @]
      /\ UNCHANGED <<vars, main, wait, step, queue, m_count, m_generation, gen, lock, pushed>>
  BY DEF SyncAndGet, waitVars
<1> HIDE DEF goesOn
<1>2. /\ ChannelTyped /\ CountInv /\ ThreadOK(t, NodeOf[t]) /\ DataOK(t)
  BY DEF ChannelInv, ThreadsInv, ThreadInv, DataInv
<1>3. /\ place'[t] = IF goesOn THEN "arriving" ELSE "joined"
      /\ rets'[t] = IF goesOn THEN {} ELSE rets[t]
      /\ \A u \in Threads \ {t} : place'[u] = place[u] /\ rets'[u] = rets[u]
  BY <1>1, <1>2 DEF ChannelTyped
<1>4. ThreadsInv' /\ BarrierInv(ChannelMessage)' /\ aborted' = FALSE
  <2>1. ChannelTyped'
    BY <1>1, <1>2 DEF ChannelTyped
  <2>2. CountInv'
    BY <1>1, <1>2, <1>3, CountKept DEF InWait
  <2>3. done(t)' = done(t) /\ UNCHANGED left
    BY <1>1, MailboxUntouched DEF done
  <2>4. ThreadOK(t, NodeOf[t])'
    BY <1>1, <1>2, <1>3, <2>3 DEF ThreadOK, InWait
  <2>5. lock[NodeOf[t]] = NoThread
    BY <1>1, ActiveThread
  <2>6. QED
    BY <1>1, <1>3, <2>1, <2>2, <2>4, <2>5, OneThread
<1>5. PushInv' /\ DataInv'
  <2>1. ASSUME OnWire(t)' = OnWire(t) PROVE DataOK(t)'
    <3>1. /\ Queued(t)' = Queued(t) /\ NextToPop(t)' = NextToPop(t)
          /\ \A k : PushedFrom(t, k)' = PushedFrom(t, k) /\ PushedIn(t, k)' = PushedIn(t, k)
      BY <1>1 DEF Queued, PushedFrom, PushedIn, NextToPop
    <3>2. wait[t] = 1 /\ wait'[t] = 1
      BY <1>1, StepOfThread
    <3>3. QED
      BY <1>1, <1>2, <1>3, <2>1, <3>1, <3>2 DEF DataOK
  <2>2. QED
    BY <1>1, <1>3, <2>1, OneThreadData
<1>6. QED
  BY <1>4, <1>5 DEF ChannelInv

LEMMA SpuriousReturnKeeps ==
    ASSUME ChannelInv, NEW t \in Threads, SpuriousReturn(t)
    PROVE  ChannelInv'
<1>1. /\ place[t] = "asleep" /\ place' = [place EXCEPT ![t] = "woken"]
      /\ UNCHANGED <<vars, main, wait, step, queue, rets, m_count, m_generation, gen, lock, pushed>>
  BY DEF SpuriousReturn, waitVars
<1>2. /\ ChannelTyped /\ CountInv /\ ThreadOK(t, NodeOf[t]) /\ DataOK(t)
  BY DEF ChannelInv, ThreadsInv, ThreadInv, DataInv
<1>3. place'[t] = "woken" /\ \A u \in Threads \ {t} : place'[u] = place[u]
  BY <1>1, <1>2 DEF ChannelTyped
<1>4. InWait(t) /\ InWait(t)' /\ done(t)' = done(t) /\ UNCHANGED left
  BY <1>1, <1>3, MailboxUntouched DEF InWait, done
<1>5. ThreadsInv' /\ BarrierInv(ChannelMessage)' /\ aborted' = FALSE
  <2>1. ChannelTyped'
    BY <1>1, <1>2 DEF ChannelTyped
  <2>2. CountInv'
    BY <1>1, <1>2, <1>3, <1>4, CountKept
  <2>3. ThreadOK(t, NodeOf[t])'
    BY <1>1, <1>2, <1>3, <1>4 DEF ThreadOK
  <2>4. QED
    BY <1>1, <1>3, <1>4, <2>1, <2>2, <2>3, OneThread
<1>6. PushInv' /\ DataInv'
  <2>1. ASSUME OnWire(t)' = OnWire(t) PROVE DataOK(t)'
    <3>1. /\ Queued(t)' = Queued(t) /\ NextToPop(t)' = NextToPop(t)
          /\ \A k : PushedFrom(t, k)' = PushedFrom(t, k) /\ PushedIn(t, k)' = PushedIn(t, k)
      BY <1>1 DEF Queued, PushedFrom, PushedIn, NextToPop
    <3>2. QED
      BY <1>1, <1>2, <1>3, <2>1, <3>1 DEF DataOK
  <2>2. QED
    BY <1>1, <1>3, <2>1, OneThreadData
<1>7. QED
  BY <1>5, <1>6 DEF ChannelInv

LEMMA PopKeeps ==
    ASSUME ChannelInv, NEW t \in Threads, Pop(t)
    PROVE  ChannelInv'
<1>1. /\ place[t] = "popping" /\ queue[t] # <<>>
      /\ rets' = [rets EXCEPT ![t] = @ \cup {Head(queue[t])}]
      /\ queue' = [queue EXCEPT ![t] = Tail(@)]
      /\ UNCHANGED <<vars, main, place, wait, step, m_count, m_generation, gen, lock, pushed>>
  BY DEF Pop, waitVars
<1>2. /\ ChannelTyped /\ CountInv /\ ThreadOK(t, NodeOf[t]) /\ DataOK(t)
  BY DEF ChannelInv, ThreadsInv, ThreadInv, DataInv
<1>3. /\ queue[t] \in Seq(Pushes)
      /\ queue'[t] = Tail(queue[t]) /\ rets'[t] = rets[t] \cup {Head(queue[t])}
      /\ \A u \in Threads \ {t} : queue'[u] = queue[u] /\ rets'[u] = rets[u]
  BY <1>1, <1>2 DEF ChannelTyped
<1>4. Tail(queue[t]) \in Seq(Pushes) /\ Head(queue[t]) \in Pushes
  BY <1>1, <1>3, PopOne
<1>5. ThreadsInv' /\ BarrierInv(ChannelMessage)' /\ aborted' = FALSE
  <2>1. ChannelTyped'
    <3>1. queue' \in [Threads -> Seq(Pushes)]
      BY <1>1, <1>2, <1>4 DEF ChannelTyped
    <3>2. rets' \in [Threads -> SUBSET Pushes]
      <4>1. rets[t] \cup {Head(queue[t])} \in SUBSET Pushes
        BY <1>2, <1>4 DEF ChannelTyped
      <4>2. QED
        BY <1>1, <1>2, <4>1 DEF ChannelTyped
    <3>3. QED
      BY <1>1, <1>2, <3>1, <3>2 DEF ChannelTyped
  <2>2. CountInv'
    BY <1>1, <1>2, CountKept DEF InWait
  <2>3. done(t)' = done(t) /\ InWait(t)' = InWait(t) /\ UNCHANGED left
    BY <1>1, MailboxUntouched DEF done, InWait
  <2>4. ThreadOK(t, NodeOf[t])'
    BY <1>1, <1>2, <2>3 DEF ThreadOK
  <2>5. lock[NodeOf[t]] = NoThread
    BY <1>1, ActiveThread
  <2>6. QED
    BY <1>1, <2>1, <2>2, <2>4, <2>5, OneThread
<1>6. PushInv' /\ DataInv'
  <2>1. ASSUME OnWire(t)' = OnWire(t) PROVE DataOK(t)'
    <3>1. Queued(t) = Queued(t)' \cup {Head(queue[t])}
      <4> DEFINE q == queue[t]
                 r == Tail(q)
      <4>1. /\ Head(q) = q[1] /\ Len(q) \in Nat \ {0} /\ Len(r) = Len(q) - 1
            /\ \A i \in 1 .. Len(q) - 1 : r[i] = q[i + 1]
        BY <1>1, <1>3, PopOne
      <4> HIDE DEF r
      <4>2. \A i \in 1 .. Len(q) : i = 1 \/ (i - 1 \in 1 .. Len(r) /\ q[i] = r[i - 1])
        BY <4>1
      <4>3. \A i \in 1 .. Len(r) : i + 1 \in 1 .. Len(q) /\ r[i] = q[i + 1]
        BY <4>1
      <4>4. 1 \in 1 .. Len(q)
        BY <4>1
      <4>5. {q[i] : i \in 1 .. Len(q)} = {r[i] : i \in 1 .. Len(r)} \cup {q[1]}
        <5>1. {q[i] : i \in 1 .. Len(q)} \subseteq {r[i] : i \in 1 .. Len(r)} \cup {q[1]}
          BY <4>2
        <5>2. {r[i] : i \in 1 .. Len(r)} \cup {q[1]} \subseteq {q[i] : i \in 1 .. Len(q)}
          BY <4>3, <4>4
        <5>3. QED
          BY <5>1, <5>2
      <4>6. queue'[t] = r
        BY <1>3 DEF r
      <4>7. QED
        BY <4>1, <4>5, <4>6 DEF Queued
    <3>2. PushedFrom(t, step[t])' = PushedFrom(t, step[t])
      BY <1>1 DEF PushedFrom
    <3>3. OnWire(t) \cup Queued(t) \cup rets[t] = PushedFrom(t, step[t])
      BY <1>1, <1>2 DEF DataOK
    <3>4. OnWire(t)' \cup Queued(t)' \cup rets'[t] = PushedFrom(t, step[t])
      BY <1>3, <2>1, <3>1, <3>3
    <3>5. QED
      BY <1>1, <3>2, <3>4 DEF DataOK
  <2>2. QED
    BY <1>1, <1>3, <2>1, OneThreadData
<1>7. QED
  BY <1>5, <1>6 DEF ChannelInv

\* What is on the way to t was pushed after the Barriers t's node has left.
LEMMA WireIsNew ==
    ASSUME ChannelInv, NEW t \in Threads, NEW p \in OnWire(t)
    PROVE  left[NodeOf[t]] <= 2 * p.step + 1
<1> DEFINE n == NodeOf[t]
<1>1. n \in Nodes /\ NetInv(ChannelMessage) /\ Counted /\ Dated(ChannelMessage)
  BY Facts, ChannelMessageDated
<1>2. PICK m \in Nodes : \E x \in DataIn(wire[m][n]) : x.push = p
  BY DEF OnWire
<1>3. PICK x \in DataIn(wire[m][n]) : x.push = p
  BY <1>2
<1>4. PICK i \in 1 .. Len(wire[m][n]) : x = wire[m][n][i] /\ x.flag = "kData"
  BY <1>3 DEF DataIn
<1>5. x.version = 2 * p.step + 1
  BY <1>1, <1>2, <1>3 DEF ChannelInv, PushInv
<1>6. Heard(m, n) <= RoundBefore(x, entered[m]) /\ Heard(m, n) \in Nat /\ left[n] \in Nat
  BY <1>1, <1>2, <1>4, NetInvParts
<1>7. left[n] <= Heard(m, n)
  BY <1>1, <1>2 DEF Counted
<1>8. RoundBefore(x, entered[m]) = 2 * p.step + 1
  BY <1>4, <1>5 DEF RoundBefore
<1>9. p.step \in Nat
  BY ChannelAssumption DEF OnWire, ChannelInv, ThreadsInv, ChannelTyped, Pushes
<1>10. QED
  BY <1>6, <1>7, <1>8, <1>9

\* The queue is empty: all of the superstep has been popped, none of the next
\* superstep has been pushed.
LEMMA PoppedKeeps ==
    ASSUME ChannelInv, NEW t \in Threads, Popped(t)
    PROVE  ChannelInv'
<1>1. /\ place[t] = "popping" /\ queue[t] = <<>>
      /\ place' = [place EXCEPT ![t] = "arriving"]
      /\ UNCHANGED <<vars, main, wait, step, queue, rets, m_count, m_generation, gen, lock, pushed>>
  BY DEF Popped, waitVars
<1>2. /\ ChannelTyped /\ CountInv /\ ThreadOK(t, NodeOf[t]) /\ DataOK(t) /\ PushInv
      /\ step[t] \in Nat
  BY Facts DEF ChannelInv, ThreadsInv, ThreadInv, DataInv
<1>3. /\ place'[t] = "arriving"
      /\ \A u \in Threads \ {t} : place'[u] = place[u]
  BY <1>1, <1>2 DEF ChannelTyped
<1>4. ThreadsInv' /\ BarrierInv(ChannelMessage)' /\ aborted' = FALSE
  <2>1. ChannelTyped'
    BY <1>1, <1>2 DEF ChannelTyped
  <2>2. CountInv'
    BY <1>1, <1>2, <1>3, CountKept DEF InWait
  <2>3. done(t)' = done(t) /\ UNCHANGED left
    BY <1>1, MailboxUntouched DEF done
  <2>4. ThreadOK(t, NodeOf[t])'
    BY <1>1, <1>2, <1>3, <2>3 DEF ThreadOK, InWait
  <2>5. lock[NodeOf[t]] = NoThread
    BY <1>1, ActiveThread
  <2>6. QED
    BY <1>1, <1>3, <2>1, <2>2, <2>4, <2>5, OneThread
<1>5. PushInv' /\ DataInv'
  <2>1. ASSUME OnWire(t)' = OnWire(t) PROVE DataOK(t)'
    <3> DEFINE n == NodeOf[t]
    <3>1. /\ wait[t] = 2 /\ 2 * step[t] + 1 = m_generation[n] /\ n \in Nodes
          /\ entered[n] = 2 * step[t] + 2 /\ left[n] = 2 * step[t] + 2
      <4>1. /\ wait[t] = 2 /\ 2 * step[t] + 1 = m_generation[n] /\ n \in Nodes
            /\ entered[n] = m_generation[n] + 1 /\ left[n] = m_generation[n] + 1
        BY <1>1, StepOfThread, ActiveThread, Facts
      <4>2. QED
        BY <1>2, <4>1
    <3>2. \A p \in pushed : p.step \in Nat /\ p.step <= step[t]
      <4> TAKE p \in pushed
      <4>1. p.step \in Nat
        BY <1>2, ChannelAssumption DEF ChannelTyped, Pushes
      <4>2. 2 * p.step + 1 <= entered[n]
        BY <1>2, <3>1 DEF PushInv
      <4>3. QED
        BY <1>2, <3>1, <4>1, <4>2
    <3>3. OnWire(t) = {}
      <4> SUFFICES ASSUME NEW p \in OnWire(t) PROVE FALSE
        OBVIOUS
      <4>1. p \in pushed /\ left[n] <= 2 * p.step + 1
        BY WireIsNew DEF OnWire
      <4>2. QED
        BY <1>2, <3>1, <3>2, <4>1
    <3>4. Queued(t) = {} /\ Queued(t)' = {}
      BY <1>1 DEF Queued
    <3>5. PushedFrom(t, step[t] + 1) = {} /\ PushedFrom(t, step[t]) = PushedIn(t, step[t])
      BY <1>2, <3>2 DEF PushedFrom, PushedIn
    <3>6. rets[t] = PushedIn(t, step[t])
      BY <1>1, <1>2, <3>3, <3>4, <3>5 DEF DataOK
    <3>7. NextToPop(t)' = step[t] + 1 /\ NextToPop(t)' - 1 = step[t]
      BY <1>1, <1>2, <3>1 DEF NextToPop
    <3>8. \A k : PushedFrom(t, k)' = PushedFrom(t, k) /\ PushedIn(t, k)' = PushedIn(t, k)
      BY <1>1 DEF PushedFrom, PushedIn
    <3>9. /\ (OnWire(t) \cup Queued(t))' = PushedFrom(t, NextToPop(t))'
          /\ rets'[t] = PushedIn(t, NextToPop(t) - 1)'
      BY <1>1, <2>1, <3>3, <3>4, <3>5, <3>6, <3>7, <3>8
    <3>10. QED
      BY <1>1, <1>3, <3>1, <3>9 DEF DataOK
  <2>2. QED
    BY <1>1, <1>3, <2>1, OneThreadData
<1>6. QED
  BY <1>4, <1>5 DEF ChannelInv

\* A Wait is behind t: after the first t pops, after the second its SyncAndGet
\* has returned.
LEMMA WaitPassed ==
    ASSUME ChannelInv, NEW t \in Threads, NEW T, PassWait(t, T), UNCHANGED <<queue, rets, pushed>>,
           place[t] \in {"woken", "barrier"}
    PROVE  /\ place'[t] \in {"popping", "running"} /\ done(t)' = done(t) + 1
           /\ place'[t] = "popping" => wait'[t] = 2
           /\ place'[t] = "running" => wait'[t] = 1
           /\ \A u \in Threads \ {t} : /\ place'[u] = IF u \in T THEN "woken" ELSE place[u]
                                       /\ wait'[u] = wait[u] /\ step'[u] = step[u]
           /\ place' \in [Threads -> {"idle", "running", "arriving", "asleep", "woken",
                                      "barrier", "popping", "joined"}]
           /\ wait' \in [Threads -> {1, 2}] /\ step' \in [Threads -> Nat]
           /\ OnWire(t)' = OnWire(t) => DataOK(t)'
<1>1. /\ ChannelTyped /\ DataOK(t) /\ step[t] \in Nat /\ wait[t] \in {1, 2}
  BY Facts DEF ChannelInv, ThreadsInv, DataInv
<1>2. /\ place' = [u \in Threads |->
             IF u = t THEN IF wait[t] = 1 THEN "popping" ELSE "running"
             ELSE IF u \in T THEN "woken" ELSE place[u]]
      /\ wait' = [wait EXCEPT ![t] = 3 - @]
      /\ step' = [step EXCEPT ![t] = IF wait[t] = 2 THEN @ + 1 ELSE @]
  BY DEF PassWait
<1>3. /\ place'[t] = IF wait[t] = 1 THEN "popping" ELSE "running"
      /\ wait'[t] = 3 - wait[t] /\ step'[t] = IF wait[t] = 2 THEN step[t] + 1 ELSE step[t]
      /\ \A u \in Threads \ {t} : /\ place'[u] = IF u \in T THEN "woken" ELSE place[u]
                                  /\ wait'[u] = wait[u] /\ step'[u] = step[u]
  BY <1>1, <1>2 DEF ChannelTyped
<1>4. done(t)' = done(t) + 1
  <2>1. CASE wait[t] = 1
    BY <1>1, <1>3, <2>1 DEF done
  <2>2. CASE wait[t] = 2
    BY <1>1, <1>3, <2>2 DEF done
  <2>3. QED
    BY <1>1, <2>1, <2>2
<1>5. /\ place' \in [Threads -> {"idle", "running", "arriving", "asleep", "woken",
                                 "barrier", "popping", "joined"}]
      /\ wait' \in [Threads -> {1, 2}] /\ step' \in [Threads -> Nat]
  <2>1. 3 - wait[t] \in {1, 2} /\ (IF wait[t] = 2 THEN step[t] + 1 ELSE step[t]) \in Nat
    BY <1>1
  <2>2. QED
    BY <1>1, <1>2, <2>1 DEF ChannelTyped
<1>6. ASSUME OnWire(t)' = OnWire(t) PROVE DataOK(t)'
  <2>1. /\ Queued(t)' = Queued(t)
        /\ \A k : PushedFrom(t, k)' = PushedFrom(t, k) /\ PushedIn(t, k)' = PushedIn(t, k)
    BY DEF Queued, PushedFrom, PushedIn
  <2>2. /\ OnWire(t) \cup Queued(t) = PushedFrom(t, NextToPop(t))
        /\ rets[t] = IF wait[t] = 2 THEN PushedIn(t, NextToPop(t) - 1) ELSE {}
    BY <1>1 DEF DataOK
  <2>3. CASE wait[t] = 1
    <3>1. NextToPop(t) = step[t] /\ step'[t] = step[t] /\ rets[t] = {} /\ place'[t] = "popping"
      BY <1>3, <2>2, <2>3 DEF NextToPop
    <3>2. QED
      BY <1>6, <2>1, <2>2, <3>1 DEF DataOK
  <2>4. CASE wait[t] = 2
    <3>1. /\ NextToPop(t) = step[t] + 1 /\ NextToPop(t)' = step[t] + 1
          /\ rets[t] = PushedIn(t, NextToPop(t) - 1) /\ place'[t] = "running"
      BY <1>3, <2>2, <2>4 DEF NextToPop
    <3>2. /\ (OnWire(t) \cup Queued(t))' = PushedFrom(t, NextToPop(t))'
          /\ rets'[t] = PushedIn(t, NextToPop(t) - 1)'
      BY <1>6, <2>1, <2>2, <3>1
    <3>3. QED
      BY <3>1, <3>2 DEF DataOK
  <2>5. QED
    BY <1>1, <2>3, <2>4
<1>7. QED
  BY <1>1, <1>3, <1>4, <1>5, <1>6

LEMMA WakeUpKeeps ==
    ASSUME ChannelInv, NEW t \in Threads, WakeUp(t)
    PROVE  ChannelInv'
<1> DEFINE n == NodeOf[t]
<1>1. /\ place[t] = "woken" /\ lock[n] = NoThread
      /\ IF gen[t] = m_generation[n]
         THEN place' = [place EXCEPT ![t] = "asleep"] /\ UNCHANGED <<wait, step>>
         ELSE PassWait(t, {})
      /\ UNCHANGED <<vars, main, queue, rets, m_count, m_generation, gen, lock, pushed>>
  BY DEF WakeUp, waitVars
<1>2. /\ ChannelTyped /\ CountInv /\ ThreadOK(t, n) /\ DataOK(t) /\ n \in Nodes
      /\ gen[t] = done(t) /\ m_generation[n] \in {done(t), done(t) + 1} /\ done(t) \in Nat
      /\ main[n] = "inside" /\ left[n] = m_generation[n] + 1
  <2>1. ThreadOK(t, n) /\ InWait(t)
    BY <1>1 DEF ChannelInv, ThreadsInv, ThreadInv, InWait
  <2>2. main[n] = "inside" /\ left[n] = m_generation[n] + 1
    BY <1>1, <2>1, ActiveThread
  <2>3. QED
    BY <2>1, <2>2, Facts DEF ChannelInv, ThreadsInv, DataInv, ThreadOK
<1>3. UNCHANGED left
  BY <1>1, MailboxUntouched
<1>4. CASE gen[t] = m_generation[n]
  <2>1. /\ place'[t] = "asleep" /\ \A u \in Threads \ {t} : place'[u] = place[u]
        /\ UNCHANGED <<wait, step>> /\ place' = [place EXCEPT ![t] = "asleep"]
    BY <1>1, <1>2, <1>4 DEF ChannelTyped
  <2>2. InWait(t) /\ InWait(t)' /\ done(t)' = done(t)
    BY <1>1, <2>1 DEF InWait, done
  <2>3. ThreadsInv' /\ BarrierInv(ChannelMessage)' /\ aborted' = FALSE
    <3>1. ChannelTyped'
      BY <1>1, <1>2, <2>1 DEF ChannelTyped
    <3>2. CountInv'
      BY <1>1, <1>2, <2>1, <2>2, CountKept
    <3>3. ThreadOK(t, NodeOf[t])'
      BY <1>1, <1>2, <1>3, <2>1, <2>2 DEF ThreadOK
    <3>4. QED
      BY <1>1, <2>1, <2>2, <3>1, <3>2, <3>3, OneThread
  <2>4. PushInv' /\ DataInv'
    <3>1. ASSUME OnWire(t)' = OnWire(t) PROVE DataOK(t)'
      <4>1. /\ Queued(t)' = Queued(t) /\ NextToPop(t)' = NextToPop(t)
            /\ \A k : PushedFrom(t, k)' = PushedFrom(t, k) /\ PushedIn(t, k)' = PushedIn(t, k)
        BY <1>1, <2>1 DEF Queued, PushedFrom, PushedIn, NextToPop
      <4>2. QED
        BY <1>1, <1>2, <2>1, <3>1, <4>1 DEF DataOK
    <3>2. QED
      BY <1>1, <2>1, <3>1, OneThreadData
  <2>5. QED
    BY <2>3, <2>4 DEF ChannelInv
<1>5. CASE gen[t] # m_generation[n]
  <2>1. PassWait(t, {}) /\ m_generation[n] = done(t) + 1
    BY <1>1, <1>2, <1>5
  <2>2. /\ place'[t] \in {"popping", "running"} /\ done(t)' = done(t) + 1
        /\ place'[t] = "popping" => wait'[t] = 2
        /\ place'[t] = "running" => wait'[t] = 1
        /\ \A u \in Threads \ {t} : /\ place'[u] = place[u]
                                    /\ wait'[u] = wait[u] /\ step'[u] = step[u]
        /\ place' \in [Threads -> {"idle", "running", "arriving", "asleep", "woken",
                                   "barrier", "popping", "joined"}]
        /\ wait' \in [Threads -> {1, 2}] /\ step' \in [Threads -> Nat]
        /\ OnWire(t)' = OnWire(t) => DataOK(t)'
    BY <1>1, <1>2, <2>1, WaitPassed
  <2>3. ThreadsInv' /\ BarrierInv(ChannelMessage)' /\ aborted' = FALSE
    <3>1. ChannelTyped'
      BY <1>1, <1>2, <2>2 DEF ChannelTyped
    <3>2. CountInv'
      <4>1. ~InWait(t)'
        BY <2>2 DEF InWait
      <4>2. QED
        BY <1>1, <1>2, <1>5, <2>2, <4>1, CountKept
    <3>3. ThreadOK(t, NodeOf[t])'
      BY <1>1, <1>2, <1>3, <2>1, <2>2 DEF ThreadOK, InWait
    <3>4. QED
      BY <1>1, <2>2, <3>1, <3>2, <3>3, OneThread
  <2>4. PushInv' /\ DataInv'
    BY <1>1, <2>2, OneThreadData
  <2>5. QED
    BY <2>3, <2>4 DEF ChannelInv
<1>6. QED
  BY <1>4, <1>5

\* How many of a node's threads wait.
LEMMA LocalCounts ==
    ASSUME NEW n \in Nodes
    PROVE  /\ NumLocalThreads(n) \in Nat
           /\ \A T \in SUBSET LocalThreads(n) : IsFiniteSet(T) /\ Cardinality(T) \in Nat
           /\ \A t \in LocalThreads(n) : \A T \in SUBSET (LocalThreads(n) \ {t}) :
                 Cardinality(T \cup {t}) = Cardinality(T) + 1
<1> DEFINE L == LocalThreads(n)
<1>1. IsFiniteSet(L)
  BY FS_Subset, ChannelAssumption DEF LocalThreads
<1>2. \A T \in SUBSET L : IsFiniteSet(T) /\ Cardinality(T) \in Nat
  BY <1>1, FS_Subset, FS_CardinalityType
<1>3. \A t \in L : \A T \in SUBSET (L \ {t}) : Cardinality(T \cup {t}) = Cardinality(T) + 1
  BY <1>2, FS_AddElement
<1>4. Cardinality(L) \in Nat
  BY <1>2
<1>5. QED
  BY <1>2, <1>3, <1>4 DEF NumLocalThreads

LEMMA AllTheOthers ==
    ASSUME NEW n \in Nodes, NEW t \in LocalThreads(n), NEW T \in SUBSET (LocalThreads(n) \ {t}),
           Cardinality(T) = NumLocalThreads(n) - 1
    PROVE  T = LocalThreads(n) \ {t}
<1> DEFINE L == LocalThreads(n)
<1>1. IsFiniteSet(L)
  BY FS_Subset, ChannelAssumption DEF LocalThreads
<1>2. Cardinality(L \ {t}) = Cardinality(L) - 1 /\ IsFiniteSet(L \ {t})
  BY <1>1, FS_RemoveElement
<1>3. Cardinality(T) = Cardinality(L \ {t})
  BY <1>2 DEF NumLocalThreads
<1>4. QED
  BY <1>2, <1>3, FS_Subset

LEMMA ArriveFacts ==
    ASSUME ChannelInv, NEW t \in Threads, Arrive(t)
    PROVE  LET n == NodeOf[t] IN
           /\ n \in Nodes /\ t \in LocalThreads(n) \ Waiting(n) /\ Waiting(n) \in SUBSET LocalThreads(n)
           /\ place[t] = "arriving" /\ main[n] = "inside" /\ lock[n] = NoThread
           /\ entered[n] = m_generation[n] + 1 /\ left[n] = m_generation[n] + 1
           /\ done(t) = m_generation[n] /\ m_generation[n] \in Nat
           /\ m_count[n] = NumLocalThreads(n) - Cardinality(Waiting(n))
           /\ gen' = [gen EXCEPT ![t] = m_generation[n]]
           /\ UNCHANGED <<counts, aborted, main, wait, step, queue, rets, pushed>>
           /\ ChannelTyped
<1> DEFINE n == NodeOf[t]
<1>1. /\ place[t] = "arriving" /\ gen' = [gen EXCEPT ![t] = m_generation[n]]
      /\ UNCHANGED <<counts, aborted, main, wait, step, queue, rets, pushed>>
  BY DEF Arrive
<1>2. n \in Nodes /\ m_generation[n] \in Nat /\ ChannelTyped /\ CountInv /\ ThreadOK(t, n)
  BY Facts DEF ChannelInv, ThreadsInv, ThreadInv
<1>3. t \in LocalThreads(n) \ Waiting(n) /\ Waiting(n) \in SUBSET LocalThreads(n)
  BY <1>1 DEF LocalThreads, Waiting, InWait
<1>4. /\ main[n] = "inside" /\ lock[n] = NoThread
      /\ entered[n] = m_generation[n] + 1 /\ left[n] = m_generation[n] + 1
  BY <1>1, ActiveThread
<1>5. done(t) = m_generation[n]
  BY <1>1, <1>2 DEF ThreadOK
<1>6. QED
  BY <1>1, <1>2, <1>3, <1>4, <1>5 DEF CountInv

\* Others are still to come: t sleeps.
LEMMA ArriveSleeps ==
    ASSUME ChannelInv, NEW t \in Threads, Arrive(t), m_count[NodeOf[t]] # 1
    PROVE  ChannelInv'
<1> DEFINE n == NodeOf[t]
<1>1. /\ n \in Nodes /\ t \in LocalThreads(n) \ Waiting(n) /\ Waiting(n) \in SUBSET LocalThreads(n)
      /\ place[t] = "arriving" /\ main[n] = "inside" /\ lock[n] = NoThread
      /\ left[n] = m_generation[n] + 1
      /\ done(t) = m_generation[n] /\ m_generation[n] \in Nat
      /\ m_count[n] = NumLocalThreads(n) - Cardinality(Waiting(n))
      /\ gen' = [gen EXCEPT ![t] = m_generation[n]]
      /\ UNCHANGED <<counts, aborted, main, wait, step, queue, rets, pushed>>
      /\ ChannelTyped
  BY ArriveFacts
<1>2. /\ m_count' = [m_count EXCEPT ![n] = @ - 1]
      /\ place' = [place EXCEPT ![t] = "asleep"]
      /\ UNCHANGED <<m_generation, lock, vars>>
  BY <1>1 DEF Arrive, vars
<1>3. /\ place'[t] = "asleep" /\ gen'[t] = m_generation[n] /\ m_count'[n] = m_count[n] - 1
      /\ \A u \in Threads \ {t} : place'[u] = place[u] /\ gen'[u] = gen[u]
      /\ \A k \in Nodes \ {n} : m_count'[k] = m_count[k]
  BY <1>1, <1>2 DEF ChannelTyped
<1>4. ThreadsInv' /\ BarrierInv(ChannelMessage)' /\ aborted' = FALSE
  <2>1. ChannelTyped'
    <3>1. m_count' \in [Nodes -> Int] /\ gen' \in [Threads -> Nat]
      BY <1>1, <1>2 DEF ChannelTyped
    <3>2. QED
      BY <1>1, <1>2, <3>1 DEF ChannelTyped
  <2>2. CountInv'
    <3>1. Waiting(n)' = Waiting(n) \cup {t}
      BY <1>1, <1>2, <1>3 DEF Waiting, InWait, LocalThreads
    <3>2. \A k \in Nodes \ {n} : Waiting(k)' = Waiting(k)
      BY <1>1, <1>2, <1>3 DEF Waiting, InWait, LocalThreads
    <3>3. /\ Cardinality(Waiting(n) \cup {t}) = Cardinality(Waiting(n)) + 1
          /\ Cardinality(Waiting(n)) \in Nat /\ NumLocalThreads(n) \in Nat
      <4>1. Waiting(n) \in SUBSET (LocalThreads(n) \ {t})
        BY <1>1
      <4>2. QED
        BY <1>1, <4>1, LocalCounts
    <3>4. m_count'[n] = NumLocalThreads(n) - Cardinality(Waiting(n)')
      BY <1>1, <1>3, <3>1, <3>3
    <3>5. \A k \in Nodes : NumLocalThreads(k)' = NumLocalThreads(k)
      BY DEF NumLocalThreads, LocalThreads
    <3>6. \A k \in Nodes : m_count[k] = NumLocalThreads(k) - Cardinality(Waiting(k))
      BY DEF ChannelInv, ThreadsInv, CountInv
    <3>7. QED
      BY <1>3, <3>2, <3>4, <3>5, <3>6 DEF CountInv
  <2>3. done(t)' = done(t) /\ InWait(t)' /\ UNCHANGED left
    BY <1>1, <1>2, <1>3, MailboxUntouched DEF done, InWait
  <2>4. ThreadOK(t, n)'
    BY <1>1, <1>2, <1>3, <2>3 DEF ThreadOK
  <2>5. QED
    BY <1>1, <1>2, <1>3, <2>1, <2>2, <2>4, OneThread
<1>5. PushInv' /\ DataInv'
  <2>1. ASSUME OnWire(t)' = OnWire(t) PROVE DataOK(t)'
    <3>1. /\ Queued(t)' = Queued(t) /\ NextToPop(t)' = NextToPop(t)
          /\ \A k : PushedFrom(t, k)' = PushedFrom(t, k) /\ PushedIn(t, k)' = PushedIn(t, k)
      BY <1>1 DEF Queued, PushedFrom, PushedIn, NextToPop
    <3>2. DataOK(t)
      BY DEF ChannelInv, DataInv
    <3>3. QED
      BY <1>1, <1>3, <2>1, <3>1, <3>2 DEF DataOK
  <2>2. QED
    BY <1>1, <1>2, <1>3, <2>1, OneThreadData
<1>6. QED
  BY <1>4, <1>5 DEF ChannelInv

\* All the others wait: t opens the next generation and calls Barrier.
LEMMA ArriveLast ==
    ASSUME ChannelInv, NEW t \in Threads, Arrive(t), m_count[NodeOf[t]] = 1
    PROVE  ChannelInv'
<1> DEFINE n == NodeOf[t]
<1>1. /\ n \in Nodes /\ t \in LocalThreads(n) \ Waiting(n) /\ Waiting(n) \in SUBSET LocalThreads(n)
      /\ place[t] = "arriving" /\ main[n] = "inside" /\ lock[n] = NoThread
      /\ entered[n] = m_generation[n] + 1 /\ left[n] = m_generation[n] + 1
      /\ done(t) = m_generation[n] /\ m_generation[n] \in Nat
      /\ m_count[n] = NumLocalThreads(n) - Cardinality(Waiting(n))
      /\ gen' = [gen EXCEPT ![t] = m_generation[n]]
      /\ UNCHANGED <<counts, aborted, main, wait, step, queue, rets, pushed>>
      /\ ChannelTyped
  BY ArriveFacts
<1>2. /\ m_generation' = [m_generation EXCEPT ![n] = @ + 1]
      /\ m_count' = [m_count EXCEPT ![n] = NumLocalThreads(n)]
      /\ lock' = [lock EXCEPT ![n] = t]
      /\ place' = [place EXCEPT ![t] = "barrier"]
      /\ EnterBarrier(n)
  BY DEF Arrive
<1>3. /\ place'[t] = "barrier" /\ m_count'[n] = NumLocalThreads(n)
      /\ m_generation'[n] = m_generation[n] + 1 /\ lock'[n] = t
      /\ \A u \in Threads \ {t} : place'[u] = place[u] /\ gen'[u] = gen[u]
      /\ \A k \in Nodes \ {n} : /\ m_count'[k] = m_count[k] /\ m_generation'[k] = m_generation[k]
                                /\ lock'[k] = lock[k]
  BY <1>1, <1>2 DEF ChannelTyped
<1>4. /\ BarrierInv(ChannelMessage)' /\ aborted' = FALSE /\ left' = left
      /\ entered'[n] = entered[n] + 1 /\ pc'[n] = "checking"
      /\ \A k \in Nodes : k # n => entered'[k] = entered[k] /\ pc'[k] = pc[k]
      /\ \A k \in Nodes : entered'[k] \in Nat /\ entered[k] <= entered'[k]
      /\ \A j, k \in Nodes : DataIn(wire[j][k])' = DataIn(wire[j][k])
  BY <1>1, <1>2, EnterOrExit
<1>5. Waiting(n) = LocalThreads(n) \ {t}
  <2>1. Waiting(n) \in SUBSET (LocalThreads(n) \ {t})
    BY <1>1
  <2>2. Cardinality(Waiting(n)) \in Nat /\ NumLocalThreads(n) \in Nat
    BY <1>1, LocalCounts
  <2>3. Cardinality(Waiting(n)) = NumLocalThreads(n) - 1
    BY <1>1, <2>2
  <2>4. t \in LocalThreads(n)
    BY <1>1
  <2>5. QED
    BY <1>1, <2>1, <2>3, <2>4, AllTheOthers
<1>6. \A u \in Threads : done(u)' = done(u) /\ (u # t => InWait(u)' = InWait(u))
  BY <1>1, <1>3 DEF done, InWait
<1>7. \A u \in LocalThreads(n) \ {t} : /\ InWait(u)' /\ gen[u] = m_generation[n]
                                       /\ done(u) = m_generation[n]
  <2> TAKE u \in LocalThreads(n) \ {t}
  <2>1. InWait(u) /\ gen[u] = m_generation[n] /\ u \in Threads /\ NodeOf[u] = n
    BY <1>5 DEF Waiting, LocalThreads
  <2>2. ThreadOK(u, n)
    BY <2>1 DEF ChannelInv, ThreadsInv, ThreadInv
  <2>3. QED
    BY <1>6, <2>1, <2>2 DEF ThreadOK
<1>8. ThreadsInv'
  <2>1. ChannelTyped'
    <3>1. m_count' \in [Nodes -> Int] /\ gen' \in [Threads -> Nat]
      <4>1. NumLocalThreads(n) \in Int
        BY <1>1, LocalCounts
      <4>2. QED
        BY <1>1, <1>2, <4>1 DEF ChannelTyped
    <3>2. m_generation' \in [Nodes -> Nat]
      BY <1>1, <1>2 DEF ChannelTyped
    <3>3. QED
      BY <1>1, <1>2, <3>1, <3>2 DEF ChannelTyped
  <2>2. MainInv'
    <3>1. MainOK(n)'
      <4>1. /\ main'[n] = "inside" /\ lock'[n] # NoThread /\ pc'[n] = "checking"
            /\ entered'[n] = m_generation'[n] + 1
        BY <1>1, <1>3, <1>4, ChannelAssumption
      <4>2. QED
        BY <4>1 DEF MainOK
    <3>2. QED
      BY <1>1, <1>3, <1>4, <3>1, MainKept
  <2>3. ThreadInv'
    <3> SUFFICES ASSUME NEW u \in Threads PROVE ThreadOK(u, NodeOf[u])'
      BY DEF ThreadInv
    <3>1. ThreadOK(u, NodeOf[u]) /\ NodeOf[u] \in Nodes
      BY Facts DEF ChannelInv, ThreadsInv, ThreadInv
    <3>2. CASE u = t
      BY <1>1, <1>3, <1>4, <1>6, <3>2 DEF ThreadOK, InWait
    <3>3. CASE u # t /\ NodeOf[u] = n
      <4>1. u \in LocalThreads(n) \ {t}
        BY <3>3 DEF LocalThreads
      <4>2. /\ InWait(u)' /\ done(u)' = m_generation[n] /\ gen'[u] = m_generation[n]
            /\ place'[u] = place[u] /\ place[u] \in {"asleep", "woken"}
        BY <1>3, <1>6, <1>7, <4>1 DEF InWait
      <4>3. QED
        BY <1>1, <1>3, <1>4, <1>6, <3>1, <3>3, <4>2 DEF ThreadOK
    <3>4. CASE u # t /\ NodeOf[u] # n
      BY <1>1, <1>3, <1>4, <1>6, <3>1, <3>4 DEF ThreadOK
    <3>5. QED
      BY <3>2, <3>3, <3>4
  <2>4. LockInv'
    <3> SUFFICES ASSUME NEW k \in Nodes, lock'[k] # NoThread
                 PROVE  /\ place'[lock'[k]] = "barrier" /\ NodeOf[lock'[k]] = k
                        /\ \A u \in LocalThreads(k) \ {lock'[k]} :
                              InWait(u)' /\ m_generation'[k] = done(u)' + 1
      BY DEF LockInv, LocalThreads
    <3>1. CASE k = n
      BY <1>3, <1>6, <1>7, <3>1 DEF LocalThreads
    <3>2. CASE k # n
      <4>1. /\ place[lock[k]] = "barrier" /\ NodeOf[lock[k]] = k /\ lock[k] \in Threads
            /\ \A u \in LocalThreads(k) \ {lock[k]} : InWait(u) /\ m_generation[k] = done(u) + 1
        BY <1>3, <3>2, Facts DEF ChannelInv, ThreadsInv, LockInv
      <4>2. \A u \in LocalThreads(k) : u \in Threads \ {t}
        BY <3>2 DEF LocalThreads
      <4>3. lock[k] \in Threads \ {t}
        BY <3>2, <4>1
      <4>4. QED
        BY <1>3, <1>6, <3>2, <4>1, <4>2, <4>3
    <3>3. QED
      BY <3>1, <3>2
  <2>5. CountInv'
    <3>1. Waiting(n)' = {}
      <4>1. ~InWait(t)'
        BY <1>3 DEF InWait
      <4>2. \A u \in LocalThreads(n) \ {t} : gen'[u] # m_generation'[n]
        BY <1>1, <1>3, <1>7 DEF LocalThreads
      <4>3. QED
        BY <4>1, <4>2 DEF Waiting, LocalThreads
    <3>2. \A k \in Nodes \ {n} : Waiting(k)' = Waiting(k)
      <4> TAKE k \in Nodes \ {n}
      <4>1. \A u \in LocalThreads(k) : u \in Threads \ {t}
        BY DEF LocalThreads
      <4>2. QED
        BY <1>3, <1>6, <4>1 DEF Waiting, LocalThreads
    <3>3. \A k \in Nodes : NumLocalThreads(k)' = NumLocalThreads(k)
      BY DEF NumLocalThreads, LocalThreads
    <3>4. m_count'[n] = NumLocalThreads(n) - Cardinality(Waiting(n)')
      <4>1. Cardinality({}) = 0 /\ NumLocalThreads(n) \in Nat
        BY <1>1, LocalCounts, FS_EmptySet
      <4>2. QED
        BY <1>3, <3>1, <4>1
    <3>5. \A k \in Nodes : m_count[k] = NumLocalThreads(k) - Cardinality(Waiting(k))
      BY DEF ChannelInv, ThreadsInv, CountInv
    <3>6. QED
      BY <1>3, <3>2, <3>3, <3>4, <3>5 DEF CountInv
  <2>6. QED
    BY <2>1, <2>2, <2>3, <2>4, <2>5 DEF ThreadsInv
<1>9. PushInv' /\ DataInv'
  <2>1. \A u \in Threads : /\ wait'[u] = wait[u] /\ step'[u] = step[u]
                           /\ queue'[u] = queue[u] /\ rets'[u] = rets[u]
                           /\ place'[u] = "popping" <=> place[u] = "popping"
                           /\ place'[u] \in {"running", "joined"} <=> place[u] \in {"running", "joined"}
    BY <1>1, <1>3
  <2>2. {} \in SUBSET Threads
    OBVIOUS
  <2>3. QED
    BY <1>1, <1>4, <2>1, <2>2, DataKept
<1>10. QED
  BY <1>4, <1>8, <1>9 DEF ChannelInv

\* The Barrier of the last thread returns: it wakes all that sleep and goes on.
LEMMA LeaveWaitKeeps ==
    ASSUME ChannelInv, NEW t \in Threads, LeaveWait(t)
    PROVE  ChannelInv'
<1> DEFINE n == NodeOf[t]
<1>1. /\ place[t] = "barrier" /\ Return(n) /\ PassWait(t, Sleepers(n))
      /\ lock' = [lock EXCEPT ![n] = NoThread]
      /\ UNCHANGED <<main, queue, rets, m_count, m_generation, gen, pushed>>
  BY DEF LeaveWait, Woken
<1>2. /\ n \in Nodes /\ ChannelTyped /\ MainOK(n) /\ ThreadOK(t, n) /\ LockInv /\ CountInv
      /\ done(t) \in Nat
  BY Facts DEF ChannelInv, ThreadsInv, MainInv, ThreadInv
<1>3. /\ lock[n] = t /\ m_generation[n] = done(t) + 1 /\ main[n] = "inside"
      /\ entered[n] = m_generation[n] + 1
  <2>1. lock[n] = t /\ m_generation[n] = done(t) + 1
    BY <1>1, <1>2 DEF ThreadOK
  <2>2. main[n] = "inside"
    BY <1>2, <2>1, ChannelAssumption DEF MainOK
  <2>3. QED
    BY <1>2, <2>1, <2>2 DEF MainOK
<1>4. /\ BarrierInv(ChannelMessage)' /\ aborted' = FALSE /\ UNCHANGED entered
      /\ pc'[n] = "running" /\ entered[n] = left[n] + 1 /\ left'[n] = left[n] + 1
      /\ \A k \in Nodes : k # n => left'[k] = left[k] /\ pc'[k] = pc[k]
      /\ \A k \in Nodes : /\ left'[k] \in Nat /\ left[k] <= left'[k]
                          /\ entered'[k] \in Nat /\ entered[k] <= entered'[k]
      /\ \A j, k \in Nodes : DataIn(wire[j][k])' = DataIn(wire[j][k])
  BY <1>1, <1>2, ReturnFacts
<1>5. /\ place'[t] \in {"popping", "running"} /\ done(t)' = done(t) + 1
      /\ place'[t] = "popping" => wait'[t] = 2
      /\ place'[t] = "running" => wait'[t] = 1
      /\ \A u \in Threads \ {t} : /\ place'[u] = IF u \in Sleepers(n) THEN "woken" ELSE place[u]
                                  /\ wait'[u] = wait[u] /\ step'[u] = step[u]
      /\ place' \in [Threads -> {"idle", "running", "arriving", "asleep", "woken",
                                 "barrier", "popping", "joined"}]
      /\ wait' \in [Threads -> {1, 2}] /\ step' \in [Threads -> Nat]
      /\ OnWire(t)' = OnWire(t) => DataOK(t)'
  <2> DEFINE T == Sleepers(n)
  <2>1. PassWait(t, T)
    BY <1>1
  <2> HIDE DEF T
  <2>2. /\ place'[t] \in {"popping", "running"} /\ done(t)' = done(t) + 1
        /\ place'[t] = "popping" => wait'[t] = 2
        /\ place'[t] = "running" => wait'[t] = 1
        /\ \A u \in Threads \ {t} : /\ place'[u] = IF u \in T THEN "woken" ELSE place[u]
                                    /\ wait'[u] = wait[u] /\ step'[u] = step[u]
        /\ place' \in [Threads -> {"idle", "running", "arriving", "asleep", "woken",
                                   "barrier", "popping", "joined"}]
        /\ wait' \in [Threads -> {1, 2}] /\ step' \in [Threads -> Nat]
        /\ OnWire(t)' = OnWire(t) => DataOK(t)'
    BY <1>1, <2>1, WaitPassed
  <2>3. QED
    BY <2>2 DEF T
<1>6. \A u \in Threads \ {t} :
         /\ InWait(u)' = InWait(u) /\ done(u)' = done(u)
         /\ \/ place'[u] = place[u]
            \/ NodeOf[u] = n /\ place[u] = "asleep" /\ place'[u] = "woken"
  <2> TAKE u \in Threads \ {t}
  <2>1. wait'[u] = wait[u] /\ step'[u] = step[u]
    BY <1>5
  <2>2. \/ place'[u] = place[u]
        \/ NodeOf[u] = n /\ place[u] = "asleep" /\ place'[u] = "woken"
    BY <1>5 DEF Sleepers, LocalThreads
  <2>3. InWait(u)' = InWait(u)
    BY <2>2 DEF InWait
  <2>4. QED
    BY <2>1, <2>2, <2>3 DEF done
<1>7. lock'[n] = NoThread /\ \A k \in Nodes : k # n => lock'[k] = lock[k]
  BY <1>1, <1>2 DEF ChannelTyped
<1>8. ThreadsInv'
  <2>1. ChannelTyped'
    <3>1. lock' \in [Nodes -> Threads \cup {NoThread}]
      BY <1>1, <1>2 DEF ChannelTyped
    <3>2. QED
      BY <1>1, <1>2, <1>5, <3>1 DEF ChannelTyped
  <2>2. MainInv'
    <3>1. MainOK(n)'
      BY <1>1, <1>3, <1>4, <1>7 DEF MainOK
    <3>2. QED
      BY <1>1, <1>2, <1>4, <1>7, <3>1, MainKept
  <2>3. ThreadInv'
    <3> SUFFICES ASSUME NEW u \in Threads PROVE ThreadOK(u, NodeOf[u])'
      BY DEF ThreadInv
    <3>1. /\ ThreadOK(u, NodeOf[u]) /\ NodeOf[u] \in Nodes /\ done(u) \in Nat
          /\ left[NodeOf[u]] \in Nat
      BY Facts DEF ChannelInv, ThreadsInv, ThreadInv
    <3>2. CASE u = t
      <4>1. done(t)' = m_generation[n] /\ done(t)' + 1 <= left'[n]
        BY <1>2, <1>3, <1>4, <1>5
      <4>2. QED
        BY <1>1, <1>3, <1>5, <3>2, <4>1 DEF ThreadOK, InWait
    <3>3. CASE u # t
      <4>1. done(u) + 1 <= left[NodeOf[u]] => done(u) + 1 <= left'[NodeOf[u]]
        BY <1>4, <3>1
      <4>2. place[u] # "barrier" \/ lock'[NodeOf[u]] = lock[NodeOf[u]]
        BY <1>3, <1>7, <3>1, <3>3 DEF ThreadOK
      <4>3. /\ done(u)' = done(u) /\ InWait(u)' = InWait(u) /\ wait'[u] = wait[u]
            /\ gen'[u] = gen[u] /\ UNCHANGED <<main, m_generation>>
        BY <1>1, <1>5, <1>6, <3>3
      <4>4. CASE place'[u] = place[u]
        BY <3>1, <4>1, <4>2, <4>3, <4>4 DEF ThreadOK
      <4>5. CASE place[u] = "asleep" /\ place'[u] = "woken"
        BY <3>1, <4>1, <4>3, <4>5 DEF ThreadOK, InWait
      <4>6. QED
        BY <1>6, <3>3, <4>4, <4>5
    <3>4. QED
      BY <3>2, <3>3
  <2>4. LockInv'
    <3> SUFFICES ASSUME NEW k \in Nodes, lock'[k] # NoThread
                 PROVE  /\ place'[lock'[k]] = "barrier" /\ NodeOf[lock'[k]] = k
                        /\ \A u \in LocalThreads(k) \ {lock'[k]} :
                              InWait(u)' /\ m_generation'[k] = done(u)' + 1
      BY DEF LockInv, LocalThreads
    <3>1. k # n /\ lock'[k] = lock[k]
      BY <1>7
    <3>2. /\ place[lock[k]] = "barrier" /\ NodeOf[lock[k]] = k /\ lock[k] \in Threads
          /\ \A u \in LocalThreads(k) \ {lock[k]} : InWait(u) /\ m_generation[k] = done(u) + 1
      BY <1>2, <3>1, Facts DEF LockInv
    <3>3. \A u \in LocalThreads(k) : u \in Threads \ {t}
      BY <3>1 DEF LocalThreads
    <3>4. lock[k] \in Threads \ {t}
      BY <3>1, <3>2
    <3>5. QED
      BY <1>1, <1>6, <3>1, <3>2, <3>3, <3>4
  <2>5. CountInv'
    <3>1. ~InWait(t) /\ ~InWait(t)'
      BY <1>1, <1>5 DEF InWait
    <3>2. \A u \in Threads : InWait(u)' <=> InWait(u)
      BY <1>6, <3>1
    <3>3. \A k \in Nodes : Waiting(k)' = Waiting(k)
      BY <1>1, <3>2 DEF Waiting, LocalThreads
    <3>4. QED
      BY <1>1, <1>2, <3>3 DEF CountInv
  <2>6. QED
    BY <2>1, <2>2, <2>3, <2>4, <2>5 DEF ThreadsInv
<1>9. PushInv' /\ DataInv'
  <2>1. \A u \in Threads \ {t} :
           /\ wait'[u] = wait[u] /\ step'[u] = step[u]
           /\ queue'[u] = queue[u] /\ rets'[u] = rets[u]
           /\ place'[u] = "popping" <=> place[u] = "popping"
           /\ place'[u] \in {"running", "joined"} <=> place[u] \in {"running", "joined"}
    BY <1>1, <1>5, <1>6
  <2>2. {t} \in SUBSET Threads
    OBVIOUS
  <2>3. \A u \in {t} : OnWire(u)' = OnWire(u) => DataOK(u)'
    BY <1>5
  <2>4. QED
    BY <1>1, <1>4, <2>1, <2>2, <2>3, DataKept
<1>10. QED
  BY <1>4, <1>8, <1>9 DEF ChannelInv

-----------------------------------------------------------------------------
(* Data                                                                    *)

\* A thread that pushes is in a superstep that no other node has left: the push
\* is one that its receiver has still to pop.
LEMMA PushIsNew ==
    ASSUME ChannelInv, NEW t \in Threads, NEW u \in Threads, place[t] = "running"
    PROVE  /\ \A n \in Nodes : 2 * step[t] + 1 <= entered[n]
           /\ step[u] <= step[t] /\ NextToPop(u) <= step[t]
<1> DEFINE m == NodeOf[t]
           n == NodeOf[u]
<1>1. /\ m \in Nodes /\ n \in Nodes /\ step[t] \in Nat /\ step[u] \in Nat /\ wait[u] \in {1, 2}
      /\ \A j, k \in Nodes : left[k] \in Nat /\ entered[k] \in Nat /\ left[j] <= entered[k]
  BY Facts
<1>2. entered[m] = 2 * step[t] + 1 /\ left[m] = 2 * step[t] + 1
  BY ActiveThread, StepOfThread
<1>3. \A k \in Nodes : 2 * step[t] + 1 <= entered[k]
  BY <1>1, <1>2
<1>4. done(u) <= 2 * step[t]
  <2>1. left[n] <= 2 * step[t] + 1
    BY <1>1, <1>2
  <2>2. done(u) = 0 \/ done(u) + 1 <= left[n]
    BY StepOfThread
  <2>3. done(u) \in Nat /\ left[n] \in Nat
    BY <1>1, Facts
  <2>4. QED
    BY <1>1, <2>1, <2>2, <2>3
<1>5. 2 * step[u] + wait[u] - 1 <= 2 * step[t]
  BY <1>4 DEF done
<1>6. QED
  BY <1>1, <1>3, <1>5 DEF NextToPop

LEMMA PushToKeeps ==
    ASSUME ChannelInv, NEW t \in Threads, NEW u \in Threads, PushTo(t, u)
    PROVE  ChannelInv'
<1> DEFINE m == NodeOf[t]
           n == NodeOf[u]
           push == [to |-> u, step |-> step[t], id |-> unsent]
           x == [flag |-> "kData", version |-> entered[m], push |-> push]
<1>1. /\ place[t] = "running" /\ step[t] < MaxSteps /\ unsent > 0
      /\ pushed' = pushed \cup {push}
      /\ wire' = [wire EXCEPT ![m][n] = Append(@, x)]
      /\ unsent' = unsent - 1
      /\ UNCHANGED <<pc, entered, left, counts, aborted, main, threadVars, waitVars>>
      /\ UNCHANGED <<place, wait, step, queue, rets, m_count, m_generation, gen, lock>>
  BY DEF PushTo, threadVars, waitVars
<1>2. /\ m \in Nodes /\ n \in Nodes /\ step[t] \in Nat /\ ChannelTyped
      /\ NetInv(ChannelMessage) /\ NetTyped(ChannelMessage)
      /\ MainInv /\ PushInv /\ DataInv /\ aborted = FALSE
  BY Facts DEF ChannelInv, ThreadsInv, NetInv
<1>3. push \in Pushes /\ x \in ChannelMessage
  <2>1. step[t] \in 0 .. MaxSteps - 1 /\ unsent \in 1 .. MaxData /\ entered[m] \in 0 .. MaxBarriers
    <3>1. step[t] < MaxSteps /\ unsent > 0
      BY <1>1
    <3>2. /\ unsent \in 0 .. MaxData /\ entered \in [Nodes -> 0 .. MaxBarriers]
          /\ step[t] \in Nat /\ m \in Nodes
      BY <1>2 DEF NetTyped
    <3>3. step[t] \in 0 .. MaxSteps - 1
      BY <3>1, <3>2, ChannelAssumption
    <3>4. unsent \in 1 .. MaxData
      BY <3>1, <3>2, MailboxAssumption
    <3>5. entered[m] \in 0 .. MaxBarriers
      BY <3>2
    <3>6. QED
      BY <3>3, <3>4, <3>5
  <2>2. push \in Pushes
    BY <2>1 DEF Pushes
  <2> HIDE DEF push
  <2>3. x \in [flag : {"kData"}, version : 0 .. MaxBarriers, push : Pushes]
    BY <2>1, <2>2
  <2> HIDE DEF x
  <2>4. QED
    BY <2>2, <2>3 DEF ChannelMessage
<1>4. /\ x.flag = "kData" /\ x.push = push /\ x.version = entered[m]
      /\ push.to = u /\ push.step = step[t]
  OBVIOUS
<1> HIDE DEF push, x
<1>5. /\ entered[m] = 2 * step[t] + 1 /\ pc[m] = "running"
      /\ \A k \in Nodes : 2 * step[t] + 1 <= entered[k]
      /\ step[u] <= step[t] /\ NextToPop(u) <= step[t]
  BY <1>1, ActiveThread, StepOfThread, PushIsNew
<1>6. NetInv(ChannelMessage)' /\ \A j, k \in Nodes : Heard(j, k)' = Heard(j, k)
  <2>1. unsent' \in 0 .. MaxData
    <3>1. unsent > 0 /\ unsent' = unsent - 1
      BY <1>1
    <3>2. unsent \in 0 .. MaxData
      BY <1>2 DEF NetTyped
    <3>3. QED
      BY <3>1, <3>2, MailboxAssumption
  <2>2. pc[m] \notin {"joining", "stopped"}
    BY <1>5
  <2>3. QED
    BY <1>1, <1>2, <1>3, <1>4, <2>1, <2>2, SendKeeps, ChannelMessageDated
<1>7. BarrierInv(ChannelMessage)' /\ aborted' = FALSE
  <2>1. \A k \in Nodes : pc'[k] = "waiting" => pc[k] = "waiting" \/ ~Complete(k)
    BY <1>1
  <2>2. QED
    BY <1>1, <1>2, <1>6, <2>1, QuietKeeps DEF ChannelInv
<1>8. \A j, k \in Nodes : wire[j][k] \in Seq(ChannelMessage)
  BY <1>2 DEF NetTyped
<1>9. \A j, k \in Nodes : DataIn(wire[j][k])' =
          IF j = m /\ k = n THEN DataIn(wire[j][k]) \cup {x} ELSE DataIn(wire[j][k])
  <2> TAKE j, k \in Nodes
  <2>1. CASE j = m /\ k = n
    <3>1. wire'[j][k] = Append(wire[j][k], x)
      BY <1>1, <1>2, <2>1 DEF NetTyped
    <3>2. DataIn(Append(wire[j][k], x)) = DataIn(wire[j][k]) \cup {x}
      BY <1>3, <1>4, <1>8, DataInAppend
    <3>3. QED
      BY <2>1, <3>1, <3>2
  <2>2. CASE ~(j = m /\ k = n)
    <3>1. wire'[j][k] = wire[j][k]
      BY <1>1, <1>2, <2>2 DEF NetTyped
    <3>2. QED
      BY <2>2, <3>1
  <2>3. QED
    BY <2>1, <2>2
<1>10. ThreadsInv'
  <2>1. ChannelTyped'
    <3>1. pushed' \in SUBSET Pushes
      BY <1>1, <1>2, <1>3 DEF ChannelTyped
    <3>2. QED
      BY <1>1, <1>2, <3>1 DEF ChannelTyped
  <2>2. MainInv'
    BY <1>1, <1>2 DEF MainInv, MainOK
  <2>3. \A k \in Nodes : left'[k] \in Nat /\ left[k] <= left'[k]
    BY <1>1, Facts
  <2>4. QED
    BY <1>1, <2>1, <2>2, <2>3, ThreadsAlike
<1>11. PushInv'
  <2>1. \A p \in pushed' : \A k \in Nodes : 2 * p.step + 1 <= entered'[k]
    BY <1>1, <1>2, <1>4, <1>5 DEF PushInv
  <2>2. \A j, k \in Nodes : \A y \in DataIn(wire[j][k])' :
           y.push \in pushed' /\ NodeOf[y.push.to] = k /\ y.version = 2 * y.push.step + 1
    <3> TAKE j, k \in Nodes
    <3>1. \A y \in DataIn(wire[j][k]) :
             y.push \in pushed /\ NodeOf[y.push.to] = k /\ y.version = 2 * y.push.step + 1
      BY <1>2 DEF PushInv
    <3>2. push \in pushed' /\ pushed \subseteq pushed'
      BY <1>1
    <3>3. NodeOf[x.push.to] = n /\ x.version = 2 * x.push.step + 1 /\ x.push \in pushed'
      BY <1>4, <1>5, <3>2
    <3>4. QED
      BY <1>9, <3>1, <3>2, <3>3
  <2>3. QED
    BY <2>1, <2>2 DEF PushInv
<1>12. DataInv'
  <2> SUFFICES ASSUME NEW v \in Threads PROVE DataOK(v)'
    BY DEF DataInv
  <2>1. /\ Queued(v)' = Queued(v) /\ NextToPop(v)' = NextToPop(v) /\ DataOK(v)
    BY <1>1, <1>2 DEF Queued, NextToPop, DataInv
  <2>2. CASE v # u
    <3>1. OnWire(v)' = OnWire(v)
      <4>1. \A p \in pushed' : p.to = v => p \in pushed /\ p # push
        BY <1>1, <1>4, <2>2
      <4>2. \A p : p # push => \A j, k \in Nodes :
               (\E y \in DataIn(wire[j][k])' : y.push = p) <=> (\E y \in DataIn(wire[j][k]) : y.push = p)
        <5> TAKE p
        <5> SUFFICES ASSUME p # push, NEW j \in Nodes, NEW k \in Nodes
                     PROVE  (\E y \in DataIn(wire[j][k])' : y.push = p)
                               <=> (\E y \in DataIn(wire[j][k]) : y.push = p)
          OBVIOUS
        <5>1. x.push # p
          BY <1>4
        <5>2. \/ DataIn(wire[j][k])' = DataIn(wire[j][k])
              \/ DataIn(wire[j][k])' = DataIn(wire[j][k]) \cup {x}
          BY <1>9
        <5>3. QED
          BY <5>1, <5>2
      <4>3. \A p \in pushed : p \in pushed'
        BY <1>1
      <4>4. QED
        BY <4>1, <4>2, <4>3, Facts DEF OnWire
    <3>2. \A k : PushedFrom(v, k)' = PushedFrom(v, k) /\ PushedIn(v, k)' = PushedIn(v, k)
      BY <1>1, <1>4, <2>2 DEF PushedFrom, PushedIn
    <3>3. QED
      BY <1>1, <2>1, <3>1, <3>2 DEF DataOK
  <2>3. CASE v = u
    <3>1. OnWire(v)' = OnWire(v) \cup {push}
      <4>1. NodeOf[v] = n
        BY <2>3
      <4>2. \A j \in Nodes : DataIn(wire[j][n]) \subseteq DataIn(wire[j][n])'
        BY <1>2, <1>9
      <4>3. x \in DataIn(wire[m][n])'
        BY <1>2, <1>9
      <4>4. push \in pushed' /\ push.to = v
        BY <1>1, <1>4, <2>3
      <4>5. push \in OnWire(v)'
        BY <1>2, <1>4, <4>1, <4>3, <4>4 DEF OnWire
      <4>6. OnWire(v) \subseteq OnWire(v)'
        BY <1>1, <4>1, <4>2 DEF OnWire
      <4>7. OnWire(v)' \subseteq OnWire(v) \cup {push}
        <5> SUFFICES ASSUME NEW p \in OnWire(v)', p # push PROVE p \in OnWire(v)
          OBVIOUS
        <5>1. p \in pushed /\ p.to = v
          BY <1>1 DEF OnWire
        <5>2. PICK j \in Nodes : \E y \in DataIn(wire[j][n])' : y.push = p
          BY <4>1 DEF OnWire
        <5>3. \E y \in DataIn(wire[j][n]) : y.push = p
          BY <1>2, <1>4, <1>9, <5>2
        <5>4. QED
          BY <4>1, <5>1, <5>3 DEF OnWire
      <4>8. QED
        BY <4>5, <4>6, <4>7
    <3>2. \A k : k <= step[t] => PushedFrom(v, k)' = PushedFrom(v, k) \cup {push}
      BY <1>1, <1>4, <2>3 DEF PushedFrom
    <3>3. \A k \in Int : k < step[t] => PushedIn(v, k)' = PushedIn(v, k)
      BY <1>1, <1>2, <1>4 DEF PushedIn
    <3>4. /\ step[v] <= step[t] /\ NextToPop(v) <= step[t]
          /\ NextToPop(v) - 1 \in Int /\ NextToPop(v) - 1 < step[t]
      BY <1>2, <1>5, <2>3, Facts DEF NextToPop
    <3>5. /\ PushedFrom(v, step[v])' = PushedFrom(v, step[v]) \cup {push}
          /\ PushedFrom(v, NextToPop(v))' = PushedFrom(v, NextToPop(v)) \cup {push}
          /\ PushedIn(v, NextToPop(v) - 1)' = PushedIn(v, NextToPop(v) - 1)
      <4>1. PushedFrom(v, step[v])' = PushedFrom(v, step[v]) \cup {push}
        BY <1>1, <3>2, <3>4 DEF PushedFrom
      <4>2. PushedFrom(v, NextToPop(v))' = PushedFrom(v, NextToPop(v)) \cup {push}
        BY <2>1, <3>2, <3>4 DEF PushedFrom
      <4>3. PushedIn(v, NextToPop(v) - 1)' = PushedIn(v, NextToPop(v) - 1)
        BY <2>1, <3>3, <3>4 DEF PushedIn
      <4>4. QED
        BY <4>1, <4>2, <4>3
    <3>6. CASE place[v] = "popping"
      <4>1. OnWire(v) \cup Queued(v) \cup rets[v] = PushedFrom(v, step[v])
        BY <2>1, <3>6 DEF DataOK
      <4>2. (OnWire(v) \cup Queued(v) \cup rets[v])' = PushedFrom(v, step[v])'
        BY <1>1, <2>1, <3>1, <3>5, <4>1
      <4>3. QED
        BY <1>1, <3>6, <4>2 DEF DataOK
    <3>7. CASE place[v] # "popping"
      <4>1. /\ OnWire(v) \cup Queued(v) = PushedFrom(v, NextToPop(v))
            /\ rets[v] = IF wait[v] = 2 \/ place[v] \in {"running", "joined"}
                         THEN PushedIn(v, NextToPop(v) - 1) ELSE {}
        BY <2>1, <3>7 DEF DataOK
      <4>2. (OnWire(v) \cup Queued(v))' = PushedFrom(v, NextToPop(v))'
        BY <2>1, <3>1, <3>5, <4>1
      <4>3. QED
        BY <1>1, <3>5, <3>7, <4>1, <4>2 DEF DataOK
    <3>8. QED
      BY <3>6, <3>7
  <2>4. QED
    BY <2>2, <2>3
<1>13. QED
  BY <1>7, <1>10, <1>11, <1>12 DEF ChannelInv

\* Nobody pushes to a channel that is not made yet, or destroyed.
LEMMA PushIsExpected ==
    ASSUME ChannelInv, NEW m \in Nodes, NEW n \in Nodes, Received(m, n, "kData")
    PROVE  /\ Registered(n)
           /\ wire[m][n] \in Seq(ChannelMessage) /\ wire[m][n] # <<>>
           /\ wire'[m][n] = Tail(wire[m][n])
           /\ \A j, k \in Nodes : ~(j = m /\ k = n) => wire'[j][k] = wire[j][k]
           /\ LET x == Head(wire[m][n]) IN
              /\ x.push \in pushed /\ x.push \in Pushes /\ NodeOf[x.push.to] = n
              /\ x.version = 2 * x.push.step + 1
              /\ DataIn(wire[m][n]) = DataIn(Tail(wire[m][n])) \cup {x}
<1> DEFINE x == Head(wire[m][n])
<1>1. /\ wire \in [Nodes -> [Nodes -> Seq(ChannelMessage)]]
      /\ MainOK(n) /\ PushInv /\ ChannelTyped /\ entered[n] \in Nat
  BY Facts DEF ChannelInv, ThreadsInv, MainInv, NetInv, NetTyped
<1>2. /\ pc[n] # "stopped" /\ wire[m][n] # <<>> /\ x.flag = "kData"
      /\ wire' = [wire EXCEPT ![m][n] = Tail(@)]
  BY DEF Received
<1>3. /\ wire[m][n] \in Seq(ChannelMessage)
      /\ wire'[m][n] = Tail(wire[m][n])
      /\ \A j, k \in Nodes : ~(j = m /\ k = n) => wire'[j][k] = wire[j][k]
  BY <1>1, <1>2
<1>4. DataIn(wire[m][n]) = DataIn(Tail(wire[m][n])) \cup {x}
  BY <1>2, <1>3, DataInTail
<1> HIDE DEF x
<1>5. /\ x.push \in pushed /\ NodeOf[x.push.to] = n /\ x.version = 2 * x.push.step + 1
  BY <1>1, <1>4 DEF PushInv
<1>6. x.push \in Pushes /\ x.push.step \in Nat
  BY <1>1, <1>5, ChannelAssumption DEF ChannelTyped, Pushes
<1>7. 2 * x.push.step + 1 <= entered[n]
  BY <1>1, <1>5 DEF PushInv
<1>8. Registered(n)
  <2>1. main[n] # "outside"
    <3>1. entered[n] # 0
      BY <1>1, <1>6, <1>7
    <3>2. QED
      BY <1>1, <3>1 DEF MainOK
  <2>2. main[n] # "destroyed"
    BY <1>1, <1>2 DEF MainOK
  <2>3. QED
    BY <2>1, <2>2 DEF Registered
<1>9. QED
  BY <1>2, <1>3, <1>4, <1>5, <1>6, <1>8 DEF x

\* A push goes from the wire to the queue.
LEMMA DeliverKeeps ==
    ASSUME ChannelInv, NEW m \in Nodes, NEW n \in Nodes, Deliver(m, n)
    PROVE  ChannelInv'
<1> DEFINE x == Head(wire[m][n])
           u == x.push.to
<1>1. /\ Registered(n)
      /\ wire[m][n] \in Seq(ChannelMessage) /\ wire[m][n] # <<>>
      /\ wire'[m][n] = Tail(wire[m][n])
      /\ \A j, k \in Nodes : ~(j = m /\ k = n) => wire'[j][k] = wire[j][k]
      /\ x.push \in pushed /\ x.push \in Pushes /\ NodeOf[u] = n
      /\ x.version = 2 * x.push.step + 1
      /\ DataIn(wire[m][n]) = DataIn(Tail(wire[m][n])) \cup {x}
  BY PushIsExpected DEF Deliver
<1>2. /\ queue' = [queue EXCEPT ![u] = Append(@, x.push)] /\ aborted' = FALSE
      /\ UNCHANGED <<pc, entered, left, unsent, counts, main, place, wait, step, rets,
                     waitVars, pushed>>
      /\ UNCHANGED <<m_count, m_generation, gen, lock>>
  BY <1>1 DEF Deliver, waitVars
<1>3. /\ ChannelTyped /\ MainInv /\ PushInv /\ DataInv /\ u \in Threads
      /\ queue[u] \in Seq(Pushes)
  BY <1>1 DEF ChannelInv, ThreadsInv, ChannelTyped, Pushes
<1>4. NetInv(ChannelMessage)' /\ \A j, k \in Nodes : Heard(j, k)' = Heard(j, k)
  <2>1. Received(m, n, "kData")
    BY DEF Deliver
  <2>2. QED
    BY <1>2, <2>1, Facts, ReceiveDataKeeps, ChannelMessageDated
<1> HIDE DEF u, x
<1>5. BarrierInv(ChannelMessage)'
  <2>1. \A k \in Nodes : pc'[k] = "waiting" => pc[k] = "waiting" \/ ~Complete(k)
    BY <1>2
  <2>2. QED
    BY <1>2, <1>4, <2>1, QuietKeeps DEF ChannelInv
<1>6. /\ queue'[u] = Append(queue[u], x.push)
      /\ \A v \in Threads : v # u => queue'[v] = queue[v]
  BY <1>2, <1>3 DEF ChannelTyped
<1>7. ThreadsInv'
  <2>1. ChannelTyped'
    <3>1. Append(queue[u], x.push) \in Seq(Pushes)
      BY <1>1, <1>3, PushOne
    <3>2. queue' \in [Threads -> Seq(Pushes)]
      BY <1>2, <1>3, <3>1 DEF ChannelTyped
    <3>3. QED
      BY <1>2, <1>3, <3>2 DEF ChannelTyped
  <2>2. MainInv'
    BY <1>2, <1>3 DEF MainInv, MainOK
  <2>3. \A k \in Nodes : left'[k] \in Nat /\ left[k] <= left'[k]
    BY <1>2, Facts
  <2>4. QED
    BY <1>2, <2>1, <2>2, <2>3, ThreadsAlike
<1>8. \A j, k \in Nodes : /\ DataIn(wire[j][k])' \subseteq DataIn(wire[j][k])
                          /\ \A y \in DataIn(wire[j][k]) : y # x => y \in DataIn(wire[j][k])'
  <2> TAKE j, k \in Nodes
  <2>1. CASE j = m /\ k = n
    BY <1>1, <2>1
  <2>2. CASE ~(j = m /\ k = n)
    BY <1>1, <2>2
  <2>3. QED
    BY <2>1, <2>2
<1>9. PushInv'
  <2>1. \A p \in pushed' : \A k \in Nodes : 2 * p.step + 1 <= entered'[k]
    BY <1>2, <1>3 DEF PushInv
  <2>2. \A j, k \in Nodes : \A y \in DataIn(wire[j][k])' :
           y.push \in pushed' /\ NodeOf[y.push.to] = k /\ y.version = 2 * y.push.step + 1
    <3> TAKE j, k \in Nodes
    <3>1. \A y \in DataIn(wire[j][k]) :
             y.push \in pushed /\ NodeOf[y.push.to] = k /\ y.version = 2 * y.push.step + 1
      BY <1>3 DEF PushInv
    <3>2. QED
      BY <1>2, <1>8, <3>1
  <2>3. QED
    BY <2>1, <2>2 DEF PushInv
<1>10. DataInv'
  <2> SUFFICES ASSUME NEW v \in Threads PROVE DataOK(v)'
    BY DEF DataInv
  <2>1. /\ \A k : PushedFrom(v, k)' = PushedFrom(v, k) /\ PushedIn(v, k)' = PushedIn(v, k)
        /\ NextToPop(v)' = NextToPop(v) /\ DataOK(v) /\ NodeOf[v] \in Nodes
    BY <1>2, <1>3, Facts DEF PushedFrom, PushedIn, NextToPop, DataInv
  <2>2. OnWire(v)' \subseteq OnWire(v)
    BY <1>2, <1>8, <2>1 DEF OnWire
  <2>3. \A p \in OnWire(v) : p # x.push => p \in OnWire(v)'
    <3> SUFFICES ASSUME NEW p \in OnWire(v), p # x.push PROVE p \in OnWire(v)'
      OBVIOUS
    <3>1. PICK j \in Nodes : \E y \in DataIn(wire[j][NodeOf[v]]) : y.push = p
      BY DEF OnWire
    <3>2. PICK y \in DataIn(wire[j][NodeOf[v]]) : y.push = p
      BY <3>1
    <3>3. y \in DataIn(wire[j][NodeOf[v]])'
      BY <1>8, <2>1, <3>2
    <3>4. QED
      BY <1>2, <3>2, <3>3 DEF OnWire
  <2>4. OnWire(v)' \cup Queued(v)' = OnWire(v) \cup Queued(v)
    <3>1. CASE v # u
      <4>1. Queued(v)' = Queued(v)
        BY <1>6, <3>1 DEF Queued
      <4>2. x.push \notin OnWire(v)
        BY <3>1 DEF OnWire, u
      <4>3. QED
        BY <2>2, <2>3, <4>1, <4>2
    <3>2. CASE v = u
      <4>1. Queued(v)' = Queued(v) \cup {x.push}
        <5> DEFINE q == queue[u]
                   r == Append(q, x.push)
        <5>1. /\ Len(r) = Len(q) + 1 /\ Len(q) \in Nat
              /\ \A i \in 1 .. Len(q) : r[i] = q[i]
              /\ r[Len(q) + 1] = x.push
          BY <1>1, <1>3, PushOne
        <5>2. queue'[v] = r
          BY <1>6, <3>2
        <5> HIDE DEF r
        <5>3. {r[i] : i \in 1 .. Len(r)} = {q[i] : i \in 1 .. Len(q)} \cup {x.push}
          BY <5>1
        <5>4. Queued(v)' = {r[i] : i \in 1 .. Len(r)}
          BY <5>2 DEF Queued
        <5>5. Queued(v) = {q[i] : i \in 1 .. Len(q)}
          BY <3>2 DEF Queued
        <5> HIDE DEF q
        <5>6. QED
          BY <5>3, <5>4, <5>5
      <4>2. x.push \in OnWire(v)
        <5>1. x \in DataIn(wire[m][NodeOf[v]])
          BY <1>1, <3>2
        <5>2. x.push \in pushed /\ x.push.to = v
          BY <1>1, <3>2 DEF u
        <5>3. QED
          BY <5>1, <5>2 DEF OnWire
      <4>3. QED
        BY <2>2, <2>3, <4>1, <4>2
    <3>3. QED
      BY <3>1, <3>2
  <2>5. CASE place[v] = "popping"
    <3>1. OnWire(v) \cup Queued(v) \cup rets[v] = PushedFrom(v, step[v])
      BY <2>1, <2>5 DEF DataOK
    <3>2. OnWire(v)' \cup Queued(v)' \cup rets'[v] = PushedFrom(v, step[v])'
      BY <1>2, <2>1, <2>4, <3>1 DEF PushedFrom
    <3>3. QED
      BY <1>2, <2>5, <3>2 DEF DataOK
  <2>6. CASE place[v] # "popping"
    <3>1. /\ OnWire(v) \cup Queued(v) = PushedFrom(v, NextToPop(v))
          /\ rets[v] = IF wait[v] = 2 \/ place[v] \in {"running", "joined"}
                       THEN PushedIn(v, NextToPop(v) - 1) ELSE {}
      BY <2>1, <2>6 DEF DataOK
    <3>2. OnWire(v)' \cup Queued(v)' = PushedFrom(v, NextToPop(v))'
      BY <1>2, <2>1, <2>4, <3>1 DEF PushedFrom
    <3>3. PushedIn(v, NextToPop(v) - 1)' = PushedIn(v, NextToPop(v) - 1)
      BY <1>2, <2>1 DEF PushedIn
    <3>4. QED
      BY <1>2, <2>6, <3>1, <3>2, <3>3 DEF DataOK
  <2>7. QED
    BY <2>5, <2>6
<1>11. QED
  BY <1>2, <1>5, <1>7, <1>9, <1>10 DEF ChannelInv

-----------------------------------------------------------------------------
(* The specification                                                       *)

LEMMA InitChannelInv == ChannelInit => ChannelInv
<1> SUFFICES ASSUME ChannelInit PROVE ChannelInv
  OBVIOUS
<1>1. /\ Init
      /\ main = [n \in Nodes |-> "outside"]
      /\ place = [t \in Threads |-> "idle"]
      /\ wait = [t \in Threads |-> 1]
      /\ step = [t \in Threads |-> 0]
      /\ m_count = [n \in Nodes |-> NumLocalThreads(n)]
      /\ m_generation = [n \in Nodes |-> 0]
      /\ gen = [t \in Threads |-> 0]
      /\ lock = [n \in Nodes |-> NoThread]
      /\ queue = [t \in Threads |-> <<>>]
      /\ rets = [t \in Threads |-> {}]
      /\ pushed = {}
  BY DEF ChannelInit
<1>2. BarrierInv(ChannelMessage) /\ aborted = FALSE
  BY <1>1, InitKeeps DEF Init
<1>3. /\ wire = [m \in Nodes |-> [n \in Nodes |-> <<>>]]
      /\ pc = [n \in Nodes |-> "running"] /\ entered = [n \in Nodes |-> 0]
  BY <1>1 DEF Init, NetInit
<1>4. \A t \in Threads : NodeOf[t] \in Nodes /\ done(t) = 0 /\ ~InWait(t)
  BY <1>1, ChannelAssumption DEF done, InWait
<1>5. ThreadsInv
  <2>1. ChannelTyped
    <3>1. \A n \in Nodes : NumLocalThreads(n) \in Int
      BY LocalCounts
    <3>2. \A t \in Threads : queue[t] \in Seq(Pushes)
      BY <1>1, EmptySeq
    <3>3. /\ m_count \in [Nodes -> Int] /\ queue \in [Threads -> Seq(Pushes)]
      BY <1>1, <3>1, <3>2
    <3>4. QED
      BY <1>1, <3>3 DEF ChannelTyped
  <2>2. MainInv
    BY <1>1, <1>3 DEF MainInv, MainOK
  <2>3. ThreadInv
    BY <1>1, <1>4 DEF ThreadInv, ThreadOK
  <2>4. LockInv
    BY <1>1 DEF LockInv
  <2>5. CountInv
    <3>1. \A n \in Nodes : Waiting(n) = {}
      BY <1>4 DEF Waiting, LocalThreads
    <3>2. Cardinality({}) = 0
      BY FS_EmptySet
    <3>3. \A n \in Nodes : NumLocalThreads(n) \in Nat /\ m_count[n] = NumLocalThreads(n)
      BY <1>1, LocalCounts
    <3>4. QED
      BY <3>1, <3>2, <3>3 DEF CountInv
  <2>6. QED
    BY <2>1, <2>2, <2>3, <2>4, <2>5 DEF ThreadsInv
<1>6. PushInv
  <2>1. \A m, n \in Nodes : DataIn(wire[m][n]) = {}
    <3>1. \A m, n \in Nodes : wire[m][n] = <<>>
      BY <1>3
    <3>2. DataIn(<<>>) = {}
      BY DEF DataIn
    <3>3. QED
      BY <3>1, <3>2
  <2>2. QED
    BY <1>1, <2>1 DEF PushInv
<1>7. DataInv
  <2> SUFFICES ASSUME NEW t \in Threads PROVE DataOK(t)
    BY DEF DataInv
  <2>1. OnWire(t) = {} /\ \A k : PushedFrom(t, k) = {} /\ PushedIn(t, k) = {}
    BY <1>1 DEF OnWire, PushedFrom, PushedIn
  <2>2. Queued(t) = {}
    <3>1. queue[t] = <<>>
      BY <1>1
    <3>2. QED
      BY <3>1 DEF Queued
  <2>3. QED
    BY <1>1, <2>1, <2>2 DEF DataOK
<1>8. QED
  BY <1>2, <1>5, <1>6, <1>7 DEF ChannelInv

LEMMA StutterKeeps ==
    ASSUME ChannelInv, UNCHANGED allVars
    PROVE  ChannelInv'
<1>1. UNCHANGED vars /\ UNCHANGED channelVars /\ UNCHANGED <<main, threadVars, waitVars, pushed>>
  BY DEF allVars, channelVars
<1>2. /\ BarrierInv(ChannelMessage)' /\ aborted' = FALSE /\ UNCHANGED <<pc, entered, left>>
      /\ \A j, k \in Nodes : DataIn(wire[j][k])' = DataIn(wire[j][k])
  BY <1>1, MailboxUntouched
<1>3. QED
  BY <1>1, <1>2, NetStepKeeps

LEMMA NextChannelInv == ChannelInv /\ [ChannelNext]_allVars => ChannelInv'
<1> SUFFICES ASSUME ChannelInv, [ChannelNext]_allVars PROVE ChannelInv'
  OBVIOUS
<1>1. ASSUME NEW n \in Nodes, MainThread(n) PROVE ChannelInv'
  BY <1>1, ConstructKeeps, ConstructedKeeps, DestructKeeps, StopKeeps, StopReturnsKeeps
     DEF MainThread
<1>2. ASSUME NEW n \in Nodes, Blocks(n) \/ WakesForNothing(n) PROVE ChannelInv'
  BY <1>2, BlocksOrWakes
<1>3. ASSUME NEW t \in Threads, Thread(t) \/ SpuriousReturn(t) PROVE ChannelInv'
  <2>1. CASE Arrive(t)
    BY <2>1, ArriveSleeps, ArriveLast
  <2>2. CASE SyncAndGet(t)
    BY <2>2, SyncAndGetKeeps
  <2>3. CASE LeaveWait(t)
    BY <2>3, LeaveWaitKeeps
  <2>4. CASE WakeUp(t)
    BY <2>4, WakeUpKeeps
  <2>5. CASE Pop(t)
    BY <2>5, PopKeeps
  <2>6. CASE Popped(t)
    BY <2>6, PoppedKeeps
  <2>7. CASE SpuriousReturn(t)
    BY <2>7, SpuriousReturnKeeps
  <2>8. QED
    BY <1>3, <2>1, <2>2, <2>3, <2>4, <2>5, <2>6, <2>7 DEF Thread
<1>4. ASSUME NEW t \in Threads, NEW u \in Threads, PushTo(t, u) PROVE ChannelInv'
  BY <1>4, PushToKeeps
<1>5. ASSUME NEW m \in Nodes, NEW n \in Nodes, ReceiverThread(m, n) PROVE ChannelInv'
  BY <1>5, DeliverKeeps, ChannelReceiveBarrier, ChannelReceiveExit DEF ReceiverThread
<1>6. CASE UNCHANGED allVars
  BY <1>6, StutterKeeps
<1>7. QED
  BY <1>1, <1>2, <1>3, <1>4, <1>5, <1>6 DEF ChannelNext, AllStopped

LEMMA ChannelInvAlways == ChannelSpec => []ChannelInv
BY InitChannelInv, NextChannelInv, PTL DEF ChannelSpec

\* The CHECKs of Mailbox::Receiving hold under Channel too: no data comes for a
\* queue that is not registered, before the channel is made or after it is
\* destroyed, and no barrier message out of its round.
THEOREM ChannelNoCheckFails == ChannelSpec => []NoCheckFails
<1>1. ChannelInv => NoCheckFails
  BY DEF ChannelInv, NoCheckFails
<1>2. QED
  BY <1>1, ChannelInvAlways, PTL

\* LocalChannel::SyncAndGet returns all that the threads of all nodes pushed to
\* its thread in the superstep before, and nothing else.
THEOREM ChannelSyncExact == ChannelSpec => []SyncExact
<1>1. ChannelInv => SyncExact
  <2> SUFFICES ASSUME ChannelInv, NEW t \in Threads, place[t] \in {"running", "joined"}, step[t] > 0
               PROVE  rets[t] = {p \in pushed : p.to = t /\ p.step = step[t] - 1}
    BY DEF SyncExact
  <2>1. DataOK(t) /\ ThreadOK(t, NodeOf[t])
    BY DEF ChannelInv, DataInv, ThreadsInv, ThreadInv
  <2>2. wait[t] = 1
    BY <2>1 DEF ThreadOK
  <2>3. rets[t] = PushedIn(t, step[t] - 1)
    BY <2>1, <2>2 DEF DataOK, NextToPop
  <2>4. QED
    BY <2>3 DEF PushedIn
<1>2. QED
  BY <1>1, ChannelInvAlways, PTL

\* The Barrier that the constructor, the Waits and Stop call is still one: each
\* step of the channel is a call or a return of Rendezvous, or none.
THEOREM ChannelIsBarrier == ChannelSpec => IsBarrier
<1>1. ChannelInit => Round!Init
  BY DEF ChannelInit, Init, NetInit, Round!Init
<1>2. ChannelInv /\ [ChannelNext]_allVars => [Round!Next]_(Round!vars)
  <2> SUFFICES ASSUME ChannelInv, [ChannelNext]_allVars PROVE [Round!Next]_(Round!vars)
    OBVIOUS
  <2>1. ASSUME NEW n \in Nodes, EnterBarrier(n) PROVE Round!Next
    <3>1. pc[n] = "running" /\ entered[n] = left[n]
      BY <2>1, Facts DEF EnterBarrier
    <3>2. Round!Enter(n)
      BY <2>1, <3>1 DEF EnterBarrier, Round!Enter
    <3>3. QED
      BY <3>2 DEF Round!Next
  <2>2. ASSUME NEW n \in Nodes, Return(n) PROVE Round!Next
    <3>1. \A m \in Nodes : left[n] < Heard(m, n) /\ left[n] < entered[m]
      BY <2>2, ReturnKeeps, ChannelMessageDated DEF ChannelInv
    <3>2. Round!Leave(n)
      BY <2>2, <3>1 DEF Return, LeaveBarrier, Round!Leave
    <3>3. QED
      BY <3>2 DEF Round!Next
  <2>3. CASE UNCHANGED <<entered, left>>
    BY <2>3 DEF Round!vars
  <2>4. ASSUME NEW n \in Nodes, MainThread(n) PROVE [Round!Next]_(Round!vars)
    BY <2>1, <2>2, <2>3, <2>4
       DEF MainThread, Construct, Constructed, Destruct, Stop, StopReturns, SendExit, vars, netVars
  <2>5. ASSUME NEW n \in Nodes, Blocks(n) \/ WakesForNothing(n) PROVE UNCHANGED <<entered, left>>
    BY <2>5 DEF Blocks, WakesForNothing, Block, SpuriousWakeup
  <2>6. ASSUME NEW t \in Threads, Thread(t) \/ SpuriousReturn(t)
        PROVE  [Round!Next]_(Round!vars)
    <3>1. NodeOf[t] \in Nodes
      BY Facts
    <3>2. CASE SyncAndGet(t) \/ WakeUp(t) \/ Pop(t) \/ Popped(t) \/ SpuriousReturn(t)
      BY <2>3, <3>2 DEF SyncAndGet, WakeUp, Pop, Popped, SpuriousReturn, vars, netVars
    <3>3. CASE Arrive(t)
      BY <2>1, <2>3, <3>1, <3>3 DEF Arrive, netVars
    <3>4. CASE LeaveWait(t)
      BY <2>2, <3>1, <3>4 DEF LeaveWait
    <3>5. QED
      BY <2>6, <3>2, <3>3, <3>4 DEF Thread
  <2>7. ASSUME NEW t \in Threads, NEW u \in Threads, PushTo(t, u) PROVE UNCHANGED <<entered, left>>
    BY <2>7 DEF PushTo
  <2>8. ASSUME NEW m \in Nodes, NEW n \in Nodes, ReceiverThread(m, n) PROVE UNCHANGED <<entered, left>>
    BY <2>8 DEF ReceiverThread, Deliver, ReceiveBarrier, ReceiveExit
  <2>9. CASE UNCHANGED allVars
    BY <2>3, <2>9 DEF allVars, vars, netVars
  <2>10. QED
    BY <2>3, <2>4, <2>5, <2>6, <2>7, <2>8, <2>9 DEF ChannelNext, AllStopped
<1>3. QED
  BY <1>1, <1>2, ChannelInvAlways, PTL DEF ChannelSpec, IsBarrier, Round!Spec
=============================================================================
