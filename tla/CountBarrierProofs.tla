-------------------------- MODULE CountBarrierProofs --------------------------
(***************************************************************************)
(* The barrier of comm/: barrier_count and the calls that have returned make   *)
(* up the number of calls the node has heard of.  A call can be taken for one   *)
(* of another node or round, but as no node is two calls ahead, there are not   *)
(* enough of them to complete a barrier too soon.                           *)
(***************************************************************************)
EXTENDS CountBarrier, MailboxProofs

\* The first k calls of all nodes, and the calls that n has heard of.
Rounds(k) == Nodes \X (0 .. k - 1)
Calls(n) == {call \in Rounds(MaxBarriers) : call[2] < Heard(call[1], n)}

CallsCounted ==
    /\ barrier_count \in [Nodes -> Nat]
    /\ \A n \in Nodes : barrier_count[n] + Cardinality(Rounds(left[n])) = Cardinality(Calls(n))

NobodyAhead == \A m, n \in Nodes : left[m] <= entered[n]

IInv == NetInv(Message) /\ CallsCounted /\ NobodyAhead /\ NoLostWakeup

-----------------------------------------------------------------------------
(* Sets of calls                                                           *)

LEMMA RoundsCounted ==
    ASSUME NEW k \in Nat
    PROVE  /\ IsFiniteSet(Rounds(k)) /\ Cardinality(Rounds(k)) \in Nat
           /\ NumNodes \in Nat \ {0}
           /\ Cardinality(Rounds(k + 1)) = Cardinality(Rounds(k)) + NumNodes
           /\ Cardinality(Rounds(k + 2)) = Cardinality(Rounds(k)) + 2 * NumNodes
<1>1. IsFiniteSet(Nodes) /\ Nodes # {}
  BY MailboxAssumption
<1>2. NumNodes \in Nat /\ NumNodes # 0
  BY <1>1, FS_CardinalityType, FS_EmptySet DEF NumNodes
<1>3. \A j \in Nat : /\ IsFiniteSet(Rounds(j)) /\ Cardinality(Rounds(j)) \in Nat
                     /\ Cardinality(Rounds(j)) = NumNodes * j
  <2> SUFFICES ASSUME NEW j \in Nat
               PROVE  /\ IsFiniteSet(Rounds(j)) /\ Cardinality(Rounds(j)) \in Nat
                      /\ Cardinality(Rounds(j)) = NumNodes * j
    OBVIOUS
  <2>1. IsFiniteSet(0 .. j - 1) /\ Cardinality(0 .. j - 1) = j
    <3>1. /\ IsFiniteSet(0 .. j - 1)
          /\ Cardinality(0 .. j - 1) = IF 0 > j - 1 THEN 0 ELSE (j - 1) - 0 + 1
      BY FS_Interval
    <3>2. QED
      BY <3>1
  <2>2. IsFiniteSet(Rounds(j)) /\ Cardinality(Rounds(j)) = NumNodes * j
    BY <1>1, <2>1, FS_Product DEF Rounds, NumNodes
  <2>3. QED
    BY <2>2, FS_CardinalityType
<1>4. NumNodes * (k + 1) = NumNodes * k + NumNodes /\ NumNodes * (k + 2) = NumNodes * k + 2 * NumNodes
  BY <1>2
<1>5. k + 1 \in Nat /\ k + 2 \in Nat
  OBVIOUS
<1>6. QED
  BY <1>2, <1>3, <1>4, <1>5

\* No more calls than there are in k rounds, and fewer if one is missing.
LEMMA CallsBounded ==
    ASSUME NEW n \in Nodes, NEW k \in Nat, \A m \in Nodes : Heard(m, n) \in Nat /\ Heard(m, n) <= k
    PROVE  /\ IsFiniteSet(Calls(n)) /\ Cardinality(Calls(n)) \in Nat
           /\ Cardinality(Calls(n)) <= Cardinality(Rounds(k))
           /\ (\E m \in Nodes : Heard(m, n) < k) => Cardinality(Calls(n)) < Cardinality(Rounds(k))
<1>1. Calls(n) \in SUBSET Rounds(k)
  BY DEF Calls, Rounds
<1>2. IsFiniteSet(Rounds(k)) /\ Cardinality(Rounds(k)) \in Nat
  BY RoundsCounted
<1>3. /\ IsFiniteSet(Calls(n)) /\ Cardinality(Calls(n)) <= Cardinality(Rounds(k))
      /\ Cardinality(Rounds(k)) = Cardinality(Calls(n)) => Rounds(k) = Calls(n)
  BY <1>1, <1>2, FS_Subset
<1>4. Cardinality(Calls(n)) \in Nat
  BY <1>3, FS_CardinalityType
<1>5. ASSUME NEW m \in Nodes, Heard(m, n) < k PROVE Rounds(k) # Calls(n)
  <2>1. <<m, Heard(m, n)>> \in Rounds(k) /\ <<m, Heard(m, n)>> \notin Calls(n)
    BY <1>5 DEF Rounds, Calls
  <2>2. QED
    BY <2>1
<1>6. QED
  BY <1>2, <1>3, <1>4, <1>5

LEMMA OneRoundApart ==
    ASSUME IInv
    PROVE  \A m, n \in Nodes : /\ left[n] \in Nat /\ left[n] <= MaxBarriers /\ entered[n] \in Nat
                              /\ entered[n] <= MaxBarriers /\ MaxBarriers \in Nat
                              /\ Heard(m, n) \in Nat /\ Heard(m, n) <= entered[m]
                              /\ entered[m] <= left[m] + 1
                              /\ left[m] <= entered[n]
<1>1. NetInv(Message) /\ Dated(Message) /\ NobodyAhead
  BY MessageDated DEF IInv
<1>2. \A m, n \in Nodes : /\ left[n] \in Nat /\ entered[n] \in Nat
                         /\ Heard(m, n) \in Nat /\ Heard(m, n) <= entered[m]
  BY <1>1, NetInvParts
<1>3. \A m \in Nodes : entered[m] <= left[m] + 1
  BY <1>1, <1>2 DEF NetInv, OneAtATime
<1>4. \A n \in Nodes : left[n] <= MaxBarriers /\ entered[n] <= MaxBarriers
  BY <1>1, MailboxAssumption DEF NetInv, NetTyped
<1>5. QED
  BY <1>1, <1>2, <1>3, <1>4, MailboxAssumption DEF NobodyAhead

-----------------------------------------------------------------------------
(* The receiver counts, the barrier returns                                *)

LEMMA ReceiveBarrierKeeps ==
    ASSUME IInv, NEW m \in Nodes, NEW n \in Nodes, ReceiveBarrier(m, n)
    PROVE  IInv'
<1>1. /\ Received(m, n, "kBarrier") /\ UNCHANGED <<entered, left, unsent>>
      /\ barrier_count' = [barrier_count EXCEPT ![n] = @ + 1]
      /\ pc' = [pc EXCEPT ![n] = IF barrier_count[n] + 1 = NumNodes /\ @ = "waiting"
                                 THEN "checking" ELSE @]
  BY DEF ReceiveBarrier, Notify, Unblocks
<1>2. NetInv(Message) /\ Dated(Message) /\ CallsCounted /\ NobodyAhead /\ NoLostWakeup
  BY MessageDated DEF IInv
<1>3. pc \in [Nodes -> Places] /\ barrier_count \in [Nodes -> Nat]
  BY <1>2 DEF NetInv, NetTyped, CallsCounted
<1>4. \/ pc' = pc
      \/ /\ pc[n] = "waiting" /\ pc' = [pc EXCEPT ![n] = "checking"]
  BY <1>1, <1>3
<1>5. /\ NetInv(Message)'
      /\ \A j, k \in Nodes : <<j, k>> # <<m, n>> => Heard(j, k)' = Heard(j, k)
      /\ Heard(m, n)' = Heard(m, n) + 1
  BY <1>1, <1>2, <1>4, ReceiveKeeps
<1>6. \A j, k \in Nodes : Heard(j, k) \in Nat
  BY OneRoundApart
<1>7. Heard(m, n) \in 0 .. MaxBarriers - 1
  <2>1. Heard(m, n) + 1 <= entered[m] /\ entered[m] <= MaxBarriers
    BY <1>1, <1>2, <1>5, NetInvPartsNext, OneRoundApart
  <2>2. QED
    BY <1>6, <2>1, OneRoundApart
<1>8. Calls(n)' = Calls(n) \cup {<<m, Heard(m, n)>>} /\ <<m, Heard(m, n)>> \notin Calls(n)
  <2>1. \A call \in Rounds(MaxBarriers) : call[1] \in Nodes /\ call[2] \in Nat
    BY MailboxAssumption DEF Rounds
  <2>2. <<m, Heard(m, n)>> \in Rounds(MaxBarriers)
    BY <1>7 DEF Rounds
  <2>3. \A call \in Rounds(MaxBarriers) :
            call[2] < Heard(call[1], n)' <=> call[2] < Heard(call[1], n) \/ call = <<m, Heard(m, n)>>
    <3> SUFFICES ASSUME NEW call \in Rounds(MaxBarriers)
                 PROVE  call[2] < Heard(call[1], n)'
                            <=> call[2] < Heard(call[1], n) \/ call = <<m, Heard(m, n)>>
      OBVIOUS
    <3>1. call = <<call[1], call[2]>>
      BY DEF Rounds
    <3>2. CASE call[1] = m
      BY <1>5, <1>6, <2>1, <3>1, <3>2
    <3>3. CASE call[1] # m
      <4>1. Heard(call[1], n)' = Heard(call[1], n)
        BY <1>5, <2>1, <3>3
      <4>2. QED
        BY <3>1, <3>3, <4>1
    <3>4. QED
      BY <3>2, <3>3
  <2>4. Rounds(MaxBarriers)' = Rounds(MaxBarriers)
    BY DEF Rounds
  <2>5. <<m, Heard(m, n)>> \notin Calls(n)
    BY <1>6 DEF Calls
  <2>6. QED
    BY <2>2, <2>3, <2>4, <2>5 DEF Calls
<1>9. CallsCounted'
  <2>1. /\ barrier_count' \in [Nodes -> Nat] /\ barrier_count'[n] = barrier_count[n] + 1
        /\ \A j \in Nodes : j # n => barrier_count'[j] = barrier_count[j]
    BY <1>1, <1>3
  <2>2. Cardinality(Calls(n))' = Cardinality(Calls(n)) + 1
    <3>1. IsFiniteSet(Calls(n))
      <4>1. Calls(n) \in SUBSET Rounds(MaxBarriers) /\ MaxBarriers \in Nat
        BY MailboxAssumption DEF Calls
      <4>2. QED
        BY <4>1, RoundsCounted, FS_Subset
    <3>2. QED
      BY <1>8, <3>1, FS_AddElement
  <2>3. \A j \in Nodes : j # n => Calls(j)' = Calls(j)
    BY <1>5 DEF Calls, Rounds
  <2>4. \A j \in Nodes : barrier_count'[j] + Cardinality(Rounds(left[j])) = Cardinality(Calls(j))'
    <3> SUFFICES ASSUME NEW j \in Nodes
                 PROVE  barrier_count'[j] + Cardinality(Rounds(left[j])) = Cardinality(Calls(j))'
      OBVIOUS
    <3>1. /\ Cardinality(Rounds(left[j])) \in Nat
          /\ barrier_count[j] + Cardinality(Rounds(left[j])) = Cardinality(Calls(j))
      BY <1>2, OneRoundApart, RoundsCounted DEF CallsCounted
    <3>2. CASE j = n
      BY <1>3, <2>1, <2>2, <3>1, <3>2
    <3>3. CASE j # n
      BY <2>1, <2>3, <3>1, <3>3
    <3>4. QED
      BY <3>2, <3>3
  <2>5. \A j \in Nodes : Cardinality(Rounds(left[j]))' = Cardinality(Rounds(left[j]))
    BY <1>1 DEF Rounds
  <2>6. QED
    BY <2>1, <2>4, <2>5 DEF CallsCounted
<1>10. NoLostWakeup'
  <2> SUFFICES ASSUME NEW j \in Nodes, pc'[j] = "waiting"
               PROVE  ~(barrier_count'[j] >= NumNodes)
    BY DEF NoLostWakeup, Complete
  <2>1. pc[j] = "waiting" /\ ~(barrier_count[j] >= NumNodes)
    BY <1>2, <1>3, <1>4 DEF NoLostWakeup, Complete
  <2>2. NumNodes \in Nat
    BY RoundsCounted
  <2>3. CASE j = n
    BY <1>1, <1>3, <2>1, <2>2, <2>3
  <2>4. CASE j # n
    BY <1>1, <1>3, <2>1, <2>4
  <2>5. QED
    BY <2>3, <2>4
<1>11. QED
  BY <1>1, <1>2, <1>5, <1>9, <1>10 DEF IInv, NobodyAhead

\* If somebody's call of this round were missing, nobody could have called
\* twice more than that, and the count would be too low.
LEMMA ReturnKeeps ==
    ASSUME IInv, NEW n \in Nodes, Return(n)
    PROVE  IInv' /\ \A m \in Nodes : left[n] < entered[m]
<1>1. /\ LeaveBarrier(n, Complete(n)) /\ barrier_count[n] >= NumNodes
      /\ barrier_count' = [barrier_count EXCEPT ![n] = @ - NumNodes]
      /\ left' = [left EXCEPT ![n] = @ + 1]
      /\ pc' = [pc EXCEPT ![n] = "running"]
      /\ UNCHANGED entered
  BY DEF Return, LeaveBarrier, Complete
<1>2. NetInv(Message) /\ Dated(Message) /\ CallsCounted /\ NobodyAhead /\ NoLostWakeup
  BY MessageDated DEF IInv
<1>3. NetInv(Message)' /\ \A j, k \in Nodes : Heard(j, k)' = Heard(j, k)
  <2>1. Complete(n) \in BOOLEAN
    BY DEF Complete
  <2>2. QED
    BY <1>1, <1>2, <2>1, MainKeeps
<1>4. /\ barrier_count \in [Nodes -> Nat] /\ pc \in [Nodes -> Places]
      /\ left \in [Nodes -> 0 .. MaxBarriers]
  BY <1>2 DEF NetInv, NetTyped, CallsCounted
<1>5. /\ left[n] \in Nat /\ NumNodes \in Nat
      /\ Cardinality(Rounds(left[n])) \in Nat
      /\ Cardinality(Rounds(left[n] + 1)) = Cardinality(Rounds(left[n])) + NumNodes
  BY OneRoundApart, RoundsCounted
<1>6. \A m \in Nodes : left[n] < entered[m]
  <2> SUFFICES ASSUME NEW m \in Nodes, entered[m] <= left[n] PROVE FALSE
    BY OneRoundApart
  <2>1. \A j \in Nodes : Heard(j, n) \in Nat /\ Heard(j, n) <= left[n] + 1
    <3> TAKE j \in Nodes
    <3>1. left[j] <= entered[m]
      BY OneRoundApart
    <3>2. Heard(j, n) \in Nat /\ Heard(j, n) <= entered[j] /\ entered[j] <= left[j] + 1
      BY OneRoundApart
    <3>3. left[j] \in Nat /\ entered[j] \in Nat /\ entered[m] \in Nat
      BY OneRoundApart
    <3>4. QED
      BY <1>5, <3>1, <3>2, <3>3
  <2>2. Heard(m, n) < left[n] + 1
    <3>1. Heard(m, n) \in Nat /\ Heard(m, n) <= entered[m] /\ entered[m] \in Nat
      BY OneRoundApart
    <3>2. QED
      BY <1>5, <3>1
  <2>3. left[n] + 1 \in Nat
    BY <1>5
  <2>4. /\ Cardinality(Calls(n)) \in Nat
        /\ Cardinality(Calls(n)) < Cardinality(Rounds(left[n] + 1))
    BY <2>1, <2>2, <2>3, CallsBounded
  <2>5. barrier_count[n] + Cardinality(Rounds(left[n])) = Cardinality(Calls(n))
    BY <1>2 DEF CallsCounted
  <2>6. QED
    BY <1>1, <1>4, <1>5, <2>4, <2>5
<1>7. /\ left'[n] = left[n] + 1 /\ \A j \in Nodes : j # n => left'[j] = left[j]
      /\ barrier_count' \in [Nodes -> Nat] /\ barrier_count'[n] = barrier_count[n] - NumNodes
      /\ \A j \in Nodes : j # n => barrier_count'[j] = barrier_count[j]
      /\ pc'[n] = "running" /\ \A j \in Nodes : j # n => pc'[j] = pc[j]
  BY <1>1, <1>4, <1>5
<1>8. CallsCounted'
  <2>1. \A j \in Nodes : Calls(j)' = Calls(j)
    BY <1>3 DEF Calls, Rounds
  <2>2. \A j \in Nodes : Cardinality(Rounds(left[j]))' = Cardinality(Rounds(left'[j]))
    BY DEF Rounds
  <2>3. \A j \in Nodes : barrier_count'[j] + Cardinality(Rounds(left'[j])) = Cardinality(Calls(j))
    <3> TAKE j \in Nodes
    <3>1. barrier_count[j] + Cardinality(Rounds(left[j])) = Cardinality(Calls(j))
      BY <1>2 DEF CallsCounted
    <3>2. CASE j = n
      <4>1. Cardinality(Rounds(left'[j])) = Cardinality(Rounds(left[n])) + NumNodes
        BY <1>5, <1>7, <3>2
      <4>2. QED
        BY <1>4, <1>5, <1>7, <3>1, <3>2, <4>1
    <3>3. CASE j # n
      BY <1>7, <3>1, <3>3
    <3>4. QED
      BY <3>2, <3>3
  <2>4. QED
    BY <1>7, <2>1, <2>2, <2>3 DEF CallsCounted
<1>9. NobodyAhead'
  <2>1. \A j, k \in Nodes : left'[j] <= entered[k]
    <3> TAKE j, k \in Nodes
    <3>1. left[j] \in Nat /\ entered[k] \in Nat /\ left[j] <= entered[k]
      BY OneRoundApart
    <3>2. QED
      BY <1>5, <1>6, <1>7, <3>1
  <2>2. QED
    BY <1>1, <2>1 DEF NobodyAhead
<1>10. NoLostWakeup'
  <2> SUFFICES ASSUME NEW j \in Nodes, pc'[j] = "waiting"
               PROVE  ~(barrier_count'[j] >= NumNodes)
    BY DEF NoLostWakeup, Complete
  <2>1. j # n
    BY <1>7
  <2>2. QED
    BY <1>2, <1>7, <2>1 DEF NoLostWakeup, Complete
<1>11. QED
  BY <1>3, <1>6, <1>8, <1>9, <1>10 DEF IInv

\* The other steps count nothing; a call of Barrier puts its node ahead, and
\* only Block goes to sleep.
LEMMA QuietKeeps ==
    ASSUME IInv, NetInv(Message)', UNCHANGED <<barrier_count, left>>,
           \A m, n \in Nodes : Heard(m, n)' = Heard(m, n),
           \A n \in Nodes : entered'[n] \in {entered[n], entered[n] + 1},
           \A n \in Nodes : pc'[n] = "waiting" => pc[n] = "waiting" \/ ~Complete(n)
    PROVE  IInv'
<1>1. CallsCounted'
  <2>1. \A n \in Nodes : Calls(n)' = Calls(n) /\ Rounds(left[n])' = Rounds(left[n])
    BY DEF Calls, Rounds
  <2>2. QED
    BY <2>1 DEF IInv, CallsCounted
<1>2. NobodyAhead'
  <2>1. \A m, n \in Nodes : left[m] \in Nat /\ entered[n] \in Nat /\ left[m] <= entered[n]
    BY OneRoundApart
  <2>2. QED
    BY <2>1 DEF NobodyAhead
<1>3. NoLostWakeup'
  BY DEF IInv, NoLostWakeup, Complete
<1>4. QED
  BY <1>1, <1>2, <1>3 DEF IInv

-----------------------------------------------------------------------------
LEMMA InitIInv == Init => IInv
<1> SUFFICES ASSUME Init PROVE IInv
  OBVIOUS
<1>1. NetInv(Message) /\ \A m, n \in Nodes : Heard(m, n) = 0
  BY NetInitKeeps DEF Init
<1>2. /\ \A n \in Nodes : entered[n] = 0 /\ left[n] = 0 /\ pc[n] = "running"
      /\ barrier_count = [n \in Nodes |-> 0]
  BY DEF Init, NetInit
<1>3. CallsCounted
  <2>1. \A n \in Nodes : Calls(n) = {} /\ Rounds(left[n]) = {}
    BY <1>1, <1>2, MailboxAssumption DEF Calls, Rounds
  <2>2. QED
    BY <1>2, <2>1, FS_EmptySet DEF CallsCounted
<1>4. NobodyAhead
  BY <1>2 DEF NobodyAhead
<1>5. NoLostWakeup
  BY <1>2 DEF NoLostWakeup
<1>6. QED
  BY <1>1, <1>3, <1>4, <1>5 DEF IInv

LEMMA NextIInv == IInv /\ [Next]_vars => IInv'
<1> SUFFICES ASSUME IInv, [Next]_vars PROVE IInv'
  OBVIOUS
<1>0. /\ NetInv(Message) /\ Dated(Message) /\ Signals \subseteq Message
      /\ pc \in [Nodes -> Places] /\ entered \in [Nodes -> 0 .. MaxBarriers]
  BY MessageDated DEF IInv, NetInv, NetTyped
<1>1. ASSUME NEW n \in Nodes, EnterBarrier(n), UNCHANGED barrier_count PROVE IInv'
  <2>1. NetInv(Message)' /\ \A j, k \in Nodes : Heard(j, k)' = Heard(j, k)
    BY <1>0, <1>1, EnterKeeps
  <2>2. /\ left' = left /\ \A j \in Nodes : pc'[j] = "waiting" => pc[j] = "waiting"
        /\ \A j \in Nodes : entered'[j] \in {entered[j], entered[j] + 1}
    BY <1>0, <1>1 DEF EnterBarrier
  <2>3. QED
    BY <1>1, <2>1, <2>2, QuietKeeps
<1>2. ASSUME NEW n \in Nodes, Block(n, Complete(n)), UNCHANGED barrier_count PROVE IInv'
  <2>1. NetInv(Message)' /\ \A j, k \in Nodes : Heard(j, k)' = Heard(j, k)
    <3>1. Complete(n) \in BOOLEAN
      BY DEF Complete
    <3>2. QED
      BY <1>0, <1>2, <3>1, MainKeeps
  <2>2. /\ UNCHANGED <<left, entered>>
        /\ \A j \in Nodes : pc'[j] = "waiting" => pc[j] = "waiting" \/ ~Complete(j)
    BY <1>0, <1>2 DEF Block
  <2>3. QED
    BY <1>2, <2>1, <2>2, QuietKeeps
<1>3. ASSUME NEW n \in Nodes, Return(n) PROVE IInv'
  BY <1>3, ReturnKeeps
<1>4. ASSUME NEW n \in Nodes, SendExit(n), UNCHANGED barrier_count PROVE IInv'
  <2>1. NetInv(Message)' /\ \A j, k \in Nodes : Heard(j, k)' = Heard(j, k)
    BY <1>0, <1>4, ExitKeeps
  <2>2. UNCHANGED <<left, entered>> /\ \A j \in Nodes : pc'[j] = "waiting" => pc[j] = "waiting"
    BY <1>0, <1>4 DEF SendExit
  <2>3. QED
    BY <1>4, <2>1, <2>2, QuietKeeps
<1>5. ASSUME NEW n \in Nodes, SpuriousWakeup(n), UNCHANGED barrier_count PROVE IInv'
  <2>1. NetInv(Message)' /\ \A j, k \in Nodes : Heard(j, k)' = Heard(j, k)
    BY <1>0, <1>5, MainKeeps
  <2>2. UNCHANGED <<left, entered>> /\ \A j \in Nodes : pc'[j] = "waiting" => pc[j] = "waiting"
    BY <1>0, <1>5 DEF SpuriousWakeup
  <2>3. QED
    BY <1>5, <2>1, <2>2, QuietKeeps
<1>6. ASSUME NEW m \in Nodes, NEW n \in Nodes, SendData(m, n), UNCHANGED barrier_count
      PROVE  IInv'
  <2> DEFINE x == [flag |-> "kData", version |-> entered[m]]
  <2>1. x \in Message /\ x.flag = "kData" /\ x.version = entered[m]
    BY <1>0 DEF Message
  <2>2. /\ wire' = [wire EXCEPT ![m][n] = Append(@, x)]
        /\ pc[m] \notin {"joining", "stopped"} /\ UNCHANGED <<pc, entered, left>>
    BY <1>6 DEF SendData
  <2>3. unsent' \in 0 .. MaxData
    BY <1>0, <1>6, MailboxAssumption DEF SendData, NetInv, NetTyped
  <2> HIDE DEF x
  <2>4. NetInv(Message)' /\ \A j, k \in Nodes : Heard(j, k)' = Heard(j, k)
    BY <1>0, <2>1, <2>2, <2>3, SendKeeps
  <2>5. QED
    BY <1>6, <2>2, <2>4, QuietKeeps
<1>7. ASSUME NEW m \in Nodes, NEW n \in Nodes, ReceiveData(m, n), UNCHANGED barrier_count
      PROVE  IInv'
  <2>1. Received(m, n, "kData") /\ UNCHANGED <<pc, entered, left, unsent>>
    BY <1>7 DEF ReceiveData
  <2>2. NetInv(Message)' /\ \A j, k \in Nodes : Heard(j, k)' = Heard(j, k)
    BY <1>0, <2>1, ReceiveDataKeeps
  <2>3. QED
    BY <1>7, <2>1, <2>2, QuietKeeps
<1>8. ASSUME NEW m \in Nodes, NEW n \in Nodes, ReceiveBarrier(m, n) PROVE IInv'
  BY <1>8, ReceiveBarrierKeeps
<1>9. ASSUME NEW m \in Nodes, NEW n \in Nodes, ReceiveExit(m, n), UNCHANGED barrier_count
      PROVE  IInv'
  <2>1. NetInv(Message)' /\ \A j, k \in Nodes : Heard(j, k)' = Heard(j, k)
    BY <1>0, <1>9, ReceiveExitKeeps
  <2>2. UNCHANGED <<left, entered>> /\ \A j \in Nodes : pc'[j] = "waiting" => pc[j] = "waiting"
    BY <1>0, <1>9 DEF ReceiveExit
  <2>3. QED
    BY <1>9, <2>1, <2>2, QuietKeeps
<1>10. ASSUME UNCHANGED vars PROVE IInv'
  <2>1. UNCHANGED <<netVars, pc, entered, left, barrier_count>>
    BY <1>10 DEF vars, netVars
  <2>2. NetInv(Message)' /\ \A j, k \in Nodes : Heard(j, k)' = Heard(j, k)
    BY <1>0, <2>1, NetStutterKeeps
  <2>3. QED
    BY <2>1, <2>2, QuietKeeps
<1>11. QED
  BY <1>1, <1>2, <1>3, <1>4, <1>5, <1>6, <1>7, <1>8, <1>9, <1>10 DEF Next, Main, Receiver, Done

LEMMA IInvAlways == Spec => []IInv
BY InitIInv, NextIInv, PTL DEF Spec

-----------------------------------------------------------------------------
(* The theorems                                                            *)

LEMMA IInvTypeOK == IInv => TypeOK
<1> SUFFICES ASSUME IInv PROVE TypeOK
  OBVIOUS
<1>1. NetTyped(Message) /\ CallsCounted
  BY DEF IInv, NetInv
<1>2. \A n \in Nodes : barrier_count[n] \in 0 .. 2 * NumNodes - 1
  <2> TAKE n \in Nodes
  <2>1. \A m \in Nodes : Heard(m, n) \in Nat /\ Heard(m, n) <= left[n] + 2
    <3> TAKE m \in Nodes
    <3>1. Heard(m, n) \in Nat /\ Heard(m, n) <= entered[m] /\ entered[m] <= left[m] + 1
      BY OneRoundApart
    <3>2. left[m] <= entered[n] /\ entered[n] <= left[n] + 1
      BY OneRoundApart
    <3>3. left[m] \in Nat /\ left[n] \in Nat /\ entered[m] \in Nat /\ entered[n] \in Nat
      BY OneRoundApart
    <3>4. QED
      BY <3>1, <3>2, <3>3
  <2>2. left[n] + 2 \in Nat /\ Heard(n, n) < left[n] + 2 /\ left[n] \in Nat
    <3>1. Heard(n, n) <= entered[n] /\ entered[n] <= left[n] + 1 /\ left[n] \in Nat
      BY OneRoundApart
    <3>2. Heard(n, n) \in Nat /\ entered[n] \in Nat
      BY OneRoundApart
    <3>3. QED
      BY <3>1, <3>2
  <2>3. Cardinality(Calls(n)) \in Nat /\ Cardinality(Calls(n)) < Cardinality(Rounds(left[n] + 2))
    BY <2>1, <2>2, CallsBounded
  <2>4. /\ Cardinality(Rounds(left[n])) \in Nat /\ NumNodes \in Nat
        /\ Cardinality(Rounds(left[n] + 2)) = Cardinality(Rounds(left[n])) + 2 * NumNodes
    BY <2>2, RoundsCounted
  <2>5. /\ barrier_count[n] \in Nat
        /\ barrier_count[n] + Cardinality(Rounds(left[n])) = Cardinality(Calls(n))
    BY <1>1 DEF CallsCounted
  <2>6. QED
    BY <2>3, <2>4, <2>5
<1>3. QED
  BY <1>1, <1>2 DEF TypeOK, NetTyped, NetTypeOK, CallsCounted

\* The variables keep their types, whatever the nodes, the calls of Barrier and
\* the data: barrier_count_ stays below twice the number of nodes.
THEOREM CountBarrierTypeOK == Spec => []TypeOK
BY IInvAlways, IInvTypeOK, PTL

\* Mailbox::Barrier of comm/: nobody stays asleep when the count is reached.
THEOREM CountBarrierNoLostWakeup == Spec => []NoLostWakeup
<1>1. IInv => NoLostWakeup
  BY DEF IInv
<1>2. QED
  BY <1>1, IInvAlways, PTL

LEMMA IInvStopLosesNothing == IInv => StopLosesNothing
<1> SUFFICES ASSUME IInv PROVE StopLosesNothing
  OBVIOUS
<1>0. SUFFICES ASSUME NEW m \in Nodes, NEW n \in Nodes, pc[n] = "stopped"
               PROVE  Heard(m, n) >= MaxBarriers
  BY MessageDated, AllHeardAtStop DEF IInv
<1>1. NetInv(Message) /\ Dated(Message) /\ CallsCounted
  BY MessageDated DEF IInv
<1>2. left[n] = MaxBarriers /\ MaxBarriers \in Nat
  BY <1>0, <1>1, MailboxAssumption DEF NetInv, OneAtATime
<1>3. \A j \in Nodes : Heard(j, n) \in Nat /\ Heard(j, n) <= MaxBarriers
  <2> TAKE j \in Nodes
  <2>1. Heard(j, n) \in Nat /\ Heard(j, n) <= entered[j] /\ entered[j] <= MaxBarriers
    BY OneRoundApart
  <2>2. entered[j] \in Nat
    BY OneRoundApart
  <2>3. QED
    BY <1>2, <2>1, <2>2
<1>4. Heard(m, n) = MaxBarriers
  <2>1. /\ Cardinality(Calls(n)) \in Nat
        /\ Heard(m, n) < MaxBarriers => Cardinality(Calls(n)) < Cardinality(Rounds(MaxBarriers))
    BY <1>2, <1>3, CallsBounded
  <2>2. /\ barrier_count[n] \in Nat /\ Cardinality(Rounds(MaxBarriers)) \in Nat
        /\ barrier_count[n] + Cardinality(Rounds(MaxBarriers)) = Cardinality(Calls(n))
    BY <1>1, <1>2, RoundsCounted DEF CallsCounted
  <2>3. QED
    BY <1>2, <1>3, <2>1, <2>2
<1>5. QED
  BY <1>2, <1>4

\* Mailbox::StopReceiving of comm/: when a receiver thread has exited, all that
\* was sent to it before the senders' last Barrier has been received.
THEOREM CountBarrierStopLosesNothing == Spec => []StopLosesNothing
BY IInvAlways, IInvStopLosesNothing, PTL

\* Mailbox::Barrier of comm/ is a barrier although its messages carry no round:
\* every step is a call or a return of Rendezvous, or none.
THEOREM CountBarrierIsBarrier == Spec => IsBarrier
<1>1. Init => Round!Init
  BY DEF Init, NetInit, Round!Init
<1>2. IInv /\ [Next]_vars => [Round!Next]_(Round!vars)
  <2> SUFFICES ASSUME IInv, [Next]_vars PROVE [Round!Next]_(Round!vars)
    OBVIOUS
  <2>1. ASSUME NEW n \in Nodes, EnterBarrier(n) PROVE Round!Next
    <3>1. Round!Enter(n)
      BY <2>1 DEF EnterBarrier, IInv, NetInv, OneAtATime, Round!Enter
    <3>2. QED
      BY <3>1 DEF Round!Next
  <2>2. ASSUME NEW n \in Nodes, Return(n) PROVE Round!Next
    <3>1. \A m \in Nodes : left[n] < entered[m]
      BY <2>2, ReturnKeeps
    <3>2. Round!Leave(n)
      BY <2>2, <3>1 DEF Return, LeaveBarrier, Round!Leave
    <3>3. QED
      BY <3>2 DEF Round!Next
  <2>3. ASSUME UNCHANGED <<entered, left>> PROVE UNCHANGED Round!vars
    BY <2>3 DEF Round!vars
  <2>4. QED
    BY <2>1, <2>2, <2>3 DEF Next, Main, Receiver, Done, Block, SendExit, SpuriousWakeup, SendData,
                            ReceiveData, ReceiveBarrier, ReceiveExit, vars, netVars
<1>3. QED
  BY <1>1, <1>2, IInvAlways, PTL DEF Spec, IsBarrier, Round!Spec
=============================================================================
