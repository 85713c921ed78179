---------------------------- MODULE MailboxProofs -----------------------------
(***************************************************************************)
(* What the mailboxes of comm/ and comm2/ have in common, as an invariant: the *)
(* messages of a channel are in the order of the rounds they were sent in,    *)
(* so the first of them tells how many calls of Barrier the receiver has      *)
(* heard of.  One lemma per action of Mailbox; what the receivers count is    *)
(* left to CountBarrierProofs and ChannelProofs.                            *)
(*                                                                         *)
(* S is the set of the messages: Message, or the one of Channel, whose data    *)
(* messages carry what was pushed.                                         *)
(***************************************************************************)
EXTENDS Mailbox, SequenceTheorems, FiniteSetTheorems, TLAPS

Dated(S) ==
    \A x \in S : x.flag \in {"kData", "kBarrier", "kExit"} /\ x.version \in 0 .. MaxBarriers

\* What the main threads send.
Signals == {x \in Message : x.flag # "kData"}

\* How often its sender had called Barrier before and after it sent x; c is how
\* often it has by now, and it calls it no more after the kExit.
RoundBefore(x, c) == IF x.flag = "kExit" THEN c ELSE x.version
RoundAfter(x, c) == RoundBefore(x, c) + (IF x.flag = "kBarrier" THEN 1 ELSE 0)

InOrder(q, c) ==
    /\ q # <<>> => RoundAfter(q[Len(q)], c) = c
    /\ \A i \in 1 .. Len(q) - 1 : RoundBefore(q[i + 1], c) = RoundAfter(q[i], c)
    /\ \A i, j \in 1 .. Len(q) : i < j => RoundAfter(q[i], c) <= RoundBefore(q[j], c)

\* How many calls of Barrier the receiver of q has heard of.
FirstRound(q, c) == IF q = <<>> THEN c ELSE RoundBefore(q[1], c)
Heard(m, n) == FirstRound(wire[m][n], entered[m])

NoExit(q) == \A i \in 1 .. Len(q) : q[i].flag # "kExit"

NetTyped(S) ==
    /\ wire \in [Nodes -> [Nodes -> Seq(S)]]
    /\ pc \in [Nodes -> Places]
    /\ entered \in [Nodes -> 0 .. MaxBarriers]
    /\ left \in [Nodes -> 0 .. MaxBarriers]
    /\ unsent \in 0 .. MaxData

\* A node is in at most one Barrier, and stops after the last one.
OneAtATime ==
    \A n \in Nodes : /\ pc[n] \in {"checking", "waiting"} => entered[n] = left[n] + 1
                     /\ pc[n] \notin {"checking", "waiting"} => entered[n] = left[n]
                     /\ pc[n] \in {"joining", "stopped"} => left[n] = MaxBarriers

ChannelsInOrder == \A m, n \in Nodes : InOrder(wire[m][n], entered[m])

\* kExit is the last message of a node to itself.
ExitIsLast ==
    \A m, n \in Nodes : \A i \in 1 .. Len(wire[m][n]) :
        wire[m][n][i].flag = "kExit" => i = Len(wire[m][n]) /\ m = n /\ pc[n] = "joining"

NetInv(S) == NetTyped(S) /\ OneAtATime /\ ChannelsInOrder /\ ExitIsLast

-----------------------------------------------------------------------------
(* Channels                                                                *)

LEMMA PushOne ==
    ASSUME NEW S, NEW q \in Seq(S), NEW x \in S
    PROVE  /\ Append(q, x) \in Seq(S)
           /\ Append(q, x) # <<>>
           /\ Len(Append(q, x)) = Len(q) + 1
           /\ Len(q) \in Nat
           /\ \A i \in 1 .. Len(q) : Append(q, x)[i] = q[i]
           /\ Append(q, x)[Len(q) + 1] = x
BY AppendProperties, LenProperties

LEMMA PopOne ==
    ASSUME NEW S, NEW q \in Seq(S), q # <<>>
    PROVE  /\ Head(q) = q[1] /\ Head(q) \in S
           /\ Tail(q) \in Seq(S)
           /\ Len(q) \in Nat \ {0}
           /\ Len(Tail(q)) = Len(q) - 1
           /\ \A i \in 1 .. Len(q) - 1 : Tail(q)[i] = q[i + 1]
BY HeadTailProperties, EmptySeq

LEMMA EmptyIffNoLength ==
    ASSUME NEW S, NEW q \in Seq(S)
    PROVE  Len(q) \in Nat /\ (q = <<>> <=> Len(q) = 0)
BY EmptySeq, LenProperties

LEMMA RoundsType ==
    ASSUME NEW S, Dated(S), NEW q \in Seq(S), NEW c \in Nat
    PROVE  \A i \in 1 .. Len(q) : /\ q[i] \in S
                                  /\ RoundBefore(q[i], c) \in Nat
                                  /\ RoundAfter(q[i], c) \in Nat
                                  /\ RoundBefore(q[i], c) <= RoundAfter(q[i], c)
<1>1. \A i \in 1 .. Len(q) : q[i] \in S
  BY ElementOfSeq
<1>2. \A x \in S : x.version \in Nat
  BY MailboxAssumption DEF Dated
<1>3. \A x \in S : /\ RoundBefore(x, c) \in Nat
                   /\ RoundAfter(x, c) \in Nat
                   /\ RoundBefore(x, c) <= RoundAfter(x, c)
  BY <1>2 DEF RoundBefore, RoundAfter
<1>4. QED
  BY <1>1, <1>3

\* The sender's c-th round has come, or x has brought it to round d.
LEMMA OrderPush ==
    ASSUME NEW S, Dated(S), NEW q \in Seq(S), NEW x \in S, NEW c \in Nat, NEW d \in Nat,
           InOrder(q, c), d = c \/ NoExit(q),
           RoundBefore(x, d) = c, RoundAfter(x, d) = d
    PROVE  /\ InOrder(Append(q, x), d)
           /\ FirstRound(Append(q, x), d) = FirstRound(q, c)
<1> DEFINE r == Append(q, x)
<1>0. \A i \in 1 .. Len(q) : /\ RoundBefore(q[i], c) \in Nat
                             /\ RoundAfter(q[i], c) \in Nat
                             /\ RoundBefore(q[i], c) <= RoundAfter(q[i], c)
  BY RoundsType
<1>1. /\ r \in Seq(S) /\ r # <<>>
      /\ Len(q) \in Nat /\ Len(r) = Len(q) + 1
      /\ \A i \in 1 .. Len(q) : r[i] = q[i]
      /\ r[Len(q) + 1] = x
  BY PushOne
<1>2. q = <<>> <=> Len(q) = 0
  BY EmptyIffNoLength
<1> HIDE DEF r
<1>3. \A i \in 1 .. Len(q) : /\ RoundBefore(r[i], d) = RoundBefore(q[i], c)
                             /\ RoundAfter(r[i], d) = RoundAfter(q[i], c)
  BY <1>1 DEF NoExit, RoundBefore, RoundAfter
<1>4. Len(q) >= 1 => RoundAfter(q[Len(q)], c) = c
  BY <1>2 DEF InOrder
<1>5. \A i \in 1 .. Len(q) : RoundAfter(q[i], c) <= c
  <2> TAKE i \in 1 .. Len(q)
  <2>1. CASE i = Len(q)
    BY <1>0, <1>1, <1>4, <2>1
  <2>2. CASE i < Len(q)
    <3>1. Len(q) \in 1 .. Len(q)
      BY <1>1, <2>2
    <3>2. RoundAfter(q[i], c) <= RoundBefore(q[Len(q)], c)
      BY <3>1, <2>2 DEF InOrder
    <3>3. QED
      BY <1>0, <1>1, <1>4, <3>1, <3>2
  <2>3. QED
    BY <2>1, <2>2, <1>1
<1>6. RoundAfter(r[Len(r)], d) = d
  BY <1>1
<1>7. \A i \in 1 .. Len(r) - 1 : RoundBefore(r[i + 1], d) = RoundAfter(r[i], d)
  <2> TAKE i \in 1 .. Len(r) - 1
  <2>1. i \in 1 .. Len(q)
    BY <1>1
  <2>2. CASE i = Len(q)
    BY <1>1, <1>3, <1>4, <2>1, <2>2
  <2>3. CASE i < Len(q)
    <3>1. i + 1 \in 1 .. Len(q) /\ i \in 1 .. Len(q) - 1
      BY <1>1, <2>1, <2>3
    <3>2. RoundBefore(q[i + 1], c) = RoundAfter(q[i], c)
      BY <3>1 DEF InOrder
    <3>3. QED
      BY <1>3, <2>1, <3>1, <3>2
  <2>4. QED
    BY <2>1, <2>2, <2>3, <1>1
<1>8. \A i, j \in 1 .. Len(r) : i < j => RoundAfter(r[i], d) <= RoundBefore(r[j], d)
  <2> SUFFICES ASSUME NEW i \in 1 .. Len(r), NEW j \in 1 .. Len(r), i < j
               PROVE  RoundAfter(r[i], d) <= RoundBefore(r[j], d)
    OBVIOUS
  <2>1. i \in 1 .. Len(q)
    BY <1>1
  <2>2. CASE j = Len(q) + 1
    BY <1>1, <1>3, <1>5, <2>1, <2>2
  <2>3. CASE j <= Len(q)
    <3>1. j \in 1 .. Len(q)
      BY <1>1, <2>3
    <3>2. RoundAfter(q[i], c) <= RoundBefore(q[j], c)
      BY <2>1, <3>1 DEF InOrder
    <3>3. QED
      BY <1>3, <2>1, <3>1, <3>2
  <2>4. QED
    BY <2>2, <2>3, <1>1
<1>9. FirstRound(r, d) = FirstRound(q, c)
  <2>1. CASE q = <<>>
    BY <1>1, <1>2, <2>1 DEF FirstRound
  <2>2. CASE q # <<>>
    <3>1. 1 \in 1 .. Len(q)
      BY <1>1, <1>2, <2>2
    <3>2. QED
      BY <1>1, <1>3, <2>2, <3>1 DEF FirstRound
  <2>3. QED
    BY <2>1, <2>2
<1>10. QED
  BY <1>6, <1>7, <1>8, <1>9 DEF r, InOrder

LEMMA OrderPop ==
    ASSUME NEW S, Dated(S), NEW q \in Seq(S), q # <<>>, NEW c \in Nat, InOrder(q, c)
    PROVE  /\ InOrder(Tail(q), c)
           /\ FirstRound(q, c) = RoundBefore(Head(q), c)
           /\ FirstRound(Tail(q), c) = RoundAfter(Head(q), c)
<1> DEFINE r == Tail(q)
<1>1. /\ Head(q) = q[1] /\ r \in Seq(S)
      /\ Len(q) \in Nat \ {0} /\ Len(r) = Len(q) - 1
      /\ \A i \in 1 .. Len(q) - 1 : r[i] = q[i + 1]
  BY PopOne
<1>2. r = <<>> <=> Len(r) = 0
  BY <1>1, EmptyIffNoLength
<1> HIDE DEF r
<1>3. RoundAfter(q[Len(q)], c) = c
  BY DEF InOrder
<1>4. r # <<>> => RoundAfter(r[Len(r)], c) = c
  BY <1>1, <1>2, <1>3
<1>5. \A i \in 1 .. Len(r) - 1 : RoundBefore(r[i + 1], c) = RoundAfter(r[i], c)
  BY <1>1 DEF InOrder
<1>6. \A i, j \in 1 .. Len(r) : i < j => RoundAfter(r[i], c) <= RoundBefore(r[j], c)
  <2> SUFFICES ASSUME NEW i \in 1 .. Len(r), NEW j \in 1 .. Len(r), i < j
               PROVE  RoundAfter(r[i], c) <= RoundBefore(r[j], c)
    OBVIOUS
  <2>1. r[i] = q[i + 1] /\ r[j] = q[j + 1] /\ i + 1 \in 1 .. Len(q) /\ j + 1 \in 1 .. Len(q)
    BY <1>1
  <2>2. QED
    BY <2>1 DEF InOrder
<1>7. FirstRound(r, c) = RoundAfter(q[1], c)
  <2>1. CASE r = <<>>
    <3>1. Len(q) = 1
      BY <1>1, <1>2, <2>1
    <3>2. QED
      BY <1>3, <2>1, <3>1 DEF FirstRound
  <2>2. CASE r # <<>>
    <3>1. 1 \in 1 .. Len(q) - 1 /\ r[1] = q[1 + 1]
      BY <1>1, <1>2, <2>2
    <3>2. RoundBefore(q[1 + 1], c) = RoundAfter(q[1], c)
      BY <3>1 DEF InOrder
    <3>3. QED
      BY <2>2, <3>1, <3>2 DEF FirstRound
  <2>3. QED
    BY <2>1, <2>2
<1>8. QED
  BY <1>1, <1>4, <1>5, <1>6, <1>7 DEF r, InOrder, FirstRound

\* The receiver has heard of no more than there was, and what is under way is
\* of the round it has heard of, or later.
LEMMA OrderBounds ==
    ASSUME NEW S, Dated(S), NEW q \in Seq(S), NEW c \in Nat, InOrder(q, c)
    PROVE  /\ FirstRound(q, c) \in Nat /\ FirstRound(q, c) <= c
           /\ \A i \in 1 .. Len(q) : FirstRound(q, c) <= RoundBefore(q[i], c)
<1>0. \A i \in 1 .. Len(q) : /\ RoundBefore(q[i], c) \in Nat
                             /\ RoundAfter(q[i], c) \in Nat
                             /\ RoundBefore(q[i], c) <= RoundAfter(q[i], c)
  BY RoundsType
<1>1. Len(q) \in Nat /\ (q = <<>> <=> Len(q) = 0)
  BY EmptyIffNoLength
<1>2. CASE q = <<>>
  BY <1>1, <1>2 DEF FirstRound
<1>3. CASE q # <<>>
  <2>1. 1 \in 1 .. Len(q) /\ Len(q) \in 1 .. Len(q)
    BY <1>1, <1>3
  <2>2. FirstRound(q, c) = RoundBefore(q[1], c) /\ RoundAfter(q[Len(q)], c) = c
    BY <1>3 DEF FirstRound, InOrder
  <2>3. \A i \in 1 .. Len(q) : RoundBefore(q[1], c) <= RoundBefore(q[i], c)
    <3> TAKE i \in 1 .. Len(q)
    <3>1. CASE i = 1
      BY <1>0, <2>1, <3>1
    <3>2. CASE i > 1
      <4>1. RoundAfter(q[1], c) <= RoundBefore(q[i], c)
        BY <2>1, <3>2 DEF InOrder
      <4>2. QED
        BY <1>0, <2>1, <4>1
    <3>3. QED
      BY <3>1, <3>2
  <2>4. QED
    BY <1>0, <2>1, <2>2, <2>3
<1>4. QED
  BY <1>2, <1>3

-----------------------------------------------------------------------------
(* The actions of Mailbox                                                  *)

\* The invariant, channel by channel.
LEMMA NetInvParts ==
    ASSUME NEW S, Dated(S), NetInv(S)
    PROVE  /\ \A n \in Nodes : entered[n] \in Nat /\ left[n] \in Nat
           /\ \A m, n \in Nodes :
                 /\ wire[m][n] \in Seq(S)
                 /\ InOrder(wire[m][n], entered[m])
                 /\ pc[m] # "joining" => NoExit(wire[m][n])
                 /\ pc[m] \notin {"joining", "stopped"} => NoExit(wire[m][n])
                 /\ Heard(m, n) \in Nat /\ Heard(m, n) <= entered[m]
                 /\ \A i \in 1 .. Len(wire[m][n]) :
                       Heard(m, n) <= RoundBefore(wire[m][n][i], entered[m])
<1>1. \A n \in Nodes : entered[n] \in Nat /\ left[n] \in Nat
  BY MailboxAssumption DEF NetInv, NetTyped
<1>2. \A m, n \in Nodes : wire[m][n] \in Seq(S)
  BY DEF NetInv, NetTyped
<1>3. \A m, n \in Nodes : InOrder(wire[m][n], entered[m])
  BY DEF NetInv, ChannelsInOrder
<1>4. \A m, n \in Nodes : pc[m] # "joining" => NoExit(wire[m][n])
  BY DEF NetInv, ExitIsLast, NoExit
<1>5. \A m, n \in Nodes : /\ Heard(m, n) \in Nat /\ Heard(m, n) <= entered[m]
                          /\ \A i \in 1 .. Len(wire[m][n]) :
                                Heard(m, n) <= RoundBefore(wire[m][n][i], entered[m])
  BY <1>1, <1>2, <1>3, OrderBounds DEF Heard
<1>6. QED
  BY <1>1, <1>2, <1>3, <1>4, <1>5

\* The same bound after a step.
LEMMA NetInvPartsNext ==
    ASSUME NEW S, Dated(S), NetInv(S)'
    PROVE  \A m, n \in Nodes : Heard(m, n)' \in Nat /\ Heard(m, n)' <= entered'[m]
<1>1. \A n \in Nodes : entered'[n] \in Nat
  BY MailboxAssumption DEF NetInv, NetTyped
<1>2. \A m, n \in Nodes : wire'[m][n] \in Seq(S) /\ InOrder(wire'[m][n], entered'[m])
  BY DEF NetInv, NetTyped, ChannelsInOrder
<1>3. QED
  BY <1>1, <1>2, OrderBounds DEF Heard

\* SendData of Mailbox, PushTo of Channel.
LEMMA SendKeeps ==
    ASSUME NEW S, Dated(S), NetInv(S), NEW m \in Nodes, NEW n \in Nodes, NEW x \in S,
           x.flag = "kData", x.version = entered[m], pc[m] \notin {"joining", "stopped"},
           wire' = [wire EXCEPT ![m][n] = Append(@, x)],
           unsent' \in 0 .. MaxData, UNCHANGED <<pc, entered, left>>
    PROVE  /\ NetInv(S)'
           /\ \A j, k \in Nodes : Heard(j, k)' = Heard(j, k)
<1>1. /\ \A j, k \in Nodes : wire[j][k] \in Seq(S) /\ InOrder(wire[j][k], entered[j])
      /\ \A j \in Nodes : entered[j] \in Nat
      /\ NoExit(wire[m][n])
  BY NetInvParts
<1>2. wire \in [Nodes -> [Nodes -> Seq(S)]]
  BY DEF NetInv, NetTyped
<1>3. /\ wire' \in [Nodes -> [Nodes -> Seq(S)]]
      /\ wire'[m][n] = Append(wire[m][n], x)
      /\ \A j, k \in Nodes : <<j, k>> # <<m, n>> => wire'[j][k] = wire[j][k]
  BY <1>1, <1>2, PushOne
<1>4. RoundBefore(x, entered[m]) = entered[m] /\ RoundAfter(x, entered[m]) = entered[m]
  BY <1>1 DEF RoundBefore, RoundAfter
<1>5. /\ InOrder(Append(wire[m][n], x), entered[m])
      /\ FirstRound(Append(wire[m][n], x), entered[m]) = Heard(m, n)
  BY <1>1, <1>4, OrderPush DEF Heard
<1>6. NetTyped(S)'
  BY <1>3 DEF NetInv, NetTyped
<1>7. OneAtATime'
  BY DEF NetInv, OneAtATime
<1>8. ChannelsInOrder'
  BY <1>1, <1>3, <1>5 DEF ChannelsInOrder
<1>9. \A j, k \in Nodes : Heard(j, k)' = Heard(j, k)
  <2> TAKE j, k \in Nodes
  <2>1. CASE <<j, k>> = <<m, n>>
    BY <1>3, <1>5, <2>1 DEF Heard
  <2>2. CASE <<j, k>> # <<m, n>>
    BY <1>3, <2>2 DEF Heard
  <2>3. QED
    BY <2>1, <2>2
<1>10. ExitIsLast'
  <2> SUFFICES ASSUME NEW j \in Nodes, NEW k \in Nodes,
                      NEW i \in 1 .. Len(wire'[j][k]), wire'[j][k][i].flag = "kExit"
               PROVE  i = Len(wire'[j][k]) /\ j = k /\ pc'[k] = "joining"
    BY DEF ExitIsLast
  <2>1. CASE <<j, k>> = <<m, n>>
    <3>1. i \in 1 .. Len(wire[m][n]) + 1 /\ Len(wire[m][n]) \in Nat
      BY <1>1, <1>3, <2>1, PushOne
    <3>2. wire'[j][k][i] = IF i <= Len(wire[m][n]) THEN wire[m][n][i] ELSE x
      BY <1>1, <1>3, <2>1, <3>1, PushOne
    <3>3. QED
      BY <1>1, <3>1, <3>2 DEF NoExit
  <2>2. CASE <<j, k>> # <<m, n>>
    BY <1>3, <2>2 DEF NetInv, ExitIsLast
  <2>3. QED
    BY <2>1, <2>2
<1>11. QED
  BY <1>6, <1>7, <1>8, <1>9, <1>10 DEF NetInv

LEMMA EnterKeeps ==
    ASSUME NEW S, Dated(S), Signals \subseteq S, NetInv(S), NEW n \in Nodes, EnterBarrier(n)
    PROVE  /\ NetInv(S)'
           /\ \A j, k \in Nodes : Heard(j, k)' = Heard(j, k)
<1> DEFINE x == [flag |-> "kBarrier", version |-> left[n]]
<1>1. /\ \A j, k \in Nodes : wire[j][k] \in Seq(S) /\ InOrder(wire[j][k], entered[j])
      /\ \A j \in Nodes : entered[j] \in Nat /\ left[j] \in Nat
      /\ \A k \in Nodes : NoExit(wire[n][k])
  BY NetInvParts DEF EnterBarrier
<1>2. /\ wire \in [Nodes -> [Nodes -> Seq(S)]]
      /\ pc \in [Nodes -> Places]
      /\ entered \in [Nodes -> 0 .. MaxBarriers]
      /\ left \in [Nodes -> 0 .. MaxBarriers]
  BY DEF NetInv, NetTyped
<1>3. x \in S
  BY <1>2 DEF Message, Signals
<1>4. x.flag = "kBarrier" /\ x.version = left[n]
  OBVIOUS
<1> HIDE DEF x
<1>5. /\ wire' \in [Nodes -> [Nodes -> Seq(S)]]
      /\ \A k \in Nodes : wire'[n][k] = Append(wire[n][k], x)
      /\ \A j, k \in Nodes : j # n => wire'[j][k] = wire[j][k]
  <2>1. wire' = [wire EXCEPT ![n] = [k \in Nodes |-> Append(@[k], x)]]
    BY DEF EnterBarrier, x
  <2>2. \A k \in Nodes : Append(wire[n][k], x) \in Seq(S)
    BY <1>1, <1>3, PushOne
  <2>3. QED
    BY <1>2, <2>1, <2>2
<1>6. /\ entered[n] = left[n]
      /\ entered' = [entered EXCEPT ![n] = left[n] + 1]
      /\ pc' = [pc EXCEPT ![n] = "checking"] /\ left' = left
  BY <1>2 DEF EnterBarrier, NetInv, OneAtATime
<1>7. /\ entered'[n] = left[n] + 1 /\ pc'[n] = "checking"
      /\ \A j \in Nodes : j # n => entered'[j] = entered[j] /\ pc'[j] = pc[j]
  BY <1>2, <1>6
<1>8. RoundBefore(x, left[n] + 1) = left[n] /\ RoundAfter(x, left[n] + 1) = left[n] + 1
  BY <1>4 DEF RoundBefore, RoundAfter
<1>9. \A k \in Nodes : /\ InOrder(Append(wire[n][k], x), left[n] + 1)
                       /\ FirstRound(Append(wire[n][k], x), left[n] + 1) = Heard(n, k)
  <2> TAKE k \in Nodes
  <2>1. left[n] + 1 \in Nat /\ InOrder(wire[n][k], left[n])
    BY <1>1, <1>6
  <2>2. QED
    BY <1>1, <1>3, <1>6, <1>8, <2>1, OrderPush DEF Heard
<1>10. NetTyped(S)'
  <2>1. entered' \in [Nodes -> 0 .. MaxBarriers]
    BY <1>2, MailboxAssumption DEF EnterBarrier
  <2>2. pc' \in [Nodes -> Places]
    BY <1>2, <1>6 DEF Places
  <2>3. unsent' \in 0 .. MaxData
    BY DEF NetInv, NetTyped, EnterBarrier
  <2>4. QED
    BY <1>2, <1>5, <1>6, <2>1, <2>2, <2>3 DEF NetTyped
<1>11. OneAtATime'
  BY <1>6, <1>7 DEF NetInv, OneAtATime
<1>12. ChannelsInOrder'
  BY <1>1, <1>5, <1>7, <1>9 DEF ChannelsInOrder
<1>13. \A j, k \in Nodes : Heard(j, k)' = Heard(j, k)
  <2> TAKE j, k \in Nodes
  <2>1. CASE j = n
    BY <1>5, <1>7, <1>9, <2>1 DEF Heard
  <2>2. CASE j # n
    BY <1>5, <1>7, <2>2 DEF Heard
  <2>3. QED
    BY <2>1, <2>2
<1>14. ExitIsLast'
  <2> SUFFICES ASSUME NEW j \in Nodes, NEW k \in Nodes,
                      NEW i \in 1 .. Len(wire'[j][k]), wire'[j][k][i].flag = "kExit"
               PROVE  i = Len(wire'[j][k]) /\ j = k /\ pc'[k] = "joining"
    BY DEF ExitIsLast
  <2>1. CASE j = n
    <3>1. wire'[j][k] = Append(wire[n][k], x) /\ wire[n][k] \in Seq(S)
      BY <1>1, <1>5, <2>1
    <3>2. /\ Len(wire'[j][k]) = Len(wire[n][k]) + 1 /\ Len(wire[n][k]) \in Nat
          /\ \A h \in 1 .. Len(wire[n][k]) : wire'[j][k][h] = wire[n][k][h]
          /\ wire'[j][k][Len(wire[n][k]) + 1] = x
      BY <1>3, <3>1, PushOne
    <3>3. i \in 1 .. Len(wire[n][k]) \/ i = Len(wire[n][k]) + 1
      BY <3>2
    <3>4. i \notin 1 .. Len(wire[n][k])
      BY <1>1, <3>2 DEF NoExit
    <3>5. QED
      BY <1>4, <3>2, <3>3, <3>4
  <2>2. CASE j # n
    <3>1. wire'[j][k] = wire[j][k]
      BY <1>5, <2>2
    <3>2. i = Len(wire[j][k]) /\ j = k /\ pc[k] = "joining"
      BY <3>1 DEF NetInv, ExitIsLast
    <3>3. QED
      BY <1>7, <2>2, <3>1, <3>2
  <2>3. QED
    BY <2>1, <2>2
<1>15. QED
  BY <1>10, <1>11, <1>12, <1>13, <1>14 DEF NetInv

\* A step that sends and takes nothing: a call of Barrier returns or blocks,
\* or wakes for nothing.
LEMMA MainKeeps ==
    ASSUME NEW S, NetInv(S), NEW n \in Nodes, NEW complete \in BOOLEAN,
           LeaveBarrier(n, complete) \/ Block(n, complete) \/ SpuriousWakeup(n)
    PROVE  /\ NetInv(S)'
           /\ \A j, k \in Nodes : Heard(j, k)' = Heard(j, k)
<1>1. /\ wire \in [Nodes -> [Nodes -> Seq(S)]]
      /\ pc \in [Nodes -> Places]
      /\ entered \in [Nodes -> 0 .. MaxBarriers]
      /\ left \in [Nodes -> 0 .. MaxBarriers]
      /\ unsent \in 0 .. MaxData
  BY DEF NetInv, NetTyped
<1>2. /\ UNCHANGED <<wire, entered, unsent>>
      /\ pc[n] \in {"checking", "waiting"}
      /\ pc'[n] \in Places \ {"joining", "stopped"}
      /\ pc' \in [Nodes -> Places]
      /\ \A j \in Nodes : j # n => pc'[j] = pc[j] /\ left'[j] = left[j]
      /\ IF pc'[n] = "running" THEN left'[n] = left[n] + 1 ELSE left'[n] = left[n]
      /\ left' = [left EXCEPT ![n] = left'[n]]
  BY <1>1 DEF LeaveBarrier, Block, SpuriousWakeup, Places
<1>3. entered[n] = left[n] + 1
  BY <1>2 DEF NetInv, OneAtATime
<1>4. NetTyped(S)'
  <2>1. left'[n] \in 0 .. MaxBarriers
    BY <1>1, <1>2, <1>3, MailboxAssumption
  <2>2. QED
    BY <1>1, <1>2, <2>1 DEF NetTyped
<1>5. OneAtATime'
  <2> SUFFICES ASSUME NEW j \in Nodes
               PROVE  /\ pc'[j] \in {"checking", "waiting"} => entered[j] = left'[j] + 1
                      /\ pc'[j] \notin {"checking", "waiting"} => entered[j] = left'[j]
                      /\ pc'[j] \in {"joining", "stopped"} => left'[j] = MaxBarriers
    BY <1>2 DEF OneAtATime
  <2>1. CASE j = n
    BY <1>2, <1>3, <2>1 DEF Places
  <2>2. CASE j # n
    BY <1>2, <2>2 DEF NetInv, OneAtATime
  <2>3. QED
    BY <2>1, <2>2
<1>6. ChannelsInOrder' /\ \A j, k \in Nodes : Heard(j, k)' = Heard(j, k)
  BY <1>2 DEF NetInv, ChannelsInOrder, Heard
<1>7. ExitIsLast'
  <2> SUFFICES ASSUME NEW j \in Nodes, NEW k \in Nodes,
                      NEW i \in 1 .. Len(wire[j][k]), wire[j][k][i].flag = "kExit"
               PROVE  i = Len(wire[j][k]) /\ j = k /\ pc'[k] = "joining"
    BY <1>2 DEF ExitIsLast
  <2>1. i = Len(wire[j][k]) /\ j = k /\ pc[k] = "joining"
    BY DEF NetInv, ExitIsLast
  <2>2. QED
    BY <1>2, <2>1
<1>8. QED
  BY <1>4, <1>5, <1>6, <1>7 DEF NetInv

LEMMA ExitKeeps ==
    ASSUME NEW S, Dated(S), Signals \subseteq S, NetInv(S), NEW n \in Nodes, SendExit(n)
    PROVE  /\ NetInv(S)'
           /\ \A j, k \in Nodes : Heard(j, k)' = Heard(j, k)
<1> DEFINE x == [flag |-> "kExit", version |-> 0]
<1>1. /\ \A j, k \in Nodes : wire[j][k] \in Seq(S) /\ InOrder(wire[j][k], entered[j])
      /\ \A j \in Nodes : entered[j] \in Nat
      /\ NoExit(wire[n][n])
  BY NetInvParts DEF SendExit
<1>2. /\ wire \in [Nodes -> [Nodes -> Seq(S)]]
      /\ pc \in [Nodes -> Places]
      /\ entered \in [Nodes -> 0 .. MaxBarriers]
      /\ left \in [Nodes -> 0 .. MaxBarriers]
      /\ unsent \in 0 .. MaxData
  BY DEF NetInv, NetTyped
<1>3. x \in S /\ x.flag = "kExit"
  <2>1. x \in Message
    BY MailboxAssumption DEF Message
  <2>2. QED
    BY <2>1 DEF Signals
<1> HIDE DEF x
<1>4. /\ UNCHANGED <<entered, left, unsent>>
      /\ pc[n] = "running" /\ left[n] = MaxBarriers
      /\ pc' = [pc EXCEPT ![n] = "joining"]
      /\ wire' = [wire EXCEPT ![n][n] = Append(@, x)]
  BY DEF SendExit, x
<1>5. /\ wire' \in [Nodes -> [Nodes -> Seq(S)]]
      /\ wire'[n][n] = Append(wire[n][n], x)
      /\ \A j, k \in Nodes : <<j, k>> # <<n, n>> => wire'[j][k] = wire[j][k]
      /\ pc' \in [Nodes -> Places] /\ pc'[n] = "joining"
      /\ \A j \in Nodes : j # n => pc'[j] = pc[j]
  BY <1>1, <1>2, <1>3, <1>4, PushOne DEF Places
<1>6. RoundBefore(x, entered[n]) = entered[n] /\ RoundAfter(x, entered[n]) = entered[n]
  BY <1>1, <1>3 DEF RoundBefore, RoundAfter
<1>7. /\ InOrder(Append(wire[n][n], x), entered[n])
      /\ FirstRound(Append(wire[n][n], x), entered[n]) = Heard(n, n)
  BY <1>1, <1>3, <1>6, OrderPush DEF Heard
<1>8. NetTyped(S)'
  BY <1>2, <1>4, <1>5 DEF NetTyped
<1>9. OneAtATime'
  <2> SUFFICES ASSUME NEW j \in Nodes
               PROVE  /\ pc'[j] \in {"checking", "waiting"} => entered[j] = left[j] + 1
                      /\ pc'[j] \notin {"checking", "waiting"} => entered[j] = left[j]
                      /\ pc'[j] \in {"joining", "stopped"} => left[j] = MaxBarriers
    BY <1>4 DEF OneAtATime
  <2>1. CASE j = n
    BY <1>4, <1>5, <2>1 DEF NetInv, OneAtATime
  <2>2. CASE j # n
    BY <1>5, <2>2 DEF NetInv, OneAtATime
  <2>3. QED
    BY <2>1, <2>2
<1>10. ChannelsInOrder'
  BY <1>1, <1>4, <1>5, <1>7 DEF ChannelsInOrder
<1>11. \A j, k \in Nodes : Heard(j, k)' = Heard(j, k)
  <2> TAKE j, k \in Nodes
  <2>1. CASE <<j, k>> = <<n, n>>
    BY <1>4, <1>5, <1>7, <2>1 DEF Heard
  <2>2. CASE <<j, k>> # <<n, n>>
    BY <1>4, <1>5, <2>2 DEF Heard
  <2>3. QED
    BY <2>1, <2>2
<1>12. ExitIsLast'
  <2> SUFFICES ASSUME NEW j \in Nodes, NEW k \in Nodes,
                      NEW i \in 1 .. Len(wire'[j][k]), wire'[j][k][i].flag = "kExit"
               PROVE  i = Len(wire'[j][k]) /\ j = k /\ pc'[k] = "joining"
    BY DEF ExitIsLast
  <2>1. CASE <<j, k>> = <<n, n>>
    <3>1. j = n /\ k = n /\ wire'[j][k] = Append(wire[n][n], x)
      BY <1>5, <2>1
    <3>2. /\ Len(wire'[j][k]) = Len(wire[n][n]) + 1 /\ Len(wire[n][n]) \in Nat
          /\ \A h \in 1 .. Len(wire[n][n]) : wire'[j][k][h] = wire[n][n][h]
      BY <1>1, <1>3, <3>1, PushOne
    <3>3. i \in 1 .. Len(wire[n][n]) \/ i = Len(wire[n][n]) + 1
      BY <3>2
    <3>4. i \notin 1 .. Len(wire[n][n])
      BY <1>1, <3>2 DEF NoExit
    <3>5. QED
      BY <1>5, <3>1, <3>2, <3>3, <3>4
  <2>2. CASE <<j, k>> # <<n, n>>
    <3>1. wire'[j][k] = wire[j][k]
      BY <1>5, <2>2
    <3>2. i = Len(wire[j][k]) /\ j = k /\ pc[k] = "joining"
      BY <3>1 DEF NetInv, ExitIsLast
    <3>3. QED
      BY <1>5, <2>2, <3>1, <3>2
  <2>3. QED
    BY <2>1, <2>2
<1>13. QED
  BY <1>8, <1>9, <1>10, <1>11, <1>12 DEF NetInv

\* What the receiver takes off a channel; kBarrier may wake its main thread,
\* kExit stops it.
LEMMA ReceiveKeeps ==
    ASSUME NEW S, Dated(S), NetInv(S), NEW m \in Nodes, NEW n \in Nodes,
           NEW flag \in {"kData", "kBarrier", "kExit"}, Received(m, n, flag),
           UNCHANGED <<entered, left, unsent>>,
           IF flag = "kExit" THEN pc' = [pc EXCEPT ![n] = "stopped"]
           ELSE \/ pc' = pc
                \/ pc[n] = "waiting" /\ pc' = [pc EXCEPT ![n] = "checking"]
    PROVE  /\ NetInv(S)'
           /\ \A j, k \in Nodes : <<j, k>> # <<m, n>> => Heard(j, k)' = Heard(j, k)
           /\ Heard(m, n)' = Heard(m, n) + (IF flag = "kBarrier" THEN 1 ELSE 0)
           /\ flag # "kExit" => Heard(m, n) = Head(wire[m][n]).version
           /\ flag = "kExit" => wire'[m][n] = <<>> /\ m = n /\ pc[n] = "joining"
<1> DEFINE q == wire[m][n]
<1>1. /\ \A j, k \in Nodes : wire[j][k] \in Seq(S) /\ InOrder(wire[j][k], entered[j])
      /\ \A j \in Nodes : entered[j] \in Nat
      /\ Heard(m, n) \in Nat
  BY NetInvParts
<1>2. /\ wire \in [Nodes -> [Nodes -> Seq(S)]]
      /\ pc \in [Nodes -> Places]
      /\ entered \in [Nodes -> 0 .. MaxBarriers]
      /\ left \in [Nodes -> 0 .. MaxBarriers]
      /\ unsent \in 0 .. MaxData
  BY DEF NetInv, NetTyped
<1>3. /\ q \in Seq(S) /\ q # <<>> /\ Head(q).flag = flag
      /\ wire' = [wire EXCEPT ![m][n] = Tail(@)]
      /\ pc[n] # "stopped"
  BY <1>1 DEF Received
<1>4. /\ Head(q) = q[1] /\ Head(q) \in S /\ Tail(q) \in Seq(S)
      /\ Len(q) \in Nat \ {0} /\ Len(Tail(q)) = Len(q) - 1
      /\ \A i \in 1 .. Len(q) - 1 : Tail(q)[i] = q[i + 1]
  BY <1>3, PopOne
<1>5. /\ wire' \in [Nodes -> [Nodes -> Seq(S)]]
      /\ wire'[m][n] = Tail(q)
      /\ \A j, k \in Nodes : <<j, k>> # <<m, n>> => wire'[j][k] = wire[j][k]
  BY <1>2, <1>3, <1>4
<1>6. /\ InOrder(Tail(q), entered[m])
      /\ Heard(m, n) = RoundBefore(Head(q), entered[m])
      /\ FirstRound(Tail(q), entered[m]) = RoundAfter(Head(q), entered[m])
  BY <1>1, <1>3, OrderPop DEF Heard
<1>7. q[1].flag = "kExit" => Len(q) = 1 /\ m = n /\ pc[n] = "joining"
  <2>1. 1 \in 1 .. Len(q)
    BY <1>4
  <2>2. QED
    BY <2>1 DEF NetInv, ExitIsLast
<1> HIDE DEF q
<1>8. pc' \in [Nodes -> Places] /\ \A j \in Nodes : j # n => pc'[j] = pc[j]
  BY <1>2 DEF Places
<1>9. NetTyped(S)'
  BY <1>2, <1>5, <1>8 DEF NetTyped
<1>10. OneAtATime'
  <2> SUFFICES ASSUME NEW j \in Nodes
               PROVE  /\ pc'[j] \in {"checking", "waiting"} => entered[j] = left[j] + 1
                      /\ pc'[j] \notin {"checking", "waiting"} => entered[j] = left[j]
                      /\ pc'[j] \in {"joining", "stopped"} => left[j] = MaxBarriers
    BY DEF OneAtATime
  <2>1. CASE j = n
    <3>1. CASE flag = "kExit"
      <4>1. pc'[j] = "stopped" /\ pc[j] = "joining"
        BY <1>2, <1>3, <1>4, <1>7, <2>1, <3>1
      <4>2. QED
        BY <4>1 DEF NetInv, OneAtATime
    <3>2. CASE flag # "kExit"
      <4>1. pc'[j] = pc[j] \/ (pc[j] = "waiting" /\ pc'[j] = "checking")
        BY <1>2, <2>1, <3>2
      <4>2. QED
        BY <4>1 DEF NetInv, OneAtATime
    <3>3. QED
      BY <3>1, <3>2
  <2>2. CASE j # n
    BY <1>8, <2>2 DEF NetInv, OneAtATime
  <2>3. QED
    BY <2>1, <2>2
<1>11. ChannelsInOrder'
  BY <1>1, <1>5, <1>6 DEF ChannelsInOrder
<1>12. \A j, k \in Nodes : <<j, k>> # <<m, n>> => Heard(j, k)' = Heard(j, k)
  BY <1>5 DEF Heard
<1>13. Heard(m, n)' = Heard(m, n) + (IF flag = "kBarrier" THEN 1 ELSE 0)
  <2>1. Heard(m, n)' = RoundAfter(Head(q), entered[m])
    BY <1>5, <1>6 DEF Heard
  <2>2. QED
    BY <1>3, <1>6, <2>1 DEF RoundAfter
<1>14. flag # "kExit" => Heard(m, n) = Head(q).version
  BY <1>3, <1>6 DEF RoundBefore
<1>15. flag = "kExit" => wire'[m][n] = <<>> /\ m = n /\ pc[n] = "joining"
  <2> SUFFICES ASSUME flag = "kExit" PROVE wire'[m][n] = <<>> /\ m = n /\ pc[n] = "joining"
    OBVIOUS
  <2>1. Len(q) = 1 /\ m = n /\ pc[n] = "joining"
    BY <1>3, <1>4, <1>7
  <2>2. Len(Tail(q)) = 0
    BY <1>4, <2>1
  <2>3. QED
    BY <1>4, <1>5, <2>1, <2>2, EmptyIffNoLength
<1>16. ExitIsLast'
  <2> SUFFICES ASSUME NEW j \in Nodes, NEW k \in Nodes,
                      NEW i \in 1 .. Len(wire'[j][k]), wire'[j][k][i].flag = "kExit"
               PROVE  i = Len(wire'[j][k]) /\ j = k /\ pc'[k] = "joining"
    BY DEF ExitIsLast
  <2>1. CASE <<j, k>> = <<m, n>>
    <3>0. j = m /\ k = n /\ wire'[j][k] = Tail(q)
      BY <1>5, <2>1
    <3>1. i \in 1 .. Len(q) - 1 /\ q[i + 1].flag = "kExit" /\ i + 1 \in 1 .. Len(q)
      BY <1>4, <3>0
    <3>2. i + 1 = Len(q) /\ m = n /\ pc[n] = "joining"
      BY <3>1 DEF NetInv, ExitIsLast, q
    <3>3. flag # "kExit"
      BY <1>3, <1>4, <1>7, <3>1, <3>2
    <3>4. pc' = pc
      BY <3>2, <3>3
    <3>5. Len(wire'[j][k]) = Len(q) - 1 /\ pc'[k] = "joining"
      BY <1>4, <3>0, <3>2, <3>4
    <3>6. i \in Int /\ Len(q) \in Int
      BY <1>4
    <3>7. i = Len(q) - 1
      BY <3>2, <3>6
    <3>8. QED
      BY <3>0, <3>2, <3>5, <3>7
  <2>2. CASE <<j, k>> # <<m, n>>
    <3>1. wire'[j][k] = wire[j][k]
      BY <1>5, <2>2
    <3>2. i = Len(wire[j][k]) /\ j = k /\ pc[k] = "joining"
      BY <3>1 DEF NetInv, ExitIsLast
    <3>3. k # n \/ flag # "kExit"
      BY <1>3, <1>4, <1>7, <2>2, <3>2
    <3>4. pc'[k] = "joining"
      BY <1>8, <3>2, <3>3
    <3>5. QED
      BY <3>1, <3>2, <3>4
  <2>3. QED
    BY <2>1, <2>2
<1>17. QED
  BY <1>9, <1>10, <1>11, <1>12, <1>13, <1>14, <1>15, <1>16 DEF NetInv, q

LEMMA ReceiveDataKeeps ==
    ASSUME NEW S, Dated(S), NetInv(S), NEW m \in Nodes, NEW n \in Nodes,
           Received(m, n, "kData"), UNCHANGED <<pc, entered, left, unsent>>
    PROVE  /\ NetInv(S)'
           /\ \A j, k \in Nodes : Heard(j, k)' = Heard(j, k)
<1> DEFINE flag == "kData"
<1>1. /\ flag \in {"kData", "kBarrier", "kExit"} /\ flag # "kExit" /\ flag # "kBarrier"
      /\ Received(m, n, flag)
  OBVIOUS
<1> HIDE DEF flag
<1>2. /\ NetInv(S)' /\ Heard(m, n)' = Heard(m, n) + 0
      /\ \A j, k \in Nodes : <<j, k>> # <<m, n>> => Heard(j, k)' = Heard(j, k)
  BY <1>1, ReceiveKeeps
<1>3. Heard(m, n) \in Nat
  BY NetInvParts
<1>4. QED
  BY <1>2, <1>3

LEMMA ReceiveExitKeeps ==
    ASSUME NEW S, Dated(S), NetInv(S), NEW m \in Nodes, NEW n \in Nodes, ReceiveExit(m, n)
    PROVE  /\ NetInv(S)'
           /\ \A j, k \in Nodes : Heard(j, k)' = Heard(j, k)
           /\ wire'[m][n] = <<>> /\ m = n /\ pc[n] = "joining"
<1> DEFINE flag == "kExit"
<1>1. /\ flag \in {"kData", "kBarrier", "kExit"} /\ flag = "kExit" /\ flag # "kBarrier"
      /\ Received(m, n, flag) /\ UNCHANGED <<entered, left, unsent>>
      /\ IF flag = "kExit" THEN pc' = [pc EXCEPT ![n] = "stopped"]
         ELSE \/ pc' = pc
              \/ pc[n] = "waiting" /\ pc' = [pc EXCEPT ![n] = "checking"]
  BY DEF ReceiveExit
<1> HIDE DEF flag
<1>2. /\ NetInv(S)'
      /\ \A j, k \in Nodes : <<j, k>> # <<m, n>> => Heard(j, k)' = Heard(j, k)
      /\ Heard(m, n)' = Heard(m, n) + (IF flag = "kBarrier" THEN 1 ELSE 0)
      /\ flag = "kExit" => wire'[m][n] = <<>> /\ m = n /\ pc[n] = "joining"
  BY <1>1, ReceiveKeeps
<1>3. Heard(m, n) \in Nat
  BY NetInvParts
<1>4. QED
  BY <1>1, <1>2, <1>3

\* The initial states, and the steps that change nothing of the mailboxes.
LEMMA NetInitKeeps ==
    ASSUME NEW S, NetInit
    PROVE  NetInv(S) /\ \A m, n \in Nodes : Heard(m, n) = 0
<1> USE DEF NetInit
<1>1. \A m, n \in Nodes : wire[m][n] = <<>> /\ Len(wire[m][n]) = 0
  BY EmptySeq
<1>2. NetTyped(S)
  <2>1. <<>> \in Seq(S)
    BY EmptySeq
  <2>2. QED
    BY <2>1, MailboxAssumption DEF NetTyped, Places
<1>3. OneAtATime
  BY DEF OneAtATime
<1>4. ChannelsInOrder
  BY <1>1 DEF ChannelsInOrder, InOrder
<1>5. ExitIsLast
  BY <1>1 DEF ExitIsLast
<1>6. \A m, n \in Nodes : Heard(m, n) = 0
  BY <1>1 DEF Heard, FirstRound
<1>7. QED
  BY <1>2, <1>3, <1>4, <1>5, <1>6 DEF NetInv

LEMMA NetStutterKeeps ==
    ASSUME NEW S, NetInv(S), UNCHANGED netVars
    PROVE  /\ NetInv(S)'
           /\ \A j, k \in Nodes : Heard(j, k)' = Heard(j, k)
BY DEF netVars, NetInv, NetTyped, OneAtATime, ChannelsInOrder, ExitIsLast, Heard

LEMMA MessageDated == Dated(Message) /\ Signals \subseteq Message
BY DEF Dated, Message, Signals

\* A receiver that has heard of all calls of Barrier when it exits has received
\* all that was sent before them.
LEMMA AllHeardAtStop ==
    ASSUME NEW S, Dated(S), NetInv(S),
           \A m, n \in Nodes : pc[n] = "stopped" => Heard(m, n) >= MaxBarriers
    PROVE  StopLosesNothing
<1> SUFFICES ASSUME NEW m \in Nodes, NEW n \in Nodes, pc[n] = "stopped",
                    NEW i \in 1 .. Len(wire[m][n])
             PROVE  wire[m][n][i].version = MaxBarriers
  BY DEF StopLosesNothing
<1>1. Heard(m, n) \in Nat /\ Heard(m, n) >= MaxBarriers /\ MaxBarriers \in Nat
  BY NetInvParts, MailboxAssumption
<1>2. wire[m][n][i] \in S
  <2>1. wire[m][n] \in Seq(S)
    BY NetInvParts
  <2>2. QED
    BY <2>1, ElementOfSeq
<1>3. wire[m][n][i].version \in Nat /\ wire[m][n][i].version <= MaxBarriers
  BY <1>1, <1>2 DEF Dated
<1>4. wire[m][n][i].flag # "kExit"
  BY DEF NetInv, ExitIsLast
<1>5. Heard(m, n) <= RoundBefore(wire[m][n][i], entered[m])
  BY NetInvParts
<1>6. RoundBefore(wire[m][n][i], entered[m]) = wire[m][n][i].version
  BY <1>4 DEF RoundBefore
<1>7. QED
  BY <1>1, <1>3, <1>5, <1>6
=============================================================================
