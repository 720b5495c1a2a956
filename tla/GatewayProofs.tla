---------------------------- MODULE GatewayProofs ----------------------------
(***************************************************************************)
(* Theorems about the gateway's program.                                   *)
(*                                                                         *)
(* The just-in-time queue between its two threads (GwDownlink), for any    *)
(* packets, times, delays and queue size, and for any pace at which the    *)
(* threads run.  The lemmas about sorting come first, then those about the *)
(* three ways a queue changes.                                             *)
(*                                                                         *)
(* The same queue on a timely host (Timely): a packet that is let in is    *)
(* further off than thread_jit ever sleeps, so the first one is always     *)
(* seen before its time (HeadAhead), and what is outdated stands behind    *)
(* a later packet that the sort left in front.  The packet that is taken   *)
(* is due (HeadDue, HandDue); those beside it were let in clear of it and  *)
(* come after its end (AirClear).                                          *)
(*                                                                         *)
(* The time synchronisation (GwTimeSync), for any clocks, delays of        *)
(* requests and answers, waits and intervals, and for answers that come    *)
(* late, in the middle of a later round.  Two things are assumed (Sound):  *)
(* t0 is recorded before the answer comes back, without which              *)
(* OffsetAccurate is violated, and no token is used again in the time      *)
(* considered.  The argument: all that is under way is ordered by its      *)
(* tokens (InOrder) and none of it is newer than the thread's token        *)
(* (NoneNewer), so that an answer with that token was given to this        *)
(* request; the stamps it carries then lie between the reading of the      *)
(* gateway's clock for it and now (Stamped), and the rest is arithmetic    *)
(* (OffsetBound).                                                          *)
(*                                                                         *)
(* The configuration (GwConfig), for any files and any numbers of radios   *)
(* and channels.  What is left of the sections is a rest of the parser's   *)
(* order (FromPlace); up to there the library holds what the file says,    *)
(* and from there what lay under it (Made), and all before was accepted.   *)
(***************************************************************************)
EXTENDS MCGateway, FiniteSetTheorems, SequenceTheorems, TLAPS

-----------------------------------------------------------------------------
(* Sorting.                                                                 *)

\* The same nodes in another order.
Rearranged(after, before) ==
    /\ Len(after) = Len(before)
    /\ \E p \in Orders(Len(before)) : \A k \in 1 .. Len(before) : after[k] = before[p[k]]

\* An order leaves no place out.
LEMMA OrdersReachAll ==
    ASSUME NEW n \in Nat, NEW p \in Orders(n), NEW j \in 1 .. n
    PROVE  \E k \in 1 .. n : p[k] = j
<1>1. p \in Injection(1 .. n, 1 .. n)
  BY DEF Orders, Injection, IsInjective
<1>2. IsFiniteSet(1 .. n)
  BY FS_Interval
<1>3. p \in Surjection(1 .. n, 1 .. n)
  BY <1>1, <1>2, FS_Injection
<1> QED
  BY <1>3 DEF Surjection

\* Whatever order the inconsistent compare() leads to, sorting loses no node.
LEMMA SortRearranges ==
    ASSUME NEW before \in Seq(Node), NEW after \in jit_sort_queue(before)
    PROVE  after \in Seq(Node) /\ Rearranged(after, before)
<1>1. Len(before) \in Nat /\ \A k \in 1 .. Len(before) : before[k] \in Node
  BY LenProperties, ElementOfSeq
<1>2. PICK p \in Orders(Len(before)) : after = [k \in 1 .. Len(before) |-> before[p[k]]]
  BY DEF jit_sort_queue
<1>3. \A k \in 1 .. Len(before) : p[k] \in 1 .. Len(before)
  BY <1>2 DEF Orders
<1>4. after \in [1 .. Len(before) -> Node]
  BY <1>1, <1>2, <1>3
<1>5. after \in Seq(Node) /\ Len(after) = Len(before)
  BY <1>1, <1>4, SeqDef, LenProperties
<1> QED
  BY <1>2, <1>5 DEF Rearranged

-----------------------------------------------------------------------------
(* What holds of a queue.                                                   *)

\* The reservations of two nodes do not overlap.
Apart(p, q) == FollowsClear(p, q) \/ FollowsClear(q, p)

Spread(lst) == \A k, l \in 1 .. Len(lst) : k # l => Apart(lst[k], lst[l])

\* No packet is there twice.
Single(lst) == \A k, l \in 1 .. Len(lst) : lst[k].pkt = lst[l].pkt => k = l

PktsOf(lst) == {lst[k].pkt : k \in 1 .. Len(lst)}

QueueOK(lst) == lst \in Seq(Node) /\ Spread(lst) /\ Single(lst)

\* All of it is kept when the nodes are put in another order.
LEMMA RearrangedKeeps ==
    ASSUME NEW before, QueueOK(before), NEW after \in Seq(Node), Rearranged(after, before)
    PROVE  QueueOK(after) /\ PktsOf(after) = PktsOf(before)
<1>1. Len(before) \in Nat
  BY LenProperties DEF QueueOK
<1>2. PICK p \in Orders(Len(before)) : \A k \in 1 .. Len(before) : after[k] = before[p[k]]
  BY DEF Rearranged
<1>3. /\ \A k \in 1 .. Len(before) : p[k] \in 1 .. Len(before)
      /\ \A k, l \in 1 .. Len(before) : p[k] = p[l] => k = l
  BY <1>2 DEF Orders
<1>4. Len(after) = Len(before)
  BY DEF Rearranged
<1>5. Spread(after)
  <2> SUFFICES ASSUME NEW k \in 1 .. Len(before), NEW l \in 1 .. Len(before), k # l
               PROVE  Apart(after[k], after[l])
    BY <1>4 DEF Spread
  <2>1. p[k] \in 1 .. Len(before) /\ p[l] \in 1 .. Len(before) /\ p[k] # p[l]
    BY <1>3
  <2>2. Apart(before[p[k]], before[p[l]])
    BY <2>1 DEF QueueOK, Spread
  <2> QED
    BY <1>2, <2>2
<1>6. Single(after)
  <2> SUFFICES ASSUME NEW k \in 1 .. Len(before), NEW l \in 1 .. Len(before),
                      after[k].pkt = after[l].pkt
               PROVE  k = l
    BY <1>4 DEF Single
  <2>1. before[p[k]].pkt = before[p[l]].pkt
    BY <1>2
  <2>2. p[k] = p[l]
    BY <1>3, <2>1 DEF QueueOK, Single
  <2> QED
    BY <1>3, <2>2
<1>7. PktsOf(after) \subseteq PktsOf(before)
  BY <1>2, <1>3, <1>4 DEF PktsOf
<1>8. ASSUME NEW j \in 1 .. Len(before)
      PROVE  before[j].pkt \in PktsOf(after)
  <2>1. PICK k \in 1 .. Len(before) : p[k] = j
    BY <1>1, <1>2, OrdersReachAll
  <2>2. after[k].pkt = before[j].pkt
    BY <1>2, <2>1
  <2> QED
    BY <1>4, <2>2 DEF PktsOf
<1>9. PktsOf(before) \subseteq PktsOf(after)
  BY <1>8 DEF PktsOf
<1> QED
  BY <1>5, <1>6, <1>7, <1>9 DEF QueueOK

\* Sorting keeps the queue's packets and their distances.
LEMMA SortKeeps ==
    ASSUME NEW before, QueueOK(before), NEW after \in jit_sort_queue(before)
    PROVE  QueueOK(after) /\ PktsOf(after) = PktsOf(before) /\ Len(after) = Len(before)
<1>1. after \in Seq(Node) /\ Rearranged(after, before)
  BY SortRearranges DEF QueueOK
<1> QED
  BY <1>1, RearrangedKeeps DEF Rearranged

-----------------------------------------------------------------------------
(* The collision test.                                                      *)

\* The remainder of a division is never more than what was divided.
LEMMA RemainderBelow ==
    ASSUME NEW x \in Nat
    PROVE  x % Word \in Nat /\ x % Word <= x
<1>1. PICK w \in Nat : w = Word /\ w > 0
  BY DelayAssumption
<1>2. x % w \in 0 .. w - 1
  BY <1>1
<1>3. x % w <= x
  BY <1>1
<1> QED
  BY <1>1, <1>2, <1>3

\* Packets that pass the test do not overlap, although the code takes the
\* difference of their times modulo 2^32.
LEMMA TestKeepsApart ==
    ASSUME NEW p \in Node, NEW q \in Node, ~ jit_collision_test(p, q)
    PROVE  Apart(p, q)
<1>1. /\ p.tx \in Nat /\ q.tx \in Nat /\ p.post \in Nat /\ q.post \in Nat
      /\ PreDelay \in Nat /\ TX_MARGIN_DELAY \in Nat
  BY DelayAssumption DEF Node, Time, PreDelay
<1> HIDE DEF PreDelay
<1>2. CASE p.tx <= q.tx
  <2>1. PICK d \in Nat : d = q.tx - p.tx
    BY <1>1, <1>2
  <2>2. d % Word \in Nat /\ d % Word <= d
    BY RemainderBelow
  <2>3. ~ (d % Word <= PreDelay + p.post + TX_MARGIN_DELAY)
    BY <1>2, <2>1 DEF jit_collision_test
  <2>4. d > PreDelay + p.post + TX_MARGIN_DELAY
    BY <1>1, <2>2, <2>3
  <2> QED
    BY <2>1, <2>4 DEF Apart, FollowsClear
<1>3. CASE ~ (p.tx <= q.tx)
  <2>1. PICK d \in Nat : d = p.tx - q.tx
    BY <1>1, <1>3
  <2>2. d % Word \in Nat /\ d % Word <= d
    BY RemainderBelow
  <2>3. ~ (d % Word <= PreDelay + q.post + TX_MARGIN_DELAY)
    BY <1>3, <2>1 DEF jit_collision_test
  <2>4. d > PreDelay + q.post + TX_MARGIN_DELAY
    BY <1>1, <2>2, <2>3
  <2> QED
    BY <2>1, <2>4 DEF Apart, FollowsClear
<1> QED
  BY <1>2, <1>3

-----------------------------------------------------------------------------
(* Insertion and removal.                                                   *)

\* A new packet that passed the tests joins the queue; nothing else changes.
LEMMA InsertKeeps ==
    ASSUME NEW lst, QueueOK(lst), NEW node \in Node, node.pkt \notin PktsOf(lst),
           ~ Collides(lst, node), NEW after \in Enqueued(lst, node)
    PROVE  /\ QueueOK(after)
           /\ PktsOf(after) = PktsOf(lst) \cup {node.pkt}
           /\ Len(after) = Len(lst) + 1
<1> DEFINE longer == Append(lst, node)
<1>1. lst \in Seq(Node) /\ Len(lst) \in Nat /\ \A k \in 1 .. Len(lst) : lst[k] \in Node
  BY LenProperties, ElementOfSeq DEF QueueOK
<1>2. /\ longer \in Seq(Node) /\ Len(longer) = Len(lst) + 1
      /\ \A k \in 1 .. Len(lst) : longer[k] = lst[k]
      /\ longer[Len(lst) + 1] = node
  BY <1>1, AppendProperties
<1>3. after \in jit_sort_queue(longer)
  BY DEF Enqueued
<1> HIDE DEF longer
<1>4. \A k \in 1 .. Len(longer) : k \in 1 .. Len(lst) \/ k = Len(lst) + 1
  BY <1>1, <1>2
<1>5. \A k \in 1 .. Len(lst) : Apart(node, lst[k]) /\ Apart(lst[k], node)
  <2> SUFFICES ASSUME NEW k \in 1 .. Len(lst)
               PROVE  Apart(node, lst[k]) /\ Apart(lst[k], node)
    OBVIOUS
  <2>1. ~ jit_collision_test(node, lst[k])
    BY DEF Collides
  <2>2. Apart(node, lst[k])
    BY <1>1, <2>1, TestKeepsApart
  <2> QED
    BY <2>2 DEF Apart
<1>6. Spread(longer)
  <2> SUFFICES ASSUME NEW k \in 1 .. Len(longer), NEW l \in 1 .. Len(longer), k # l
               PROVE  Apart(longer[k], longer[l])
    BY DEF Spread
  <2>1. CASE k \in 1 .. Len(lst) /\ l \in 1 .. Len(lst)
    BY <1>2, <2>1 DEF QueueOK, Spread
  <2>2. CASE k \in 1 .. Len(lst) /\ l = Len(lst) + 1
    BY <1>2, <1>5, <2>2
  <2>3. CASE k = Len(lst) + 1 /\ l \in 1 .. Len(lst)
    BY <1>2, <1>5, <2>3
  <2> QED
    BY <1>4, <2>1, <2>2, <2>3
<1>7. \A k \in 1 .. Len(lst) : lst[k].pkt # node.pkt
  BY DEF PktsOf
<1>8. Single(longer)
  <2> SUFFICES ASSUME NEW k \in 1 .. Len(longer), NEW l \in 1 .. Len(longer),
                      longer[k].pkt = longer[l].pkt
               PROVE  k = l
    BY DEF Single
  <2>1. CASE k \in 1 .. Len(lst) /\ l \in 1 .. Len(lst)
    BY <1>2, <2>1 DEF QueueOK, Single
  <2> QED
    BY <1>2, <1>4, <1>7, <2>1
<1>9. PktsOf(longer) = PktsOf(lst) \cup {node.pkt}
  <2>1. PktsOf(longer) \subseteq PktsOf(lst) \cup {node.pkt}
    BY <1>2, <1>4 DEF PktsOf
  <2>2. \A k \in 1 .. Len(lst) : k \in 1 .. Len(longer)
    BY <1>1, <1>2
  <2>3. PktsOf(lst) \subseteq PktsOf(longer)
    BY <1>2, <2>2 DEF PktsOf
  <2>4. Len(lst) + 1 \in 1 .. Len(longer)
    BY <1>1, <1>2
  <2>5. node.pkt \in PktsOf(longer)
    BY <1>2, <2>4 DEF PktsOf
  <2> QED
    BY <2>1, <2>3, <2>5
<1>10. QueueOK(longer)
  BY <1>2, <1>6, <1>8 DEF QueueOK
<1> QED
  BY <1>2, <1>3, <1>9, <1>10, SortKeeps

\* Moving the last node into the hole loses the node taken out and no other.
LEMMA RemoveKeeps ==
    ASSUME NEW lst, QueueOK(lst), NEW m \in 1 .. Len(lst), NEW after \in WithoutNode(lst, m)
    PROVE  /\ QueueOK(after)
           /\ PktsOf(after) = PktsOf(lst) \ {lst[m].pkt}
           /\ Len(after) = Len(lst) - 1
<1> DEFINE n == Len(lst)
           from(k) == IF k = m THEN n ELSE k
           shorter == [k \in 1 .. n - 1 |-> IF k = m THEN lst[n] ELSE lst[k]]
<1>1. lst \in Seq(Node) /\ n \in Nat /\ m \in 1 .. n /\ \A k \in 1 .. n : lst[k] \in Node
  BY LenProperties, ElementOfSeq DEF QueueOK
<1>2. after \in jit_sort_queue(shorter)
  BY DEF WithoutNode
<1>3. /\ \A k \in 1 .. n - 1 : from(k) \in 1 .. n /\ from(k) # m
      /\ \A k, l \in 1 .. n - 1 : from(k) = from(l) => k = l
      /\ \A j \in 1 .. n : j # m => \E k \in 1 .. n - 1 : from(k) = j
  <2>1. \A k \in 1 .. n - 1 : from(k) \in 1 .. n /\ from(k) # m
    BY <1>1
  <2>2. \A k, l \in 1 .. n - 1 : from(k) = from(l) => k = l
    BY <1>1
  <2>3. ASSUME NEW j \in 1 .. n, j # m PROVE \E k \in 1 .. n - 1 : from(k) = j
    <3>1. CASE j = n
      <4>1. m \in 1 .. n - 1 /\ from(m) = j
        BY <1>1, <2>3, <3>1
      <4> QED
        BY <4>1
    <3>2. CASE j # n
      <4>1. j \in 1 .. n - 1 /\ from(j) = j
        BY <1>1, <2>3, <3>2
      <4> QED
        BY <4>1
    <3> QED
      BY <3>1, <3>2
  <2> QED
    BY <2>1, <2>2, <2>3
<1>4. \A k \in 1 .. n - 1 : shorter[k] = lst[from(k)]
  OBVIOUS
<1>5. shorter \in [1 .. n - 1 -> Node] /\ n - 1 \in Nat
  BY <1>1
<1>6. shorter \in Seq(Node) /\ Len(shorter) = n - 1
  BY <1>5, SeqDef, LenProperties
<1> HIDE DEF shorter, from
<1>7. Spread(shorter)
  <2> SUFFICES ASSUME NEW k \in 1 .. n - 1, NEW l \in 1 .. n - 1, k # l
               PROVE  Apart(shorter[k], shorter[l])
    BY <1>6 DEF Spread
  <2>1. from(k) \in 1 .. n /\ from(l) \in 1 .. n /\ from(k) # from(l)
    BY <1>3
  <2>2. Apart(lst[from(k)], lst[from(l)])
    BY <2>1 DEF QueueOK, Spread
  <2> QED
    BY <1>4, <2>2
<1>8. Single(shorter)
  <2> SUFFICES ASSUME NEW k \in 1 .. n - 1, NEW l \in 1 .. n - 1,
                      shorter[k].pkt = shorter[l].pkt
               PROVE  k = l
    BY <1>6 DEF Single
  <2>1. from(k) = from(l)
    BY <1>3, <1>4 DEF QueueOK, Single
  <2> QED
    BY <1>3, <2>1
<1>9. ASSUME NEW j \in 1 .. n, j # m PROVE lst[j].pkt # lst[m].pkt
  BY <1>9 DEF QueueOK, Single
<1>10. PktsOf(shorter) \subseteq PktsOf(lst) \ {lst[m].pkt}
  <2>1. ASSUME NEW k \in 1 .. n - 1 PROVE shorter[k].pkt \in PktsOf(lst) \ {lst[m].pkt}
    <3>1. PICK j \in 1 .. n : j = from(k) /\ j # m
      BY <1>3
    <3>2. shorter[k] = lst[j]
      BY <1>4, <3>1
    <3>3. lst[j].pkt # lst[m].pkt
      BY <1>9, <3>1
    <3> QED
      BY <3>2, <3>3 DEF PktsOf
  <2> QED
    BY <1>6, <2>1 DEF PktsOf
<1>11. PktsOf(lst) \ {lst[m].pkt} \subseteq PktsOf(shorter)
  <2>1. ASSUME NEW j \in 1 .. n, j # m PROVE lst[j].pkt \in PktsOf(shorter)
    <3>1. PICK k \in 1 .. n - 1 : from(k) = j
      BY <1>3, <2>1
    <3>2. shorter[k] = lst[j]
      BY <1>4, <3>1
    <3> QED
      BY <1>6, <3>2 DEF PktsOf
  <2> QED
    BY <2>1 DEF PktsOf
<1>12. QueueOK(shorter)
  BY <1>6, <1>7, <1>8 DEF QueueOK
<1> QED
  BY <1>2, <1>6, <1>10, <1>11, <1>12, SortKeeps

-----------------------------------------------------------------------------
(* The inductive invariant.  Beside the queue it says what the threads hold *)
(* between two critical sections: thread_down a packet that was never       *)
(* queued and, behind the full test, a free place; thread_jit a packet that *)
(* is queued no more.                                                       *)

InHand ==
    /\ downPc # "recv" => new \in Node /\ fate[new.pkt] = "unseen"
    /\ jitPc \in {"status", "send"} => hand \in Node /\ fate[hand.pkt] = "taken"

PlaceFree ==
    /\ Len(nodes) <= JIT_QUEUE_MAX
    /\ downPc = "insert" => Len(nodes) < JIT_QUEUE_MAX

\* The scan counts from 1.
Scanning == jitPc = "scan" => i >= 1

IInv ==
    /\ TypeOK
    /\ Scanning
    /\ QueueOK(nodes)
    /\ PktsOf(nodes) = {p \in Pkts : fate[p] = "queued"}
    /\ InHand
    /\ PlaceFree

\* The mark for an empty hand is none of the packets.
LEMMA NoNodeIsNone == NoNode \notin Node
  BY DownlinkAssumption DEF NoNode, Node

\* The queue starts empty.
LEMMA InitIInv == Init => IInv
<1> SUFFICES ASSUME Init PROVE IInv
  OBVIOUS
<1>1. nodes = << >> /\ nodes \in Seq(Node) /\ Len(nodes) = 0
  BY EmptySeq DEF Init, jit_queue_init
<1>2. QueueOK(nodes) /\ PktsOf(nodes) = {}
  BY <1>1 DEF QueueOK, Spread, Single, PktsOf
<1>3. PktsOf(nodes) = {p \in Pkts : fate[p] = "queued"}
  BY <1>2 DEF Init
<1>4. TypeOK
  <2>1. now \in 0 .. Horizon /\ i \in Nat /\ rest \in Nat /\ until \in Nat
    BY DownlinkAssumption DEF Init
  <2>2. fate \in [Pkts -> Fates]
    BY DEF Init, Fates
  <2>3. downPc = "recv" /\ new = NoNode /\ jitPc = "peek" /\ hand = NoNode
    BY DEF Init
  <2>4. emitting = NoPkt /\ exit_sig = FALSE /\ beside = {} /\ known = {}
    BY DEF Init
  <2> QED
    BY <1>1, <2>1, <2>2, <2>3, <2>4 DEF TypeOK
<1>5. InHand /\ PlaceFree /\ Scanning
  BY <1>1, DelayAssumption DEF Init, InHand, PlaceFree, Scanning
<1> QED
  BY <1>2, <1>3, <1>4, <1>5 DEF IInv

\* What an action that leaves the queue and the packets' fates alone has to
\* keep: the threads' own parts.
LEMMA QuietKeeps ==
    ASSUME IInv, UNCHANGED <<nodes, fate>>, TypeOK', InHand', Scanning',
           downPc' = "insert" => downPc = "insert" \/ Len(nodes) < JIT_QUEUE_MAX
    PROVE  IInv'
  BY DEF IInv, PlaceFree

-----------------------------------------------------------------------------
(* The steps of thread_down.                                                *)

\* A datagram adds at most a packet that was never queued.
LEMMA RecvKeeps ==
    ASSUME IInv, RecvDownlink \/ RecvClosed
    PROVE  IInv'
<1>1. CASE RecvDownlink
  <2>1. PICK p \in Pkts, tx \in TxTimes, post \in AirTimes :
           fate[p] = "unseen" /\ new' = [pkt |-> p, tx |-> tx, post |-> post]
    BY <1>1 DEF RecvDownlink
  <2>2. new' \in Node /\ new'.pkt = p
    BY <2>1, DownlinkAssumption DEF Node
  <2>3. /\ downPc' = "full"
        /\ UNCHANGED <<now, nodes, jitPc, i, hand, rest, beside, emitting, until, known,
                       exit_sig, fate>>
    BY <1>1 DEF RecvDownlink, jitVars, radioVars
  <2>4. TypeOK'
    BY <2>2, <2>3, NoNodeIsNone DEF IInv, TypeOK
  <2>5. InHand' /\ Scanning'
    BY <2>1, <2>2, <2>3 DEF IInv, InHand, Scanning
  <2> QED
    BY <2>3, <2>4, <2>5, QuietKeeps
<1>2. CASE RecvClosed
  <2>1. exit_sig' = TRUE /\ UNCHANGED <<now, nodes, downVars, jitVars, radioVars, fate>>
    BY <1>2 DEF RecvClosed
  <2>2. TypeOK' /\ InHand' /\ Scanning'
    BY <2>1 DEF IInv, TypeOK, InHand, Scanning, downVars, jitVars, radioVars
  <2> QED
    BY <2>1, <2>2, QuietKeeps DEF downVars
<1> QED
  BY <1>1, <1>2

\* A packet that is turned away was not in the queue.
LEMMA RejectKeeps ==
    ASSUME IInv, downPc # "recv", Reject,
           UNCHANGED <<now, nodes, jitVars, radioVars, exit_sig>>
    PROVE  IInv'
<1>1. /\ fate' = [fate EXCEPT ![new.pkt] = "rejected"] /\ downPc' = "recv" /\ new' = NoNode
      /\ UNCHANGED <<now, nodes, jitPc, i, hand, rest, beside, emitting, until, known, exit_sig>>
  BY DEF Reject, jitVars, radioVars
<1>2. new.pkt \in Pkts /\ fate[new.pkt] = "unseen" /\ fate \in [Pkts -> Fates]
  BY DEF IInv, InHand, Node, TypeOK
<1>3. TypeOK'
  <2>1. fate' \in [Pkts -> Fates]
    BY <1>1, <1>2 DEF Fates
  <2> QED
    BY <1>1, <2>1 DEF IInv, TypeOK
<1>4. {p \in Pkts : fate'[p] = "queued"} = {p \in Pkts : fate[p] = "queued"}
  BY <1>1, <1>2
<1>5. InHand'
  <2>1. jitPc' \in {"status", "send"} => hand' \in Node /\ fate'[hand'.pkt] = "taken"
    <3> SUFFICES ASSUME jitPc \in {"status", "send"}
                 PROVE  hand \in Node /\ fate'[hand.pkt] = "taken"
      BY <1>1
    <3>1. hand \in Node /\ hand.pkt \in Pkts /\ fate[hand.pkt] = "taken"
      BY DEF IInv, InHand, Node
    <3> QED
      BY <1>1, <1>2, <3>1
  <2> QED
    BY <1>1, <2>1 DEF InHand
<1> QED
  BY <1>1, <1>3, <1>4, <1>5 DEF IInv, PlaceFree, Scanning

\* The test for a full queue leaves room for one packet.
LEMMA TestFullKeeps ==
    ASSUME IInv, EnqueueTestFull
    PROVE  IInv'
<1>1. CASE jit_queue_is_full(nodes)
  <2>1. Reject /\ downPc # "recv" /\ UNCHANGED <<now, nodes, jitVars, radioVars, exit_sig>>
    BY <1>1 DEF EnqueueTestFull
  <2> QED
    BY <2>1, RejectKeeps
<1>2. CASE ~ jit_queue_is_full(nodes)
  <2>1. /\ downPc = "full" /\ downPc' = "insert"
        /\ UNCHANGED <<new, fate, now, nodes, jitVars, radioVars, exit_sig>>
    BY <1>2 DEF EnqueueTestFull
  <2>2. TypeOK' /\ InHand' /\ Scanning'
    BY <2>1 DEF IInv, TypeOK, InHand, Scanning, jitVars, radioVars
  <2>3. Len(nodes) < JIT_QUEUE_MAX
    <3>1. Len(nodes) \in Nat
      BY LenProperties DEF IInv, QueueOK
    <3> QED
      BY <1>2, <3>1, DelayAssumption DEF IInv, PlaceFree, jit_queue_is_full
  <2> QED
    BY <2>1, <2>2, <2>3, QuietKeeps
<1> QED
  BY <1>1, <1>2

\* A packet is put in only where it overlaps none.
LEMMA EnqueueKeeps ==
    ASSUME IInv, EnqueueInsert
    PROVE  IInv'
<1>0. downPc = "insert" /\ UNCHANGED <<now, jitVars, radioVars, exit_sig>>
  BY DEF EnqueueInsert
<1>1. CASE EnqueueResult(nodes, now, new) # "JIT_ERROR_OK"
  <2>1. Reject /\ UNCHANGED nodes
    BY <1>1 DEF EnqueueInsert
  <2> QED
    BY <1>0, <2>1, RejectKeeps
<1>2. CASE EnqueueResult(nodes, now, new) = "JIT_ERROR_OK"
  <2>1. /\ nodes' \in Enqueued(nodes, new)
        /\ fate' = [fate EXCEPT ![new.pkt] = "queued"]
        /\ downPc' = "recv" /\ new' = NoNode
    BY <1>2 DEF EnqueueInsert
  <2>2. ~ Collides(nodes, new)
    BY <1>2 DEF EnqueueResult
  <2>3. /\ new \in Node /\ new.pkt \in Pkts /\ fate[new.pkt] = "unseen"
        /\ fate \in [Pkts -> Fates]
    BY <1>0 DEF IInv, InHand, Node, TypeOK
  <2>4. new.pkt \notin PktsOf(nodes)
    BY <2>3 DEF IInv
  <2>5. /\ QueueOK(nodes') /\ PktsOf(nodes') = PktsOf(nodes) \cup {new.pkt}
        /\ Len(nodes') = Len(nodes) + 1
    <3>1. QueueOK(nodes)
      BY DEF IInv
    <3> QED
      BY <2>1, <2>2, <2>3, <2>4, <3>1, InsertKeeps
  <2>6. {p \in Pkts : fate'[p] = "queued"} = {p \in Pkts : fate[p] = "queued"} \cup {new.pkt}
    BY <2>1, <2>3
  <2>7. PktsOf(nodes') = {p \in Pkts : fate'[p] = "queued"}
    BY <2>5, <2>6 DEF IInv
  <2>8. Len(nodes') <= JIT_QUEUE_MAX
    <3>1. Len(nodes) \in Nat
      BY LenProperties DEF IInv, QueueOK
    <3>2. Len(nodes) < JIT_QUEUE_MAX
      BY <1>0 DEF IInv, PlaceFree
    <3> QED
      BY <2>5, <3>1, <3>2, DelayAssumption
  <2>9. TypeOK'
    <3>1. fate' \in [Pkts -> Fates]
      BY <2>1, <2>3 DEF Fates
    <3>2. nodes' \in Seq(Node)
      BY <2>5 DEF QueueOK
    <3> QED
      BY <1>0, <2>1, <3>1, <3>2 DEF IInv, TypeOK, jitVars, radioVars
  <2>10. InHand'
    <3> SUFFICES ASSUME jitPc \in {"status", "send"}
                 PROVE  hand \in Node /\ fate'[hand.pkt] = "taken"
      BY <1>0, <2>1 DEF InHand, jitVars
    <3>1. hand \in Node /\ hand.pkt \in Pkts /\ fate[hand.pkt] = "taken"
      BY DEF IInv, InHand, Node
    <3> QED
      BY <2>1, <2>3, <3>1
  <2>11. PlaceFree' /\ Scanning'
    BY <1>0, <2>1, <2>8 DEF PlaceFree, IInv, Scanning, jitVars
  <2> QED
    BY <2>5, <2>7, <2>9, <2>10, <2>11 DEF IInv
<1> QED
  BY <1>1, <1>2

-----------------------------------------------------------------------------
(* The steps of thread_jit.                                                 *)

\* Steps of thread_jit that only look leave the queue as it is.
LEMMA JitWaitsKeep ==
    ASSUME IInv, PeekStart \/ Wake \/ ScanNext \/ PeekEnd
    PROVE  IInv'
<1>1. /\ UNCHANGED <<now, nodes, downPc, new, hand, beside, emitting, until, known, exit_sig, fate>>
      /\ jitPc \in {"peek", "sleep", "scan"} /\ jitPc' \in {"peek", "sleep", "scan", "dequeue"}
  BY DEF PeekStart, Wake, ScanNext, PeekEnd, NextRound, downVars, radioVars
<1>2. i' \in Nat /\ rest' \in Nat
  <2>1. i \in Nat /\ rest \in Nat
    BY DEF IInv, TypeOK
  <2> QED
    BY <2>1, DownlinkAssumption DEF PeekStart, Wake, ScanNext, PeekEnd, NextRound
<1>3. TypeOK'
  BY <1>1, <1>2 DEF IInv, TypeOK
<1>4. InHand'
  BY <1>1 DEF IInv, InHand
<1>5. Scanning'
  <2>1. i \in Nat
    BY DEF IInv, TypeOK
  <2> QED
    BY <2>1 DEF PeekStart, Wake, ScanNext, PeekEnd, NextRound, IInv, Scanning
<1> QED
  BY <1>1, <1>3, <1>4, <1>5, QuietKeeps

\* What both ways of taking a node out have in common.
LEMMA TakeOutKeeps ==
    ASSUME IInv, NEW m \in 1 .. Len(nodes), NEW why \in Fates, why # "queued",
           nodes' \in WithoutNode(nodes, m), fate' = [fate EXCEPT ![nodes[m].pkt] = why],
           UNCHANGED <<downPc, new>>
    PROVE  /\ QueueOK(nodes') /\ PktsOf(nodes') = {p \in Pkts : fate'[p] = "queued"}
           /\ PlaceFree'
           /\ fate' \in [Pkts -> Fates]
           /\ downPc' # "recv" => new' \in Node /\ fate'[new'.pkt] = "unseen"
           /\ nodes[m] \in Node /\ nodes[m].pkt \in Pkts
           /\ \A p \in Pkts : p # nodes[m].pkt => fate'[p] = fate[p]
           /\ fate[nodes[m].pkt] = "queued" /\ fate'[nodes[m].pkt] = why
<1>1. QueueOK(nodes) /\ fate \in [Pkts -> Fates]
  BY DEF IInv, TypeOK
<1>2. /\ QueueOK(nodes') /\ PktsOf(nodes') = PktsOf(nodes) \ {nodes[m].pkt}
      /\ Len(nodes') = Len(nodes) - 1
  BY <1>1, RemoveKeeps
<1>3. nodes[m] \in Node /\ nodes[m].pkt \in Pkts
  <2>1. nodes[m] \in Node
    BY <1>1, ElementOfSeq DEF QueueOK
  <2> QED
    BY <2>1 DEF Node
<1>4. fate[nodes[m].pkt] = "queued"
  BY <1>3 DEF IInv, PktsOf
<1>5. /\ fate' \in [Pkts -> Fates] /\ fate'[nodes[m].pkt] = why
      /\ \A p \in Pkts : p # nodes[m].pkt => fate'[p] = fate[p]
  BY <1>1, <1>3
<1>6. PktsOf(nodes') = {p \in Pkts : fate'[p] = "queued"}
  BY <1>2, <1>5 DEF IInv
<1>7. PlaceFree'
  <2>1. Len(nodes) \in Nat
    BY <1>1, LenProperties DEF QueueOK
  <2> QED
    BY <1>2, <2>1, DelayAssumption DEF IInv, PlaceFree
<1>8. ASSUME downPc # "recv" PROVE new \in Node /\ fate'[new.pkt] = "unseen"
  <2>1. new \in Node /\ new.pkt \in Pkts /\ fate[new.pkt] = "unseen"
    BY <1>8 DEF IInv, InHand, Node
  <2> QED
    BY <1>4, <1>5, <2>1
<1> QED
  BY <1>2, <1>3, <1>4, <1>5, <1>6, <1>7, <1>8

\* A purge takes one node out and moves the last one into its place.
LEMMA ScanDropKeeps ==
    ASSUME IInv, ScanDrop
    PROVE  IInv'
<1>1. PICK m : m = i
  OBVIOUS
<1>2. /\ jitPc = "scan" /\ i' = 2
      /\ nodes' \in WithoutNode(nodes, m) /\ fate' = [fate EXCEPT ![nodes[m].pkt] = "outdated"]
      /\ UNCHANGED <<now, downPc, new, jitPc, hand, rest, beside, emitting, until, known, exit_sig>>
  BY <1>1 DEF ScanDrop, downVars, radioVars
<1>3. m \in 1 .. Len(nodes)
  <2>1. i \in Nat /\ Len(nodes) \in Nat /\ i >= 1
    BY <1>2, LenProperties DEF IInv, TypeOK, Scanning
  <2>2. i <= Len(nodes)
    BY DEF ScanDrop
  <2> QED
    BY <1>1, <2>1, <2>2
<1>4. /\ QueueOK(nodes') /\ PktsOf(nodes') = {p \in Pkts : fate'[p] = "queued"}
      /\ PlaceFree' /\ fate' \in [Pkts -> Fates]
      /\ downPc' # "recv" => new' \in Node /\ fate'[new'.pkt] = "unseen"
  BY <1>2, <1>3, TakeOutKeeps DEF Fates
<1>5. nodes' \in Seq(Node)
  BY <1>4 DEF QueueOK
<1>6. TypeOK'
  BY <1>2, <1>4, <1>5 DEF IInv, TypeOK
<1>7. InHand' /\ Scanning'
  BY <1>2, <1>4 DEF InHand, Scanning
<1> QED
  BY <1>4, <1>6, <1>7 DEF IInv

\* The packet taken is the one that leaves the queue, whichever it is.
LEMMA DequeueKeeps ==
    ASSUME IInv, Dequeue
    PROVE  IInv'
<1>1. jitPc = "dequeue" /\ UNCHANGED <<now, downPc, new, emitting, until, known, exit_sig>>
  BY DEF Dequeue, downVars, radioVars
<1>2. CASE jit_queue_is_empty(nodes)
  <2>1. /\ jitPc' = "peek" /\ rest' = 1 /\ i' = 0
        /\ UNCHANGED <<nodes, hand, beside, fate>>
    BY <1>2 DEF Dequeue, NextRound
  <2>2. TypeOK' /\ InHand' /\ Scanning'
    BY <1>1, <2>1 DEF IInv, TypeOK, InHand, Scanning
  <2> QED
    BY <1>1, <2>1, <2>2, QuietKeeps
<1>3. CASE ~ jit_queue_is_empty(nodes)
  <2>1. PICK m : m = 1
    OBVIOUS
  <2>2. /\ hand' = nodes[m] /\ nodes' \in WithoutNode(nodes, m)
        /\ fate' = [fate EXCEPT ![nodes[m].pkt] = "taken"]
        /\ beside' = Queued \ {nodes[m].pkt}
        /\ jitPc' = "status" /\ UNCHANGED <<rest, i>>
    BY <1>3, <2>1 DEF Dequeue
  <2>3. m \in 1 .. Len(nodes)
    <3>1. Len(nodes) \in Nat \ {0}
      BY <1>3, LenProperties, EmptySeq DEF jit_queue_is_empty, IInv, QueueOK
    <3> QED
      BY <2>1, <3>1
  <2>4. /\ QueueOK(nodes') /\ PktsOf(nodes') = {p \in Pkts : fate'[p] = "queued"}
        /\ PlaceFree' /\ fate' \in [Pkts -> Fates]
        /\ downPc' # "recv" => new' \in Node /\ fate'[new'.pkt] = "unseen"
        /\ nodes[m] \in Node /\ fate'[nodes[m].pkt] = "taken"
    BY <1>1, <2>2, <2>3, TakeOutKeeps DEF Fates
  <2>5. nodes' \in Seq(Node)
    BY <2>4 DEF QueueOK
  <2>6. beside' \subseteq Pkts
    <3>1. \A k \in 1 .. Len(nodes) : nodes[k] \in Node
      BY ElementOfSeq DEF IInv, QueueOK
    <3>2. Queued \subseteq Pkts
      BY <3>1 DEF Queued, Node
    <3> QED
      BY <2>2, <3>2
  <2>7. hand' # NoNode /\ hand' \in Node
    BY <2>2, <2>4, NoNodeIsNone
  <2>8. TypeOK'
    BY <1>1, <2>2, <2>4, <2>5, <2>6, <2>7 DEF IInv, TypeOK
  <2>9. InHand' /\ Scanning'
    BY <2>2, <2>4 DEF InHand, Scanning
  <2> QED
    BY <2>4, <2>8, <2>9 DEF IInv
<1> QED
  BY <1>2, <1>3

\* The packet in hand is not queued, whatever becomes of it.
LEMMA DropKeeps ==
    ASSUME IInv, jitPc \in {"status", "send"}, NEW why \in Fates \ {"queued"}, Drop(why),
           UNCHANGED <<now, nodes, downVars, beside, exit_sig>>,
           emitting' \in Pkts \cup {NoPkt}, until' \in Nat, known' \subseteq Pkts
    PROVE  IInv'
<1>1. /\ fate' = [fate EXCEPT ![hand.pkt] = why] /\ hand' = NoNode
      /\ jitPc' = "peek" /\ rest' = 1 /\ i' = 0
      /\ UNCHANGED <<now, nodes, downPc, new, beside, exit_sig>>
  BY DEF Drop, NextRound, downVars
<1>2. hand \in Node /\ hand.pkt \in Pkts /\ fate[hand.pkt] = "taken" /\ fate \in [Pkts -> Fates]
  BY DEF IInv, InHand, Node, TypeOK
<1>3. fate' \in [Pkts -> Fates]
  BY <1>1, <1>2
<1>4. {p \in Pkts : fate'[p] = "queued"} = {p \in Pkts : fate[p] = "queued"}
  BY <1>1, <1>2
<1>5. TypeOK'
  BY <1>1, <1>3 DEF IInv, TypeOK
<1>6. InHand'
  <2> SUFFICES ASSUME downPc # "recv" PROVE new \in Node /\ fate'[new.pkt] = "unseen"
    BY <1>1 DEF InHand
  <2>1. new \in Node /\ new.pkt \in Pkts /\ fate[new.pkt] = "unseen"
    BY DEF IInv, InHand, Node
  <2> QED
    BY <1>1, <1>2, <2>1
<1>7. PlaceFree' /\ Scanning'
  BY <1>1 DEF IInv, PlaceFree, Scanning
<1> QED
  BY <1>1, <1>4, <1>5, <1>6, <1>7 DEF IInv

\* A packet dropped after it was taken is not in the queue.
LEMMA StatusKeeps ==
    ASSUME IInv, Status
    PROVE  IInv'
<1>1. jitPc = "status" /\ UNCHANGED <<now, nodes, downVars, beside, radioVars, exit_sig>>
  BY DEF Status
<1>2. CASE Drop("radioBusy")
  <2>1. emitting' \in Pkts \cup {NoPkt} /\ until' \in Nat /\ known' \subseteq Pkts
    BY <1>1 DEF IInv, TypeOK, radioVars
  <2> QED
    BY <1>1, <1>2, <2>1, DropKeeps DEF Fates
<1>3. CASE jitPc' = "send" /\ UNCHANGED <<hand, rest, i, fate>>
  <2>1. TypeOK' /\ InHand' /\ Scanning'
    BY <1>1, <1>3 DEF IInv, TypeOK, InHand, Scanning, downVars, radioVars
  <2> QED
    BY <1>1, <1>3, <2>1, QuietKeeps DEF downVars
<1> QED
  BY <1>2, <1>3 DEF Status

\* A packet that is sent is not in the queue.
LEMMA SendKeeps ==
    ASSUME IInv, Send
    PROVE  IInv'
<1>1. jitPc = "send" /\ UNCHANGED <<now, nodes, downVars, beside, exit_sig>>
  BY DEF Send
<1>2. CASE /\ Drop("sent")
           /\ emitting' = hand.pkt
           /\ until' = now + TX_START_DELAY + hand.post
           /\ known' = beside
  <2>1. hand.pkt \in Pkts /\ hand.post \in Nat
    BY <1>1 DEF IInv, InHand, Node
  <2>2. until' \in Nat
    BY <1>2, <2>1, DelayAssumption, DownlinkAssumption DEF IInv, TypeOK
  <2>3. emitting' \in Pkts \cup {NoPkt} /\ known' \subseteq Pkts
    BY <1>2, <2>1 DEF IInv, TypeOK
  <2> QED
    BY <1>1, <1>2, <2>2, <2>3, DropKeeps DEF Fates
<1>3. CASE Drop("sendFailed") /\ UNCHANGED radioVars
  <2>1. emitting' \in Pkts \cup {NoPkt} /\ until' \in Nat /\ known' \subseteq Pkts
    BY <1>3 DEF IInv, TypeOK, radioVars
  <2> QED
    BY <1>1, <1>3, <2>1, DropKeeps DEF Fates
<1> QED
  BY <1>2, <1>3 DEF Send

\* Time passes without touching the queue.
LEMMA TickKeeps ==
    ASSUME IInv, Tick
    PROVE  IInv'
<1>1. /\ now < Horizon /\ now' = now + 1 /\ rest' = IF rest > 0 THEN rest - 1 ELSE 0
      /\ UNCHANGED <<nodes, downPc, new, jitPc, i, hand, beside, emitting, until, known,
                     exit_sig, fate>>
  BY DEF Tick, downVars, radioVars
<1>2. now' \in 0 .. Horizon /\ rest' \in Nat
  BY <1>1, DownlinkAssumption DEF IInv, TypeOK
<1>3. TypeOK' /\ InHand' /\ Scanning'
  BY <1>1, <1>2 DEF IInv, TypeOK, InHand, Scanning
<1> QED
  BY <1>1, <1>3, QuietKeeps

\* One case for each step of the two threads and of time.
LEMMA NextKeepsIInv == IInv /\ [Next]_vars => IInv'
<1> SUFFICES ASSUME IInv, [Next]_vars PROVE IInv'
  OBVIOUS
<1>1. CASE UNCHANGED vars
  BY <1>1 DEF vars, IInv, TypeOK, InHand, Scanning, PlaceFree
<1>2. CASE Next
  BY <1>2, TickKeeps, RecvKeeps, TestFullKeeps, EnqueueKeeps, JitWaitsKeep, ScanDropKeeps,
     DequeueKeeps, StatusKeeps, SendKeeps DEF Next, JitStep, DownStep
<1> QED
  BY <1>1, <1>2

-----------------------------------------------------------------------------

(* The types hold at any pace of the threads: in particular thread_jit has  *)
(* a packet in hand whenever it asks for the status and sends.              *)
THEOREM TypeCorrect == Spec => []TypeOK
<1>1. IInv => TypeOK
  BY DEF IInv
<1> QED
  BY <1>1, InitIInv, NextKeepsIInv, PTL DEF Spec

(* However packets come in, are taken out and are purged, the reservations  *)
(* of the queued ones never overlap, whatever the queue's order is and      *)
(* although times are subtracted modulo 2^32.                               *)
THEOREM ReservationsApart == Spec => []NoOverlap
<1>1. IInv => NoOverlap
  BY DEF IInv, QueueOK, Spread, Apart, NoOverlap
<1> QED
  BY <1>1, InitIInv, NextKeepsIInv, PTL DEF Spec

(* The place that the test for a full queue found free is still free in the *)
(* later critical section that fills it.                                    *)
THEOREM NeverOverfull == Spec => []QueueBounded
<1>1. IInv => QueueBounded
  BY DEF IInv, PlaceFree, QueueBounded
<1> QED
  BY <1>1, InitIInv, NextKeepsIInv, PTL DEF Spec

(* A packet that was queued and neither taken nor purged is in the queue    *)
(* exactly once: sorting and filling the hole with the last node neither    *)
(* lose nor double one.                                                     *)
THEOREM NoneLostNorDoubled == Spec => []QueuedOnce
<1>1. IInv => QueuedOnce
  BY DEF IInv, QueueOK, Single, PktsOf, Queued, QueuedOnce
<1> QED
  BY <1>1, InitIInv, NextKeepsIInv, PTL DEF Spec

-----------------------------------------------------------------------------
(* Times in the queue.  Facts about whole seconds and the order of a sorted *)
(* queue come first.                                                        *)

\* The time that thread_jit may be kept from a packet.
Delay == TX_MARGIN_DELAY + TX_JIT_DELAY

\* Quotient and remainder.
LEMMA Euclid ==
    ASSUME NEW t \in Int, NEW m \in Nat \ {0}
    PROVE  t = m * (t \div m) + (t % m) /\ t \div m \in Int /\ t % m \in 0 .. m - 1
  OBVIOUS

\* How far a multiple is from zero.
LEMMA Multiple ==
    ASSUME NEW m \in Nat \ {0}, NEW q \in Int
    PROVE  /\ m * q \in Int
           /\ q = 0 => m * q = 0
           /\ q >= 1 => m * q >= m
  OBVIOUS

\* Seconds go up with time.
LEMMA SecMonotone ==
    ASSUME NEW s \in Nat, NEW t \in Nat, s <= t
    PROVE  Sec(s) <= Sec(t) /\ Sec(s) \in Int /\ Sec(t) \in Int
<1> DEFINE qs == s \div TicksPerSec
           qt == t \div TicksPerSec
           rs == s % TicksPerSec
           rt == t % TicksPerSec
<1>1. /\ s = TicksPerSec * qs + rs /\ qs \in Int /\ rs \in 0 .. TicksPerSec - 1
      /\ t = TicksPerSec * qt + rt /\ qt \in Int /\ rt \in 0 .. TicksPerSec - 1
  BY Euclid, TimeAssumption
<1>2. Sec(s) = Epoch + qs /\ Sec(t) = Epoch + qt
  BY DEF Sec
<1> HIDE DEF qs, qt, rs, rt
<1>3. qs <= qt
  <2> SUFFICES ASSUME qs - qt >= 1 PROVE FALSE
    BY <1>1
  <2>1. /\ TicksPerSec * (qs - qt) >= TicksPerSec
        /\ TicksPerSec * qs \in Int /\ TicksPerSec * qt \in Int
    BY <1>1, Multiple, TimeAssumption
  <2>2. TicksPerSec * (qs - qt) = TicksPerSec * qs - TicksPerSec * qt
    BY <1>1, TimeAssumption
  <2> DEFINE a == TicksPerSec * qs
             b == TicksPerSec * qt
  <2>3. s = a + rs /\ t = b + rt /\ a - b >= TicksPerSec /\ a \in Int /\ b \in Int
    BY <1>1, <2>1, <2>2
  <2> HIDE DEF a, b
  <2> QED
    BY <1>1, <2>3, TimeAssumption
<1> QED
  BY <1>1, <1>2, <1>3, TimeAssumption

\* The seconds of Unix time are more than the microseconds of a second, so that
\* only the seconds are compared.
LEMMA CompareIs ==
    ASSUME NEW p \in Node, NEW q \in Node
    PROVE  compare(p, q) = IF Sec(p.tx) > Sec(q.tx) THEN 1 ELSE -1
<1>1. p.tx \in Nat /\ q.tx \in Nat
  BY DEF Node, Time
<1>2. Usec(p.tx) \in 0 .. TicksPerSec - 1
  <2> DEFINE t == p.tx
  <2>1. t \in Int
    BY <1>1
  <2> HIDE DEF t
  <2>2. t % TicksPerSec \in 0 .. TicksPerSec - 1
    BY <2>1, Euclid, TimeAssumption
  <2> QED
    BY <2>2 DEF Usec, t
<1>3. Sec(q.tx) >= Sec(0) /\ Sec(q.tx) \in Int
  BY <1>1, SecMonotone
<1>4. Sec(0) = Epoch
  BY Euclid, Multiple, TimeAssumption DEF Sec
<1>5. ~ (Usec(p.tx) > Sec(q.tx))
  BY <1>2, <1>3, <1>4, TimeAssumption
<1> QED
  BY <1>5 DEF compare

\* A packet that is not too late leaves the delay, whether the sum is carried or
\* not.
LEMMA NotTooLate ==
    ASSUME NEW t \in Nat, NEW tx \in Nat, ~ TooLate(t, tx)
    PROVE  tx >= t + Delay
<1> DEFINE q == t \div TicksPerSec
           r == t % TicksPerSec
           qx == tx \div TicksPerSec
           rx == tx % TicksPerSec
           u == r + Delay
           qu == u \div TicksPerSec
           ru == u % TicksPerSec
<1>1. /\ t = TicksPerSec * q + r /\ q \in Int /\ r \in 0 .. TicksPerSec - 1
      /\ tx = TicksPerSec * qx + rx /\ qx \in Int /\ rx \in 0 .. TicksPerSec - 1
  BY Euclid, TimeAssumption
<1>2. Delay \in Nat
  BY DelayAssumption DEF Delay
<1>3. u = TicksPerSec * qu + ru /\ qu \in Int /\ ru \in 0 .. TicksPerSec - 1 /\ u \in Int
  <2>1. u \in Int
    BY <1>1, <1>2
  <2> QED
    BY <2>1, Euclid, TimeAssumption
<1>4. IF u > TicksPerSec
      THEN ~ (qx < q + qu \/ (qx = q + qu /\ rx <= ru))
      ELSE ~ (qx < q \/ (qx = q /\ rx <= u))
  <2>1. ~ NotAfter(tx, Later(t, Delay))
    BY DEF TooLate, Delay
  <2>2. CASE u > TicksPerSec
    <3>1. Later(t, Delay) = <<Epoch + q + qu, ru>>
      BY <2>2 DEF Later, Usec, Sec
    <3>2. ~ (Sec(tx) < Epoch + q + qu \/ (Sec(tx) = Epoch + q + qu /\ Usec(tx) <= ru))
      BY <2>1, <3>1 DEF NotAfter
    <3>3. Sec(tx) = Epoch + qx /\ Usec(tx) = rx
      BY DEF Sec, Usec
    <3> HIDE DEF q, r, qx, rx, u, qu, ru
    <3> QED
      BY <1>1, <1>3, <2>2, <3>2, <3>3, TimeAssumption
  <2>3. CASE ~ (u > TicksPerSec)
    <3>1. Later(t, Delay) = <<Epoch + q, u>>
      BY <2>3 DEF Later, Usec, Sec
    <3>2. ~ (Sec(tx) < Epoch + q \/ (Sec(tx) = Epoch + q /\ Usec(tx) <= u))
      BY <2>1, <3>1 DEF NotAfter
    <3>3. Sec(tx) = Epoch + qx /\ Usec(tx) = rx
      BY DEF Sec, Usec
    <3> HIDE DEF q, r, qx, rx, u, qu, ru
    <3> QED
      BY <1>1, <1>3, <2>3, <3>2, <3>3, TimeAssumption
  <2> QED
    BY <2>2, <2>3
<1>5. u = r + Delay
  OBVIOUS
<1> HIDE DEF q, r, qx, rx, u, qu, ru
<1> DEFINE T(n) == TicksPerSec * n
<1>6. ASSUME NEW n \in Int, NEW m \in Int PROVE T(n) \in Int /\ T(m + n) = T(m) + T(n)
                                             /\ (m > n => T(m) >= T(n) + TicksPerSec)
  <2>1. T(n) \in Int /\ T(m) \in Int /\ T(m - n) \in Int
    BY <1>6, Multiple, TimeAssumption
  <2>2. T(m + n) = T(m) + T(n) /\ T(m - n) = T(m) - T(n)
    BY <1>6, TimeAssumption
  <2>3. m > n => T(m - n) >= TicksPerSec
    BY <1>6, Multiple, TimeAssumption
  <2> HIDE DEF T
  <2> QED
    BY <2>1, <2>2, <2>3, TimeAssumption
<1>7. t = T(q) + r /\ tx = T(qx) + rx /\ u = T(qu) + ru
  BY <1>1, <1>3
<1> HIDE DEF T
<1>8. CASE u > TicksPerSec
  <2>1. T(q + qu) = T(q) + T(qu) /\ T(q) \in Int /\ T(qu) \in Int /\ T(qx) \in Int
    BY <1>1, <1>3, <1>6
  <2>2. CASE qx > q + qu
    <3>1. T(qx) >= T(q + qu) + TicksPerSec
      BY <1>1, <1>3, <1>6, <2>2
    <3> QED
      BY <1>1, <1>2, <1>3, <1>5, <1>7, <2>1, <3>1, TimeAssumption
  <2>3. CASE qx = q + qu /\ rx > ru
    BY <1>1, <1>2, <1>3, <1>5, <1>7, <2>1, <2>3, TimeAssumption
  <2> QED
    BY <1>1, <1>3, <1>4, <1>8, <2>2, <2>3
<1>9. CASE ~ (u > TicksPerSec)
  <2>1. T(q) \in Int /\ T(qx) \in Int
    BY <1>1, <1>6
  <2>2. CASE qx > q
    <3>1. T(qx) >= T(q) + TicksPerSec
      BY <1>1, <1>6, <2>2
    <3> QED
      BY <1>1, <1>2, <1>3, <1>5, <1>7, <1>9, <2>1, <3>1, TimeAssumption
  <2>3. CASE qx = q /\ rx > u
    BY <1>1, <1>2, <1>3, <1>5, <1>7, <2>1, <2>3, TimeAssumption
  <2> QED
    BY <1>1, <1>3, <1>4, <1>9, <2>2, <2>3
<1> QED
  BY <1>8, <1>9

\* A queue in the order of its seconds.
BySecond(lst) == \A k, l \in 1 .. Len(lst) : k < l => Sec(lst[k].tx) <= Sec(lst[l].tx)

\* Sorting makes that order, and puts nothing of the same second before the first.
LEMMA SortSorts ==
    ASSUME NEW before \in Seq(Node), NEW after \in jit_sort_queue(before)
    PROVE  /\ BySecond(after)
           /\ Len(after) = Len(before)
           /\ \A k \in 1 .. Len(after) : \E j \in 1 .. Len(before) : after[k] = before[j]
           /\ Len(before) > 0 => \/ after[1] = before[1]
                                 \/ Sec(after[1].tx) < Sec(before[1].tx)
<1> DEFINE n == Len(before)
<1>1. n \in Nat /\ \A k \in 1 .. n : before[k] \in Node
  BY LenProperties, ElementOfSeq
<1>2. PICK p \in Orders(n) :
         /\ after = [k \in 1 .. n |-> before[p[k]]]
         /\ \A k \in 1 .. n : \A l \in k + 1 .. n :
               IF p[k] < p[l]
               THEN compare(before[p[k]], before[p[l]]) <= 0
               ELSE compare(before[p[l]], before[p[k]]) > 0
  BY DEF jit_sort_queue
<1>3. /\ \A k \in 1 .. n : p[k] \in 1 .. n /\ after[k] = before[p[k]]
      /\ Len(after) = n
  <2>1. \A k \in 1 .. n : p[k] \in 1 .. n
    BY <1>2 DEF Orders
  <2>2. after \in [1 .. n -> Node]
    BY <1>1, <1>2, <2>1
  <2> QED
    BY <1>1, <1>2, <2>1, <2>2, SeqDef, LenProperties
<1> DEFINE S(k) == Sec(before[k].tx)
<1>4. \A k \in 1 .. n : S(k) \in Int
  <2> TAKE k \in 1 .. n
  <2>1. before[k].tx \in Nat
    BY <1>1 DEF Node, Time
  <2> QED
    BY <2>1, SecMonotone
<1>5. ASSUME NEW k \in 1 .. n, NEW l \in 1 .. n, k < l
      PROVE  IF p[k] < p[l] THEN S(p[k]) <= S(p[l]) ELSE S(p[k]) < S(p[l])
  <2>1. l \in k + 1 .. n
    BY <1>1, <1>5
  <2>2. /\ p[k] < p[l] => compare(before[p[k]], before[p[l]]) <= 0
        /\ ~ (p[k] < p[l]) => compare(before[p[l]], before[p[k]]) > 0
    BY <1>2, <2>1
  <2>3. /\ compare(before[p[k]], before[p[l]]) = IF S(p[k]) > S(p[l]) THEN 1 ELSE -1
        /\ compare(before[p[l]], before[p[k]]) = IF S(p[l]) > S(p[k]) THEN 1 ELSE -1
    BY <1>1, <1>3, CompareIs
  <2>4. S(p[k]) \in Int /\ S(p[l]) \in Int
    BY <1>3, <1>4
  <2> HIDE DEF S
  <2> QED
    BY <2>2, <2>3, <2>4
<1>6. BySecond(after)
  <2> SUFFICES ASSUME NEW k \in 1 .. n, NEW l \in 1 .. n, k < l
               PROVE  Sec(after[k].tx) <= Sec(after[l].tx)
    BY <1>3 DEF BySecond
  <2>1. after[k] = before[p[k]] /\ after[l] = before[p[l]]
    BY <1>3
  <2>2. S(p[k]) <= S(p[l])
    <3>1. S(p[k]) \in Int /\ S(p[l]) \in Int
      BY <1>3, <1>4
    <3> HIDE DEF S
    <3> QED
      BY <1>5, <3>1
  <2> QED
    BY <2>1, <2>2
<1>7. ASSUME n > 0 PROVE after[1] = before[1] \/ Sec(after[1].tx) < Sec(before[1].tx)
  <2>1. PICK l \in 1 .. n : p[l] = 1
    <3>1. 1 \in 1 .. n
      BY <1>1, <1>7
    <3> QED
      BY <1>1, <3>1, OrdersReachAll
  <2>2. CASE l = 1
    BY <1>3, <2>1, <2>2
  <2>3. CASE l # 1
    <3>1. 1 \in 1 .. n /\ 1 < l
      BY <1>1, <2>3
    <3>2. p[1] \in 1 .. n /\ ~ (p[1] < p[l])
      BY <1>1, <1>3, <2>1, <3>1
    <3>3. S(p[1]) < S(1)
      BY <1>5, <2>1, <3>1, <3>2
    <3> QED
      BY <1>3, <3>1, <3>3
  <2> QED
    BY <2>2, <2>3
<1> QED
  BY <1>3, <1>6, <1>7

\* What comes in goes before the first packet only when it is earlier.
LEMMA InsertOrders ==
    ASSUME NEW lst \in Seq(Node), BySecond(lst), NEW node \in Node,
           NEW after \in Enqueued(lst, node)
    PROVE  /\ BySecond(after)
           /\ Len(after) > 0
           /\ \A k \in 1 .. Len(after) :
                 after[k] = node \/ \E j \in 1 .. Len(lst) : after[k] = lst[j]
           /\ Len(lst) > 0 => after[1] = lst[1] \/ (after[1] = node /\ node.tx < lst[1].tx)
<1> DEFINE longer == Append(lst, node)
           n == Len(lst)
<1>1. n \in Nat /\ \A k \in 1 .. n : lst[k] \in Node
  BY LenProperties, ElementOfSeq
<1>2. /\ longer \in Seq(Node) /\ Len(longer) = n + 1
      /\ \A k \in 1 .. n : longer[k] = lst[k]
      /\ longer[n + 1] = node
  BY <1>1, AppendProperties
<1>3. after \in jit_sort_queue(longer)
  BY DEF Enqueued
<1> HIDE DEF longer
<1>4. /\ BySecond(after) /\ Len(after) = n + 1
      /\ \A k \in 1 .. Len(after) : \E j \in 1 .. n + 1 : after[k] = longer[j]
      /\ after[1] = longer[1] \/ Sec(after[1].tx) < Sec(longer[1].tx)
  <2>1. longer \in Seq(Node) /\ Len(longer) > 0
    BY <1>1, <1>2
  <2>2. /\ BySecond(after) /\ Len(after) = Len(longer)
        /\ \A k \in 1 .. Len(after) : \E j \in 1 .. Len(longer) : after[k] = longer[j]
        /\ Len(longer) > 0 => \/ after[1] = longer[1]
                              \/ Sec(after[1].tx) < Sec(longer[1].tx)
    BY <1>3, <2>1, SortSorts
  <2> QED
    BY <1>2, <2>1, <2>2
<1>5. \A k \in 1 .. Len(after) : after[k] = node \/ \E j \in 1 .. n : after[k] = lst[j]
  <2> TAKE k \in 1 .. Len(after)
  <2>1. PICK j \in 1 .. n + 1 : after[k] = longer[j]
    BY <1>4
  <2>2. CASE j \in 1 .. n
    BY <1>2, <2>1, <2>2
  <2>3. CASE j = n + 1
    BY <1>2, <2>1, <2>3
  <2> QED
    BY <1>1, <2>2, <2>3
<1>6. ASSUME n > 0 PROVE after[1] = lst[1] \/ (after[1] = node /\ node.tx < lst[1].tx)
  <2>1. longer[1] = lst[1] /\ 1 \in 1 .. n /\ 1 \in 1 .. Len(after)
    BY <1>1, <1>2, <1>4, <1>6
  <2>2. CASE after[1] = lst[1]
    BY <2>2
  <2>3. CASE Sec(after[1].tx) < Sec(lst[1].tx)
    <3>1. lst[1].tx \in Nat /\ node.tx \in Nat
      BY <1>1, <2>1 DEF Node, Time
    <3>2. ASSUME NEW j \in 1 .. n PROVE after[1] # lst[j]
      <4>1. lst[j].tx \in Nat
        BY <1>1 DEF Node, Time
      <4>2. Sec(lst[1].tx) <= Sec(lst[j].tx)
        <5>1. CASE j = 1
          BY <3>1, <5>1, SecMonotone
        <5>2. CASE j # 1
          BY <2>1, <5>2 DEF BySecond
        <5> QED
          BY <5>1, <5>2
      <4>3. Sec(lst[1].tx) \in Int /\ Sec(lst[j].tx) \in Int
        BY <3>1, <4>1, SecMonotone
      <4> QED
        BY <2>3, <4>2, <4>3
    <3>3. after[1] = node
      BY <1>5, <2>1, <3>2
    <3>4. node.tx < lst[1].tx
      <4>1. Sec(node.tx) < Sec(lst[1].tx)
        BY <2>3, <3>3
      <4>2. lst[1].tx <= node.tx => Sec(lst[1].tx) <= Sec(node.tx)
        BY <3>1, SecMonotone
      <4>3. Sec(lst[1].tx) \in Int /\ Sec(node.tx) \in Int
        BY <3>1, SecMonotone
      <4> QED
        BY <3>1, <4>1, <4>2, <4>3
    <3> QED
      BY <3>3, <3>4
  <2> QED
    BY <1>4, <2>1, <2>2, <2>3
<1> QED
  BY <1>1, <1>4, <1>5, <1>6

\* When another node than the first is taken out the first stays in front.
LEMMA RemoveOrders ==
    ASSUME NEW lst \in Seq(Node), BySecond(lst), NEW m \in 1 .. Len(lst),
           NEW after \in WithoutNode(lst, m)
    PROVE  /\ BySecond(after)
           /\ Len(after) = Len(lst) - 1
           /\ \A k \in 1 .. Len(after) :
                 \E j \in 1 .. Len(lst) : j # m /\ after[k] = lst[j]
           /\ m # 1 => after[1] = lst[1]
<1> DEFINE n == Len(lst)
           from(k) == IF k = m THEN n ELSE k
           shorter == [k \in 1 .. n - 1 |-> IF k = m THEN lst[n] ELSE lst[k]]
<1>1. n \in Nat /\ m \in 1 .. n /\ \A k \in 1 .. n : lst[k] \in Node
  BY LenProperties, ElementOfSeq
<1>2. after \in jit_sort_queue(shorter)
  BY DEF WithoutNode
<1>3. \A k \in 1 .. n - 1 : from(k) \in 1 .. n /\ from(k) # m /\ shorter[k] = lst[from(k)]
  BY <1>1
<1>4. shorter \in Seq(Node) /\ Len(shorter) = n - 1
  <2>1. shorter \in [1 .. n - 1 -> Node] /\ n - 1 \in Nat
    BY <1>1
  <2> QED
    BY <2>1, SeqDef, LenProperties
<1>5. m # 1 => n - 1 > 0 /\ shorter[1] = lst[1]
  BY <1>1
<1> HIDE DEF shorter, from
<1>6. /\ BySecond(after) /\ Len(after) = n - 1
      /\ \A k \in 1 .. Len(after) : \E j \in 1 .. n - 1 : after[k] = shorter[j]
      /\ n - 1 > 0 => after[1] = shorter[1] \/ Sec(after[1].tx) < Sec(shorter[1].tx)
  BY <1>2, <1>4, SortSorts
<1>7. \A k \in 1 .. Len(after) : \E j \in 1 .. n : j # m /\ after[k] = lst[j]
  BY <1>3, <1>6
<1>8. ASSUME m # 1 PROVE after[1] = lst[1]
  <2> SUFFICES ASSUME Sec(after[1].tx) < Sec(lst[1].tx) PROVE FALSE
    BY <1>5, <1>6, <1>8
  <2>1. 1 \in 1 .. Len(after) /\ 1 \in 1 .. n
    BY <1>1, <1>5, <1>6, <1>8
  <2>2. PICK j \in 1 .. n : after[1] = lst[j]
    BY <1>7, <2>1
  <2>3. lst[1].tx \in Nat /\ lst[j].tx \in Nat
    BY <1>1, <2>1 DEF Node, Time
  <2>4. Sec(lst[1].tx) \in Int /\ Sec(lst[j].tx) \in Int
    BY <2>3, SecMonotone
  <2>5. j # 1 => Sec(lst[1].tx) <= Sec(lst[j].tx)
    BY <2>1 DEF BySecond
  <2> QED
    BY <2>2, <2>4, <2>5
<1> QED
  BY <1>6, <1>7, <1>8

-----------------------------------------------------------------------------
(* A timely host.  Each step keeps what TimeInv says of the times of the    *)
(* queued packets, of the packet in hand and of the one on the air.         *)

\* The host is timely, and the code's delays are long enough: the threshold is
\* 500 microseconds, the delay 11000, and the thread sleeps for 10000.
Timely ==
    /\ Pace = "timely"
    /\ TX_DEVIATION_THRESHOLD \in 1 .. Delay
    /\ SleepTicks < Delay

\* How long it may take until thread_jit has the mutex for its next scan.
Ahead == IF jitPc = "sleep" THEN rest + 1 ELSE rest

\* Time stands still while thread_jit works.
Punctual ==
    /\ jitPc = "peek" => rest <= 1
    /\ jitPc = "sleep" => rest <= SleepTicks
    /\ jitPc \notin {"peek", "sleep"} => rest = 0

\* The first packet is not missed.
HeadAhead == Len(nodes) > 0 => nodes[1].tx >= now + Ahead

\* What the scan has seen is not outdated.
Scanned ==
    jitPc = "scan" =>
        Len(nodes) > 0 /\ \A k \in 1 .. Len(nodes) : k < i => nodes[k].tx >= now

\* When a packet is to be taken out the first one is due, and none is outdated.
HeadDue ==
    jitPc = "dequeue" =>
        /\ Len(nodes) > 0 /\ nodes[1].tx < now + TX_DEVIATION_THRESHOLD
        /\ \A k \in 1 .. Len(nodes) : nodes[k].tx >= now

\* The packet in hand is due and the queued ones are not; those that were beside
\* it come after it.
HandDue ==
    jitPc \in {"status", "send"} =>
        /\ hand.tx >= now /\ hand.tx < now + TX_DEVIATION_THRESHOLD
        /\ hand.pkt \in known => hand.tx > until + Delay
        /\ \A k \in 1 .. Len(nodes) :
              /\ nodes[k].tx > now
              /\ nodes[k].pkt \in beside => FollowsClear(hand, nodes[k])

\* What was beside the packet on the air comes after its end.
AirClear == \A k \in 1 .. Len(nodes) : nodes[k].pkt \in known => nodes[k].tx > until + Delay

\* A packet that was not queued yet was beside none.
NewIsBesideNone == \A p \in Pkts : fate[p] = "unseen" => p \notin known \cup beside

TimeInv ==
    /\ Punctual /\ HeadAhead /\ Scanned /\ HeadDue /\ HandDue /\ AirClear
    /\ NewIsBesideNone /\ SortedBySecond

\* The numbers an argument about times is about.
LEMMA Numbers ==
    ASSUME IInv
    PROVE  /\ now \in Nat /\ rest \in Nat /\ i \in Nat /\ until \in Nat
           /\ nodes \in Seq(Node) /\ Len(nodes) \in Nat
           /\ \A k \in 1 .. Len(nodes) :
                 nodes[k] \in Node /\ nodes[k].tx \in Nat /\ nodes[k].post \in Nat
           /\ Delay \in Nat /\ SleepTicks \in Nat /\ TX_DEVIATION_THRESHOLD \in Nat
<1>1. now \in Nat /\ rest \in Nat /\ i \in Nat /\ until \in Nat /\ nodes \in Seq(Node)
  BY DownlinkAssumption DEF IInv, TypeOK
<1>2. Len(nodes) \in Nat /\ \A k \in 1 .. Len(nodes) : nodes[k] \in Node
  BY <1>1, LenProperties, ElementOfSeq
<1>3. \A k \in 1 .. Len(nodes) : nodes[k].tx \in Nat /\ nodes[k].post \in Nat
  BY <1>2 DEF Node, Time
<1>4. Delay \in Nat /\ SleepTicks \in Nat /\ TX_DEVIATION_THRESHOLD \in Nat
  BY DelayAssumption, DownlinkAssumption DEF Delay
<1> QED
  BY <1>1, <1>2, <1>3, <1>4

\* All is quiet at the start.
LEMMA InitTimes ==
    ASSUME Init
    PROVE  TimeInv
<1>1. Len(nodes) = 0
  BY EmptySeq DEF Init, jit_queue_init
<1>2. jitPc = "peek" /\ rest = 1 /\ known \cup beside = {}
  BY DEF Init
<1> QED
  BY <1>1, <1>2 DEF TimeInv, Punctual, HeadAhead, Scanned, HeadDue, HandDue, AirClear,
     NewIsBesideNone, SortedBySecond

\* Time passes only while thread_jit waits, and with it the time it may wait.
LEMMA TickKeepsTimes ==
    ASSUME Timely, IInv, TimeInv, Tick
    PROVE  TimeInv'
<1>1. /\ rest > 0 /\ now' = now + 1 /\ rest' = rest - 1
      /\ UNCHANGED <<nodes, jitPc, beside, known, until, fate>>
  BY DEF Tick, Timely, radioVars
<1>2. jitPc \in {"peek", "sleep"}
  BY <1>1, Numbers DEF TimeInv, Punctual
<1>3. Punctual'
  BY <1>1, <1>2, Numbers DEF TimeInv, Punctual
<1>4. HeadAhead'
  <2> SUFFICES ASSUME Len(nodes) > 0 PROVE nodes[1].tx >= now' + Ahead'
    BY <1>1 DEF HeadAhead
  <2>1. nodes[1].tx >= now + Ahead
    BY DEF TimeInv, HeadAhead
  <2>2. now' + Ahead' = now + Ahead
    <3>1. now \in Nat /\ rest \in Nat
      BY Numbers
    <3>2. CASE jitPc = "sleep"
      <4>1. Ahead = rest + 1 /\ Ahead' = (rest - 1) + 1
        BY <1>1, <3>2 DEF Ahead
      <4> QED
        BY <1>1, <3>1, <4>1
    <3>3. CASE jitPc # "sleep"
      <4>1. Ahead = rest /\ Ahead' = rest - 1
        BY <1>1, <3>3 DEF Ahead
      <4> QED
        BY <1>1, <3>1, <4>1
    <3> QED
      BY <3>2, <3>3
  <2> QED
    BY <2>1, <2>2
<1>5. Scanned' /\ HeadDue' /\ HandDue'
  BY <1>1, <1>2 DEF Scanned, HeadDue, HandDue
<1>6. AirClear' /\ NewIsBesideNone' /\ SortedBySecond'
  BY <1>1 DEF TimeInv, AirClear, NewIsBesideNone, SortedBySecond
<1> QED
  BY <1>3, <1>4, <1>5, <1>6 DEF TimeInv

\* Steps of thread_down that put nothing in.
LEMMA DownKeepsTimes ==
    ASSUME IInv, TimeInv,
           UNCHANGED <<now, nodes, jitVars, radioVars>>,
           \A p \in Pkts : fate'[p] = "unseen" => fate[p] = "unseen"
    PROVE  TimeInv'
<1>1. UNCHANGED <<now, nodes, jitPc, i, hand, rest, beside, emitting, until, known>>
  BY DEF jitVars, radioVars
<1>2. Punctual' /\ HeadAhead' /\ Scanned' /\ HeadDue'
  BY <1>1 DEF TimeInv, Punctual, HeadAhead, Ahead, Scanned, HeadDue
<1>3. HandDue' /\ AirClear' /\ NewIsBesideNone' /\ SortedBySecond'
  BY <1>1 DEF TimeInv, HandDue, FollowsClear, AirClear, NewIsBesideNone, SortedBySecond
<1> QED
  BY <1>2, <1>3 DEF TimeInv

\* Nothing that thread_down does to a packet makes it unseen.
LEMMA RejectTimes ==
    ASSUME IInv, downPc # "recv", Reject
    PROVE  \A p \in Pkts : fate'[p] = "unseen" => fate[p] = "unseen"
  BY DEF Reject, IInv, InHand, Node, TypeOK

\* A packet that comes in is early enough for thread_jit to see it in time, and
\* it does not go before one that is due.
LEMMA EnqueueKeepsTimes ==
    ASSUME Timely, IInv, TimeInv, EnqueueInsert
    PROVE  TimeInv'
<1>0. /\ downPc = "insert" /\ jitPc # "scan"
      /\ UNCHANGED <<now, jitVars, radioVars, exit_sig>>
  BY DEF EnqueueInsert, QueueLocked
<1>1. CASE EnqueueResult(nodes, now, new) # "JIT_ERROR_OK"
  <2>1. Reject /\ UNCHANGED nodes
    BY <1>1 DEF EnqueueInsert
  <2> QED
    BY <1>0, <2>1, RejectTimes, DownKeepsTimes
<1>2. CASE EnqueueResult(nodes, now, new) = "JIT_ERROR_OK"
  <2>1. nodes' \in Enqueued(nodes, new) /\ fate' = [fate EXCEPT ![new.pkt] = "queued"]
    BY <1>2 DEF EnqueueInsert
  <2>2. UNCHANGED <<now, jitPc, i, hand, rest, beside, until, known>>
    BY <1>0 DEF jitVars, radioVars
  <2>3. /\ new \in Node /\ new.pkt \in Pkts /\ new.tx \in Nat /\ fate[new.pkt] = "unseen"
        /\ fate \in [Pkts -> Fates]
    BY <1>0 DEF IInv, InHand, Node, Time, TypeOK
  <2>4. new.tx >= now + Delay
    <3>1. ~ TooLate(now, new.tx)
      BY <1>2 DEF EnqueueResult
    <3> QED
      BY <2>3, <3>1, Numbers, NotTooLate
  <2>5. new.pkt \notin known \cup beside
    BY <2>3 DEF TimeInv, NewIsBesideNone
  <2>6. /\ BySecond(nodes') /\ Len(nodes') > 0
        /\ \A k \in 1 .. Len(nodes') :
              nodes'[k] = new \/ \E j \in 1 .. Len(nodes) : nodes'[k] = nodes[j]
        /\ Len(nodes) > 0 => nodes'[1] = nodes[1] \/ (nodes'[1] = new /\ new.tx < nodes[1].tx)
    <3>1. BySecond(nodes)
      BY DEF TimeInv, SortedBySecond, BySecond
    <3> QED
      BY <2>1, <2>3, <3>1, Numbers, InsertOrders
  <2>7. Len(nodes) = 0 => nodes'[1] = new
    <3> SUFFICES ASSUME Len(nodes) = 0 PROVE nodes'[1] = new
      OBVIOUS
    <3>1. 1 \in 1 .. Len(nodes')
      <4>1. Len(nodes') \in Nat
        BY EnqueueKeeps, LenProperties DEF IInv, TypeOK
      <4> QED
        BY <2>6, <4>1
    <3> QED
      BY <2>6, <3>1
  <2>8. Punctual'
    BY <2>2 DEF TimeInv, Punctual
  <2>9. HeadAhead'
    <3>1. new.tx >= now + Ahead
      <4>1. Ahead <= Delay
        BY Numbers DEF Ahead, TimeInv, Punctual, Timely
      <4>2. Ahead \in Nat
        BY Numbers DEF Ahead
      <4> QED
        BY <2>3, <2>4, <4>1, <4>2, Numbers
    <3>2. nodes'[1].tx >= now + Ahead
      <4>1. CASE Len(nodes) = 0
        BY <2>7, <3>1, <4>1
      <4>2. CASE Len(nodes) > 0
        BY <2>6, <3>1, <4>2 DEF TimeInv, HeadAhead
      <4> QED
        BY <4>1, <4>2, Numbers
    <3> QED
      BY <2>2, <3>2 DEF HeadAhead, Ahead
  <2>10. Scanned'
    BY <1>0, <2>2 DEF Scanned
  <2>11. HeadDue'
    <3> SUFFICES ASSUME jitPc = "dequeue"
                 PROVE  /\ nodes'[1].tx < now + TX_DEVIATION_THRESHOLD
                        /\ \A k \in 1 .. Len(nodes') : nodes'[k].tx >= now
      BY <2>2, <2>6 DEF HeadDue
    <3>1. /\ Len(nodes) > 0 /\ nodes[1].tx < now + TX_DEVIATION_THRESHOLD
          /\ \A k \in 1 .. Len(nodes) : nodes[k].tx >= now
      BY DEF TimeInv, HeadDue
    <3>2. nodes[1].tx \in Nat
      BY <3>1, Numbers
    <3>3. ~ (new.tx < nodes[1].tx)
      BY <2>3, <2>4, <3>1, <3>2, Numbers DEF Timely
    <3>4. nodes'[1] = nodes[1]
      BY <2>6, <3>1, <3>3
    <3>5. new.tx >= now
      BY <2>3, <2>4, Numbers
    <3> QED
      BY <2>6, <3>1, <3>4, <3>5
  <2>12. HandDue'
    <3> SUFFICES ASSUME jitPc \in {"status", "send"}, NEW k \in 1 .. Len(nodes')
                 PROVE  /\ nodes'[k].tx > now
                        /\ nodes'[k].pkt \in beside => FollowsClear(hand, nodes'[k])
      BY <2>2 DEF TimeInv, HandDue, FollowsClear
    <3>1. CASE nodes'[k] = new
      BY <2>3, <2>4, <2>5, <3>1, Numbers DEF Timely
    <3>2. CASE \E j \in 1 .. Len(nodes) : nodes'[k] = nodes[j]
      BY <3>2 DEF TimeInv, HandDue
    <3> QED
      BY <2>6, <3>1, <3>2
  <2>13. AirClear'
    <3> SUFFICES ASSUME NEW k \in 1 .. Len(nodes'), nodes'[k].pkt \in known
                 PROVE  nodes'[k].tx > until + Delay
      BY <2>2 DEF AirClear
    <3>1. PICK j \in 1 .. Len(nodes) : nodes'[k] = nodes[j]
      BY <2>5, <2>6
    <3> QED
      BY <3>1 DEF TimeInv, AirClear
  <2>14. NewIsBesideNone'
    BY <2>1, <2>2, <2>3 DEF TimeInv, NewIsBesideNone
  <2>15. SortedBySecond'
    BY <2>6 DEF SortedBySecond, BySecond
  <2> QED
    BY <2>8, <2>9, <2>10, <2>11, <2>12, <2>13, <2>14, <2>15 DEF TimeInv
<1> QED
  BY <1>1, <1>2

\* The steps of thread_jit that take nothing out: it sees each packet before its
\* time, and sleeps only when there is none.
LEMMA JitWaitsKeepTimes ==
    ASSUME Timely, IInv, TimeInv, PeekStart \/ Wake \/ ScanNext \/ PeekEnd
    PROVE  TimeInv'
<1>1. UNCHANGED <<now, nodes, hand, beside, until, known, fate>>
  BY DEF PeekStart, Wake, ScanNext, PeekEnd, radioVars
<1>2. jitPc' \in {"peek", "sleep", "scan", "dequeue"}
  BY DEF PeekStart, Wake, ScanNext, PeekEnd, NextRound
<1>3. HandDue' /\ AirClear' /\ NewIsBesideNone' /\ SortedBySecond'
  BY <1>1, <1>2 DEF TimeInv, HandDue, AirClear, NewIsBesideNone, SortedBySecond
<1>4. CASE PeekStart /\ jit_queue_is_empty(nodes)
  <2>1. jitPc' = "sleep" /\ rest' = SleepTicks /\ Len(nodes) = 0
    BY <1>4, EmptySeq DEF PeekStart, jit_queue_is_empty
  <2>2. Punctual' /\ HeadAhead' /\ Scanned' /\ HeadDue'
    BY <1>1, <2>1, Numbers DEF Punctual, HeadAhead, Scanned, HeadDue
  <2> QED
    BY <1>3, <2>2 DEF TimeInv
<1>5. CASE PeekStart /\ ~ jit_queue_is_empty(nodes)
  <2>1. jitPc = "peek" /\ jitPc' = "scan" /\ rest' = 0 /\ i' = 1
    BY <1>5 DEF PeekStart
  <2>2. Len(nodes) > 0
    BY <1>5, Numbers, EmptySeq DEF jit_queue_is_empty
  <2>3. nodes[1].tx >= now
    BY <2>1, <2>2, Numbers DEF TimeInv, HeadAhead, Ahead
  <2>4. HeadAhead'
    BY <1>1, <2>1, <2>3, Numbers DEF HeadAhead, Ahead
  <2>5. Scanned'
    BY <1>1, <2>1, <2>2 DEF Scanned
  <2>6. Punctual' /\ HeadDue'
    BY <2>1 DEF Punctual, HeadDue
  <2> QED
    BY <1>3, <2>4, <2>5, <2>6 DEF TimeInv
<1>6. CASE Wake
  <2>1. jitPc = "sleep" /\ rest = 0 /\ jitPc' = "peek" /\ rest' = 1
    BY <1>6 DEF Wake, NextRound
  <2>2. HeadAhead'
    BY <1>1, <2>1, Numbers DEF TimeInv, HeadAhead, Ahead
  <2>3. Punctual' /\ Scanned' /\ HeadDue'
    BY <2>1 DEF Punctual, Scanned, HeadDue
  <2> QED
    BY <1>3, <2>2, <2>3 DEF TimeInv
<1>7. CASE ScanNext
  <2>1. /\ jitPc = "scan" /\ i <= Len(nodes) /\ ~ (now > nodes[i].tx) /\ i' = i + 1
        /\ UNCHANGED <<jitPc, rest>>
    BY <1>7 DEF ScanNext, Outdated
  <2>2. Scanned'
    <3> SUFFICES ASSUME NEW k \in 1 .. Len(nodes), k < i + 1
                 PROVE  nodes[k].tx >= now
      BY <1>1, <2>1 DEF TimeInv, Scanned
    <3>1. CASE k < i
      BY <2>1, <3>1 DEF TimeInv, Scanned
    <3>2. CASE k = i
      BY <2>1, <3>2, Numbers
    <3> QED
      BY <3>1, <3>2, Numbers
  <2>3. Punctual' /\ HeadAhead' /\ HeadDue'
    BY <1>1, <2>1 DEF TimeInv, Punctual, HeadAhead, Ahead, HeadDue
  <2> QED
    BY <1>3, <2>2, <2>3 DEF TimeInv
<1>8. CASE PeekEnd
  <2>1. jitPc = "scan" /\ i > Len(nodes) /\ rest = 0
    BY <1>8 DEF PeekEnd, TimeInv, Punctual
  <2>2. Len(nodes) > 0 /\ nodes # << >> /\ \A k \in 1 .. Len(nodes) : nodes[k].tx >= now
    BY <2>1, Numbers, EmptySeq DEF TimeInv, Scanned
  <2>3. nodes[1].tx \in Nat
    BY <2>2, Numbers
  <2>4. CASE PeekIndex(nodes, now) = 1
    <3>1. jitPc' = "dequeue" /\ UNCHANGED <<rest, i>>
      BY <1>8, <2>4 DEF PeekEnd
    <3>2. nodes[1].tx < now + TX_DEVIATION_THRESHOLD
      <4>1. nodes[1].tx - now < TX_DEVIATION_THRESHOLD
        BY <2>2, <2>4 DEF PeekIndex
      <4> QED
        BY <2>3, <4>1, Numbers
    <3>3. Punctual' /\ HeadAhead' /\ Scanned' /\ HeadDue'
      BY <1>1, <2>1, <2>2, <3>1, <3>2 DEF TimeInv, Punctual, HeadAhead, Ahead, Scanned, HeadDue
    <3> QED
      BY <1>3, <3>3 DEF TimeInv
  <2>5. CASE PeekIndex(nodes, now) # 1
    <3>1. jitPc' = "peek" /\ rest' = 1
      BY <1>8, <2>5 DEF PeekEnd, NextRound
    <3>2. nodes[1].tx >= now + 1
      <4>1. ~ (nodes[1].tx - now < TX_DEVIATION_THRESHOLD)
        BY <2>5 DEF PeekIndex
      <4> QED
        BY <2>3, <4>1, Numbers DEF Timely
    <3>3. Punctual' /\ HeadAhead' /\ Scanned' /\ HeadDue'
      BY <1>1, <3>1, <3>2 DEF Punctual, HeadAhead, Ahead, Scanned, HeadDue
    <3> QED
      BY <1>3, <3>3 DEF TimeInv
  <2> QED
    BY <2>4, <2>5
<1> QED
  BY <1>4, <1>5, <1>6, <1>7, <1>8

\* What the scan purges is not in front: it is a packet that compare() put behind
\* a later one of the same second.
LEMMA DropIsMisordered ==
    ASSUME IInv, TimeInv, ScanDrop
    PROVE  /\ i \in 2 .. Len(nodes)
           /\ nodes[1].tx > nodes[i].tx /\ Sec(nodes[1].tx) = Sec(nodes[i].tx)
<1>1. jitPc = "scan" /\ i <= Len(nodes) /\ now > nodes[i].tx
  BY DEF ScanDrop, Outdated
<1>2. i \in 1 .. Len(nodes)
  BY <1>1, Numbers DEF IInv, Scanning
<1>3. 1 \in 1 .. Len(nodes)
  BY <1>2, Numbers
<1>4. nodes[1].tx \in Nat /\ nodes[i].tx \in Nat
  BY <1>2, <1>3, Numbers
<1>5. nodes[1].tx >= now
  BY <1>1, <1>3, <1>4, Numbers DEF TimeInv, Punctual, HeadAhead, Ahead
<1>6. nodes[1].tx > nodes[i].tx
  BY <1>1, <1>4, <1>5, Numbers
<1>7. i # 1
  BY <1>4, <1>6
<1>8. Sec(nodes[1].tx) <= Sec(nodes[i].tx)
  BY <1>2, <1>3, <1>7, Numbers DEF TimeInv, SortedBySecond
<1>9. /\ Sec(nodes[i].tx) <= Sec(nodes[1].tx)
      /\ Sec(nodes[i].tx) \in Int /\ Sec(nodes[1].tx) \in Int
  BY <1>4, <1>6, SecMonotone
<1> QED
  BY <1>2, <1>6, <1>7, <1>8, <1>9, Numbers

\* A purge leaves the first packet in front.
LEMMA ScanDropKeepsTimes ==
    ASSUME IInv, TimeInv, ScanDrop
    PROVE  TimeInv'
<1>1. PICK m : m = i
  OBVIOUS
<1>2. /\ jitPc = "scan" /\ i' = 2 /\ nodes' \in WithoutNode(nodes, m)
      /\ fate' = [fate EXCEPT ![nodes[m].pkt] = "outdated"]
      /\ UNCHANGED <<now, jitPc, hand, rest, beside, until, known>>
  BY <1>1 DEF ScanDrop, radioVars
<1>3. m \in 1 .. Len(nodes) /\ m # 1
  BY <1>1, DropIsMisordered, Numbers
<1>4. /\ BySecond(nodes') /\ Len(nodes') = Len(nodes) - 1
      /\ \A k \in 1 .. Len(nodes') : \E j \in 1 .. Len(nodes) : j # m /\ nodes'[k] = nodes[j]
      /\ nodes'[1] = nodes[1]
  <2>1. BySecond(nodes)
    BY DEF TimeInv, SortedBySecond, BySecond
  <2> QED
    BY <1>2, <1>3, <2>1, Numbers, RemoveOrders
<1>5. Len(nodes) > 0 /\ Len(nodes') > 0
  BY <1>3, <1>4, Numbers
<1>6. rest = 0
  BY <1>2 DEF TimeInv, Punctual
<1>7. nodes[1].tx >= now
  BY <1>2, <1>5, <1>6, Numbers DEF TimeInv, HeadAhead, Ahead
<1>8. Punctual' /\ HeadAhead'
  BY <1>2, <1>4, <1>5 DEF TimeInv, Punctual, HeadAhead, Ahead
<1>9. Scanned'
  <2> SUFFICES ASSUME NEW k \in 1 .. Len(nodes'), k < 2 PROVE nodes'[k].tx >= now
    BY <1>2, <1>5 DEF Scanned
  <2>1. k = 1
    OBVIOUS
  <2> QED
    BY <1>4, <1>7, <2>1
<1>10. HeadDue' /\ HandDue'
  BY <1>2 DEF HeadDue, HandDue
<1>11. AirClear'
  <2> SUFFICES ASSUME NEW k \in 1 .. Len(nodes'), nodes'[k].pkt \in known
               PROVE  nodes'[k].tx > until + Delay
    BY <1>2 DEF AirClear
  <2>1. PICK j \in 1 .. Len(nodes) : nodes'[k] = nodes[j]
    BY <1>4
  <2> QED
    BY <2>1 DEF TimeInv, AirClear
<1>12. NewIsBesideNone'
  <2>1. fate \in [Pkts -> Fates]
    BY DEF IInv, TypeOK
  <2> QED
    BY <1>2, <2>1 DEF TimeInv, NewIsBesideNone
<1>13. SortedBySecond'
  BY <1>4 DEF SortedBySecond, BySecond
<1> QED
  BY <1>8, <1>9, <1>10, <1>11, <1>12, <1>13 DEF TimeInv

\* The packet that is taken is due; those beside it come after its time on air.
LEMMA DequeueKeepsTimes ==
    ASSUME Timely, IInv, TimeInv, Dequeue
    PROVE  TimeInv'
<1>1. PICK m : m = 1
  OBVIOUS
<1>2. /\ Len(nodes) > 0 /\ nodes[m].tx < now + TX_DEVIATION_THRESHOLD /\ rest = 0
      /\ \A k \in 1 .. Len(nodes) : nodes[k].tx >= now
  BY <1>1 DEF Dequeue, TimeInv, HeadDue, Punctual
<1>3. ~ jit_queue_is_empty(nodes)
  BY <1>2, EmptySeq DEF jit_queue_is_empty
<1>4. /\ hand' = nodes[m] /\ nodes' \in WithoutNode(nodes, m)
      /\ fate' = [fate EXCEPT ![nodes[m].pkt] = "taken"]
      /\ beside' = Queued \ {nodes[m].pkt}
      /\ jitPc' = "status" /\ UNCHANGED <<now, rest, i, until, known>>
  BY <1>1, <1>3 DEF Dequeue, radioVars
<1>5. m \in 1 .. Len(nodes)
  BY <1>1, <1>2, Numbers
<1>6. /\ BySecond(nodes') /\ Len(nodes') = Len(nodes) - 1
      /\ \A k \in 1 .. Len(nodes') : \E j \in 1 .. Len(nodes) : j # m /\ nodes'[k] = nodes[j]
  <2>1. BySecond(nodes)
    BY DEF TimeInv, SortedBySecond, BySecond
  <2> QED
    BY <1>4, <1>5, <2>1, Numbers, RemoveOrders
<1>7. ASSUME NEW k \in 1 .. Len(nodes')
      PROVE  nodes'[k].tx > now /\ FollowsClear(nodes[m], nodes'[k])
  <2>1. PICK j \in 1 .. Len(nodes) : j # m /\ nodes'[k] = nodes[j]
    BY <1>6
  <2>2. FollowsClear(nodes[m], nodes[j]) \/ FollowsClear(nodes[j], nodes[m])
    BY <1>5, <2>1 DEF IInv, QueueOK, Spread, Apart
  <2> DEFINE a == nodes[m].tx
             b == nodes[j].tx
             c == nodes[m].post
             d == nodes[j].post
  <2>3. a \in Nat /\ b \in Nat /\ c \in Nat /\ d \in Nat /\ now \in Nat
    BY <1>5, Numbers
  <2>4. a < now + TX_DEVIATION_THRESHOLD /\ a >= now /\ b >= now
    BY <1>2, <1>5
  <2>5. b - a > PreDelay + c + TX_MARGIN_DELAY \/ a - b > PreDelay + d + TX_MARGIN_DELAY
    BY <2>2 DEF FollowsClear
  <2> HIDE DEF a, b, c, d
  <2>6. b - a > PreDelay + c + TX_MARGIN_DELAY /\ b > now
    BY <2>3, <2>4, <2>5, DelayAssumption DEF Timely, Delay, PreDelay
  <2> QED
    BY <2>1, <2>6 DEF FollowsClear, a, b, c
<1>8. Len(nodes') \in Nat
  BY <1>5, <1>6, Numbers
<1>9. Punctual' /\ Scanned' /\ HeadDue'
  BY <1>2, <1>4 DEF Punctual, Scanned, HeadDue
<1>10. HeadAhead'
  <2> SUFFICES ASSUME Len(nodes') > 0 PROVE nodes'[1].tx >= now
    BY <1>2, <1>4, Numbers DEF HeadAhead, Ahead
  <2>1. 1 \in 1 .. Len(nodes')
    BY <1>8
  <2>2. PICK j \in 1 .. Len(nodes) : nodes'[1] = nodes[j]
    BY <1>6, <2>1
  <2> QED
    BY <1>2, <2>2
<1>11. HandDue'
  <2>1. nodes[m].pkt \in known => nodes[m].tx > until + Delay
    BY <1>5 DEF TimeInv, AirClear
  <2>2. nodes[m].tx >= now /\ nodes[m].tx < now + TX_DEVIATION_THRESHOLD
    BY <1>2, <1>5
  <2>3. \A k \in 1 .. Len(nodes') : nodes'[k].tx > now /\ FollowsClear(hand', nodes'[k])
    BY <1>4, <1>7
  <2> QED
    BY <1>4, <2>1, <2>2, <2>3 DEF HandDue, FollowsClear
<1>12. AirClear'
  <2> SUFFICES ASSUME NEW k \in 1 .. Len(nodes'), nodes'[k].pkt \in known
               PROVE  nodes'[k].tx > until + Delay
    BY <1>4 DEF AirClear
  <2>1. PICK j \in 1 .. Len(nodes) : nodes'[k] = nodes[j]
    BY <1>6
  <2> QED
    BY <2>1 DEF TimeInv, AirClear
<1>13. NewIsBesideNone'
  <2> SUFFICES ASSUME NEW p \in Pkts, fate'[p] = "unseen"
               PROVE  p \notin known /\ p \notin beside'
    BY <1>4 DEF NewIsBesideNone
  <2>1. fate[p] = "unseen"
    BY <1>4 DEF IInv, TypeOK
  <2>2. p \notin Queued
    BY <2>1 DEF IInv, PktsOf, Queued
  <2> QED
    BY <1>4, <2>1, <2>2 DEF TimeInv, NewIsBesideNone
<1>14. SortedBySecond'
  BY <1>6 DEF SortedBySecond, BySecond
<1> QED
  BY <1>9, <1>10, <1>11, <1>12, <1>13, <1>14 DEF TimeInv

\* When the packet in hand is done with nothing in the queue is due yet.
LEMMA DropKeepsTimes ==
    ASSUME IInv, TimeInv, jitPc \in {"status", "send"}, NEW why \in Fates \ {"unseen"},
           Drop(why), UNCHANGED <<now, nodes, beside>>, AirClear', NewIsBesideNone'
    PROVE  TimeInv'
<1>1. jitPc' = "peek" /\ rest' = 1
  BY DEF Drop, NextRound
<1>2. HeadAhead'
  <2> SUFFICES ASSUME Len(nodes) > 0 PROVE nodes[1].tx >= now + 1
    BY <1>1 DEF HeadAhead, Ahead
  <2>1. 1 \in 1 .. Len(nodes)
    BY Numbers
  <2>2. nodes[1].tx > now /\ nodes[1].tx \in Nat
    BY <2>1, Numbers DEF TimeInv, HandDue
  <2> QED
    BY <2>2, Numbers
<1>3. Punctual' /\ Scanned' /\ HeadDue' /\ HandDue'
  BY <1>1 DEF Punctual, Scanned, HeadDue, HandDue
<1>4. SortedBySecond'
  BY DEF TimeInv, SortedBySecond
<1> QED
  BY <1>2, <1>3, <1>4 DEF TimeInv

\* The end of a packet in hand makes none unseen.
LEMMA DropTimes ==
    ASSUME IInv, TimeInv, NEW why \in Fates \ {"unseen"}, Drop(why),
           known' \subseteq known \cup beside, UNCHANGED beside
    PROVE  NewIsBesideNone'
<1>1. fate' = [fate EXCEPT ![hand.pkt] = why] /\ fate \in [Pkts -> Fates]
  BY DEF Drop, IInv, TypeOK
<1>2. \A p \in Pkts : fate'[p] = "unseen" => fate[p] = "unseen"
  BY <1>1
<1> QED
  BY <1>2 DEF TimeInv, NewIsBesideNone

\* A packet that finds the concentrator busy is dropped.
LEMMA StatusKeepsTimes ==
    ASSUME IInv, TimeInv, Status
    PROVE  TimeInv'
<1>1. jitPc = "status" /\ UNCHANGED <<now, nodes, beside, until, known>>
  BY DEF Status, radioVars
<1>2. AirClear'
  BY <1>1 DEF TimeInv, AirClear
<1>3. CASE Drop("radioBusy")
  BY <1>1, <1>2, <1>3, DropTimes, DropKeepsTimes DEF Fates
<1>4. CASE jitPc' = "send" /\ UNCHANGED <<hand, rest, i, fate>>
  <2>1. Punctual' /\ HeadAhead' /\ Scanned' /\ HeadDue'
    BY <1>1, <1>4 DEF TimeInv, Punctual, HeadAhead, Ahead, Scanned, HeadDue
  <2>2. HandDue' /\ NewIsBesideNone' /\ SortedBySecond'
    BY <1>1, <1>4 DEF TimeInv, HandDue, FollowsClear, NewIsBesideNone, SortedBySecond
  <2> QED
    BY <1>2, <2>1, <2>2 DEF TimeInv
<1> QED
  BY <1>3, <1>4 DEF Status

\* What goes on the air is over before what was beside it is due.
LEMMA SendKeepsTimes ==
    ASSUME IInv, TimeInv, Send
    PROVE  TimeInv'
<1>1. jitPc = "send" /\ UNCHANGED <<now, nodes, beside>>
  BY DEF Send
<1>2. CASE /\ Drop("sent")
           /\ until' = now + TX_START_DELAY + hand.post
           /\ known' = beside
  <2>1. hand.tx \in Nat /\ hand.post \in Nat /\ hand.tx >= now
    BY <1>1 DEF IInv, InHand, Node, Time, TimeInv, HandDue
  <2>2. AirClear'
    <3> SUFFICES ASSUME NEW k \in 1 .. Len(nodes), nodes[k].pkt \in beside
                 PROVE  nodes[k].tx > until' + Delay
      BY <1>1, <1>2 DEF AirClear
    <3>1. FollowsClear(hand, nodes[k])
      BY <1>1 DEF TimeInv, HandDue
    <3>2. nodes[k].tx \in Nat /\ now \in Nat
      BY Numbers
    <3>3. nodes[k].tx - hand.tx > PreDelay + hand.post + TX_MARGIN_DELAY
      BY <3>1 DEF FollowsClear
    <3> DEFINE a == nodes[k].tx
               b == hand.tx
               c == hand.post
    <3>4. a - b > TX_START_DELAY + TX_JIT_DELAY + c + TX_MARGIN_DELAY
      BY <3>3 DEF PreDelay
    <3>5. a \in Nat /\ b \in Nat /\ c \in Nat /\ b >= now /\ now \in Nat
      BY <2>1, <3>2
    <3>6. until' = now + TX_START_DELAY + c
      BY <1>2
    <3> HIDE DEF a, b, c
    <3>7. a > now + TX_START_DELAY + c + (TX_MARGIN_DELAY + TX_JIT_DELAY)
      BY <3>4, <3>5, DelayAssumption
    <3> QED
      BY <3>6, <3>7 DEF a, Delay
  <2>3. NewIsBesideNone'
    BY <1>1, <1>2, DropTimes DEF Fates
  <2> QED
    BY <1>1, <1>2, <2>2, <2>3, DropKeepsTimes DEF Fates
<1>3. CASE Drop("sendFailed") /\ UNCHANGED radioVars
  <2>1. AirClear'
    BY <1>1, <1>3 DEF TimeInv, AirClear, radioVars
  <2>2. NewIsBesideNone'
    BY <1>1, <1>3, DropTimes DEF Fates, radioVars
  <2> QED
    BY <1>1, <1>3, <2>1, <2>2, DropKeepsTimes DEF Fates
<1> QED
  BY <1>2, <1>3 DEF Send

\* Every step of a timely host keeps the times in order.
LEMMA NextKeepsTimes == Timely /\ IInv /\ TimeInv /\ [Next]_vars => TimeInv'
<1> SUFFICES ASSUME Timely, IInv, TimeInv, [Next]_vars PROVE TimeInv'
  OBVIOUS
<1>1. CASE UNCHANGED vars
  BY <1>1, DownKeepsTimes DEF vars, jitVars, radioVars
<1>2. CASE RecvDownlink \/ RecvClosed
  BY <1>2, DownKeepsTimes DEF RecvDownlink, RecvClosed
<1>3. CASE EnqueueTestFull
  <2>1. downPc # "recv" /\ UNCHANGED <<now, nodes, jitVars, radioVars>>
    BY <1>3 DEF EnqueueTestFull
  <2>2. Reject \/ UNCHANGED fate
    BY <1>3 DEF EnqueueTestFull
  <2> QED
    BY <2>1, <2>2, RejectTimes, DownKeepsTimes
<1> QED
  BY <1>1, <1>2, <1>3, TickKeepsTimes, EnqueueKeepsTimes, JitWaitsKeepTimes,
     ScanDropKeepsTimes, DequeueKeepsTimes, StatusKeepsTimes, SendKeepsTimes
     DEF Next, JitStep, DownStep

-----------------------------------------------------------------------------
(* What a timely host serves.                                               *)

\* On a timely host a packet goes on the air within the threshold before its time.
LEMMA SendIsOnTime ==
    ASSUME Timely, IInv, TimeInv, [Next]_vars, emitting' # emitting
    PROVE  hand.tx - now \in 0 .. TX_DEVIATION_THRESHOLD - 1
<1>1. Send
  BY DEF Next, JitStep, DownStep, vars, Tick, PeekStart, Wake, ScanNext, ScanDrop, PeekEnd,
     Dequeue, Status, RecvDownlink, RecvClosed, EnqueueTestFull, EnqueueInsert, radioVars
<1>2. /\ hand.tx \in Nat /\ hand.tx >= now /\ hand.tx < now + TX_DEVIATION_THRESHOLD
  BY <1>1 DEF Send, IInv, InHand, Node, Time, TimeInv, HandDue
<1> QED
  BY <1>2, Numbers

\* Which step makes a packet outdated, and which finds the radio busy.
LEMMA Verdicts ==
    ASSUME IInv, [Next]_vars, NEW p \in Pkts, fate'[p] # fate[p]
    PROVE  /\ fate'[p] = "outdated" => ScanDrop /\ p = nodes[i].pkt
           /\ fate'[p] = "radioBusy" => jitPc = "status" /\ Emitting /\ p = hand.pkt
<1>0. fate \in [Pkts -> Fates]
  BY DEF IInv, TypeOK
<1>1. CASE UNCHANGED fate
  BY <1>1
<1>2. CASE EnqueueTestFull \/ EnqueueInsert
  BY <1>0, <1>2 DEF EnqueueTestFull, EnqueueInsert, Reject
<1>3. CASE ScanDrop
  BY <1>0, <1>3 DEF ScanDrop
<1>4. CASE Dequeue
  BY <1>0, <1>4 DEF Dequeue
<1>5. CASE Status
  BY <1>0, <1>5 DEF Status, Drop
<1>6. CASE Send
  BY <1>0, <1>6 DEF Send, Drop
<1>7. CASE Tick \/ RecvDownlink \/ RecvClosed \/ PeekStart \/ Wake \/ ScanNext \/ PeekEnd
  BY <1>1, <1>7 DEF Tick, RecvDownlink, RecvClosed, PeekStart, Wake, ScanNext, PeekEnd
<1> QED
  BY <1>1, <1>2, <1>3, <1>4, <1>5, <1>6, <1>7 DEF Next, JitStep, DownStep, vars

\* On a timely host only a packet behind a later one of its second is purged.
LEMMA PurgedIsMisordered ==
    ASSUME IInv, TimeInv, [Next]_vars, NEW k \in 1 .. Len(nodes),
           fate'[nodes[k].pkt] = "outdated"
    PROVE  \E j \in 1 .. k - 1 : /\ Sec(nodes[j].tx) = Sec(nodes[k].tx)
                                /\ nodes[j].tx > nodes[k].tx
<1>1. nodes[k].pkt \in Pkts /\ fate[nodes[k].pkt] = "queued"
  <2>1. nodes[k].pkt \in PktsOf(nodes)
    BY DEF PktsOf
  <2> QED
    BY <2>1 DEF IInv
<1>2. ScanDrop /\ nodes[k].pkt = nodes[i].pkt
  BY <1>1, Verdicts
<1>3. /\ i \in 2 .. Len(nodes)
      /\ nodes[1].tx > nodes[i].tx /\ Sec(nodes[1].tx) = Sec(nodes[i].tx)
  BY <1>2, DropIsMisordered
<1>4. k = i
  <2>1. i \in 1 .. Len(nodes)
    BY <1>3, Numbers
  <2> QED
    BY <1>2, <2>1 DEF IInv, QueueOK, Single
<1>5. 1 \in 1 .. k - 1
  BY <1>3, <1>4, Numbers
<1> QED
  BY <1>3, <1>4, <1>5

\* On a timely host a packet that was beside the one on the air comes after it.
LEMMA BesideFindsItFree ==
    ASSUME Timely, IInv, TimeInv, [Next]_vars, NEW p \in known, fate'[p] = "radioBusy"
    PROVE  fate[p] = "radioBusy"
<1> SUFFICES ASSUME fate[p] # "radioBusy" PROVE FALSE
  OBVIOUS
<1>1. p \in Pkts
  BY DEF IInv, TypeOK
<1>2. jitPc = "status" /\ now < until /\ p = hand.pkt
  BY <1>1, Verdicts DEF Emitting
<1>3. hand.tx \in Nat /\ hand.tx < now + TX_DEVIATION_THRESHOLD /\ hand.tx > until + Delay
  BY <1>2 DEF IInv, InHand, Node, Time, TimeInv, HandDue
<1> QED
  BY <1>2, <1>3, Numbers DEF Timely

\* Whatever the packets, times, delays and the size of the queue, the queue stays
\* in order, and on a timely host every packet goes on the air within the
\* threshold before its time, only what compare() put behind a later packet is
\* purged, and only a packet that came later finds the radio busy.
THEOREM AllServedOnTime == Timely => (BenchSpec => ServedOnTime)
<1> SUFFICES ASSUME Timely PROVE BenchSpec => ServedOnTime
  OBVIOUS
<1>1. BenchInit => IInv /\ TimeInv
  BY InitIInv, InitTimes DEF BenchInit
<1>2. IInv /\ TimeInv /\ [BenchNext]_<<part, vars, upVars, dnVars, tsVars, cfVars, gmVars>>
        => (IInv /\ TimeInv)'
  <2>1. [BenchNext]_<<part, vars, upVars, dnVars, tsVars, cfVars, gmVars>> => [Next]_vars
    BY DEF BenchNext
  <2> QED
    BY <2>1, NextKeepsIInv, NextKeepsTimes
<1>3. IInv /\ TimeInv => TypeOK /\ SortedBySecond /\ QueueBounded /\ QueuedOnce
  BY DEF IInv, TimeInv, PlaceFree, QueueBounded, QueueOK, Single, QueuedOnce, PktsOf, Queued
<1>4. IInv /\ TimeInv /\ [BenchNext]_<<part, vars, upVars, dnVars, tsVars, cfVars, gmVars>>
        => /\ [emitting' # emitting => hand.tx - now \in 0 .. TX_DEVIATION_THRESHOLD - 1]_vars
           /\ [\A k \in 1 .. Len(nodes) :
                 fate'[nodes[k].pkt] = "outdated"
                 => \E j \in 1 .. k - 1 : /\ Sec(nodes[j].tx) = Sec(nodes[k].tx)
                                         /\ nodes[j].tx > nodes[k].tx]_vars
           /\ [\A p \in known : fate'[p] = "radioBusy" => fate[p] = "radioBusy"]_vars
  <2>1. [BenchNext]_<<part, vars, upVars, dnVars, tsVars, cfVars, gmVars>> => [Next]_vars
    BY DEF BenchNext
  <2> QED
    BY <2>1, SendIsOnTime, PurgedIsMisordered, BesideFindsItFree
<1> QED
  BY <1>1, <1>2, <1>3, <1>4, PTL
     DEF BenchSpec, ServedOnTime, SentOnTime, OnlyMisorderedPurged, OnlyNewcomersMeetBusyRadio

-----------------------------------------------------------------------------
(* The time synchronisation: timevals first.                                *)

\* A round waits for its answer and then sleeps at least the short interval.
Round == Wait + Short

\* The tokens last for the time considered.
TokensLast == Short <= Long /\ MaxTime < Tokens * Round

\* A timeval stands for its time, and the difference of two for theirs.
LEMMA TimevalIs ==
    ASSUME Sync!TimeSyncAssumption, NEW t \in Int
    PROVE  /\ Sync!Timeval(t).sec \in Int /\ Sync!Timeval(t).usec \in Int
           /\ Sync!Timeval(t).sec * PerSec + Sync!Timeval(t).usec = t
  BY DEF Sync!Timeval, Sync!TimeSyncAssumption

\* Subtracting with the borrow gives the difference of the two times.
LEMMA Difference ==
    ASSUME Sync!TimeSyncAssumption, NEW t \in Int, NEW u \in Int
    PROVE  LET d == Sync!TIMERSUB(Sync!Timeval(t), Sync!Timeval(u))
           IN  d.sec \in Int /\ d.usec \in Int /\ d.sec * PerSec + d.usec = t - u
<1> DEFINE a == Sync!Timeval(t)
           b == Sync!Timeval(u)
           d == Sync!TIMERSUB(a, b)
<1>1. PerSec \in Int
  BY DEF Sync!TimeSyncAssumption
<1>2. /\ a.sec \in Int /\ a.usec \in Int /\ b.sec \in Int /\ b.usec \in Int
      /\ a.sec * PerSec + a.usec = t /\ b.sec * PerSec + b.usec = u
  BY TimevalIs
<1> HIDE DEF a, b
<1>3. CASE a.usec - b.usec < 0
  <2>1. d.sec = a.sec - b.sec - 1 /\ d.usec = a.usec - b.usec + PerSec
    BY <1>3 DEF Sync!TIMERSUB
  <2> HIDE DEF d
  <2>2. (a.sec - b.sec - 1) * PerSec + (a.usec - b.usec + PerSec)
           = (a.sec * PerSec + a.usec) - (b.sec * PerSec + b.usec)
    BY <1>1, <1>2
  <2> QED
    BY <1>1, <1>2, <2>1, <2>2 DEF a, b, d
<1>4. CASE ~ (a.usec - b.usec < 0)
  <2>1. d.sec = a.sec - b.sec /\ d.usec = a.usec - b.usec
    BY <1>4 DEF Sync!TIMERSUB
  <2> HIDE DEF d
  <2>2. (a.sec - b.sec) * PerSec + (a.usec - b.usec)
           = (a.sec * PerSec + a.usec) - (b.sec * PerSec + b.usec)
    BY <1>1, <1>2
  <2> QED
    BY <1>1, <1>2, <2>1, <2>2 DEF a, b, d
<1> QED
  BY <1>3, <1>4

\* Half is exact to within a half.
LEMMA HalfIs ==
    ASSUME NEW n \in Int
    PROVE  Sync!Half(n) \in Int /\ 2 * Sync!Half(n) - n \in {-1, 0, 1}
  BY DEF Sync!Half

\* What the four stamps of an exchange say of the clocks: the server's is
\* ahead by `ahead', and the request was read from its clock no later than
\* the answer was stamped.
LEMMA OffsetBound ==
    ASSUME Sync!TimeSyncAssumption, NEW ahead \in Int,
           NEW t0 \in Int, NEW t1 \in Int, NEW t2 \in Int, NEW t3 \in Int,
           t0 + ahead <= t1, t1 <= t2, t2 <= t3 + ahead
    PROVE  /\ Sync!Offset(t0, t1, t2, t3) \in Int
           /\ Sync!Abs(2 * (Sync!Offset(t0, t1, t2, t3) - ahead)) <= (t3 - t0) + 1
<1> DEFINE a == Sync!TIMERSUB(Sync!Timeval(t1), Sync!Timeval(t0))
           b == Sync!TIMERSUB(Sync!Timeval(t2), Sync!Timeval(t3))
           sum == (a.sec * PerSec) + a.usec + (b.sec * PerSec) + b.usec
<1>1. /\ a.sec \in Int /\ a.usec \in Int /\ a.sec * PerSec + a.usec = t1 - t0
      /\ b.sec \in Int /\ b.usec \in Int /\ b.sec * PerSec + b.usec = t2 - t3
  BY Difference
<1>2. Sync!Offset(t0, t1, t2, t3) = Sync!Half(sum)
  BY DEF Sync!Offset
<1>3. PerSec \in Int
  BY DEF Sync!TimeSyncAssumption
<1> HIDE DEF a, b
<1>4. sum = (t1 - t0) + (t2 - t3)
  <2>1. PICK p \in Int, q \in Int : p = a.sec * PerSec /\ q = b.sec * PerSec
    BY <1>1, <1>3
  <2>2. p + a.usec = t1 - t0 /\ q + b.usec = t2 - t3
    BY <1>1, <2>1
  <2>3. PICK c \in Int, d \in Int : c = a.usec /\ d = b.usec
    BY <1>1
  <2> QED
    BY <2>1, <2>2, <2>3
<1> HIDE DEF sum
<1>5. PICK n \in Int : n = sum
  BY <1>4
<1>6. Sync!Half(n) \in Int /\ 2 * Sync!Half(n) - n \in {-1, 0, 1}
  BY HalfIs
<1>7. PICK h \in Int : h = Sync!Half(n)
  BY <1>6
<1>8. 2 * (h - ahead) <= (t3 - t0) + 1 /\ - (2 * (h - ahead)) <= (t3 - t0) + 1
  BY <1>4, <1>5, <1>6, <1>7
<1> QED
  BY <1>2, <1>5, <1>7, <1>8 DEF Sync!Abs

-----------------------------------------------------------------------------
(* The invariant.                                                           *)

Rcvd == [token : 1 .. Tokens, t1 : Int]
Resp == [token : 1 .. Tokens, t1 : Int, t2 : Int]

SyncTypes ==
    /\ tsNow \in 0 .. MaxTime /\ tsShift \in Shifts
    /\ tsPc \in {"token", "clock", "send", "record", "wait", "sleep"}
    /\ tsUnix \in 0 .. Sync!GwClock /\ tsUntil \in Nat
    /\ tsVar \in [token : 0 .. Tokens, t0 : Int, offset : Int, drift : Int,
                  flag : {"done", "waiting", "error"}]
    /\ tsVar.t0 \in 0 .. tsUnix
    /\ tsReq \in Seq(1 .. Tokens) /\ tsSrv \in Seq(Rcvd) /\ tsRes \in Seq(Resp)
    /\ Len(tsSrv) <= 1
    /\ tsAnswered \in [token : 0 .. Tokens, rtt : Nat] /\ tsAnswered.rtt <= Sync!GwClock

\* No token is used again: each round took its time.
Rounds ==
    /\ tsPc = "token" => tsVar.token * Round <= tsNow
    /\ tsPc # "token" => tsVar.token >= 1
    /\ tsPc \in {"clock", "send", "record"} => (tsVar.token - 1) * Round <= tsNow
    /\ tsPc = "wait" => (tsVar.token - 1) * Round + Wait <= tsUntil
    /\ tsPc = "sleep" => tsVar.token * Round <= tsUntil

\* The requests and answers that are under way follow each other by their
\* tokens, and all of them the one that was answered last.
InOrder ==
    /\ \A j \in 1 .. Len(tsRes) :
          /\ tsAnswered.token < tsRes[j].token
          /\ \A k \in 1 .. Len(tsRes) : j < k => tsRes[j].token < tsRes[k].token
          /\ \A k \in 1 .. Len(tsSrv) : tsRes[j].token < tsSrv[k].token
          /\ \A k \in 1 .. Len(tsReq) : tsRes[j].token < tsReq[k]
    /\ \A j \in 1 .. Len(tsSrv) :
          /\ tsAnswered.token < tsSrv[j].token
          /\ \A k \in 1 .. Len(tsReq) : tsSrv[j].token < tsReq[k]
    /\ \A j \in 1 .. Len(tsReq) :
          /\ tsAnswered.token < tsReq[j]
          /\ \A k \in 1 .. Len(tsReq) : j < k => tsReq[j] < tsReq[k]

\* None is newer than the thread's token, which is new until it is sent.
NoneNewer ==
    LET newest == IF tsPc \in {"clock", "send"} THEN tsVar.token - 1 ELSE tsVar.token
    IN  /\ tsAnswered.token <= newest
        /\ tsPc = "record" => tsAnswered.token < newest
        /\ \A j \in 1 .. Len(tsRes) : tsRes[j].token <= newest
        /\ \A j \in 1 .. Len(tsSrv) : tsSrv[j].token <= newest
        /\ \A j \in 1 .. Len(tsReq) : tsReq[j] <= newest

\* The stamps of the server lie between the clock that was read for the
\* request and now.
Stamped ==
    /\ \A j \in 1 .. Len(tsRes) :
          /\ tsRes[j].t1 <= tsRes[j].t2 /\ tsRes[j].t2 <= Sync!SvClock
          /\ (tsRes[j].token = tsVar.token /\ tsPc # "clock") => tsUnix + tsShift <= tsRes[j].t1
    /\ \A j \in 1 .. Len(tsSrv) :
          /\ tsSrv[j].t1 <= Sync!SvClock
          /\ (tsSrv[j].token = tsVar.token /\ tsPc # "clock") => tsUnix + tsShift <= tsSrv[j].t1
    /\ tsPc \in {"token", "wait", "sleep"} => tsVar.t0 = tsUnix

SyncInv ==
    /\ SyncTypes /\ Rounds /\ InOrder /\ NoneNewer /\ Stamped
    /\ Sync!OffsetAccurate /\ Sync!DoneIsThisRequest

Sound == Sync!TimeSyncAssumption /\ Prompt /\ TokensLast

\* What Sound says of the constants.
LEMMA SyncConstants ==
    ASSUME Sound
    PROVE  /\ Base \in Nat /\ MaxTime \in Nat /\ Shifts \subseteq Int
           /\ Tokens \in Nat \ {0} /\ Wait \in Nat \ {0} /\ Short \in Nat \ {0}
           /\ Long \in Nat /\ Short <= Long
           /\ Round = Wait + Short /\ MaxTime < Tokens * Round
<1>1. /\ {PerSec, Wait, Short, Long, Tokens} \subseteq Nat \ {0}
      /\ {Base, Tolerance, MaxTime} \subseteq Nat /\ Shifts \subseteq Int
  <2>1. Sync!TimeSyncAssumption
    BY DEF Sound
  <2> QED
    BY <2>1 DEF Sync!TimeSyncAssumption
<1>2. Short <= Long /\ MaxTime < Tokens * Round
  BY DEF Sound, TokensLast
<1> QED
  BY <1>1, <1>2 DEF Round

\* The invariant holds at the start.
LEMMA InitSync == Sound /\ Sync!Init => SyncInv
<1> SUFFICES ASSUME Sound, Sync!Init PROVE SyncInv
  OBVIOUS
<1>0. Base \in Nat /\ MaxTime \in Nat /\ Shifts \subseteq Int /\ Round \in Nat
  BY SyncConstants
<1>1. /\ Len(tsReq) = 0 /\ Len(tsSrv) = 0 /\ Len(tsRes) = 0
      /\ tsReq \in Seq(1 .. Tokens) /\ tsSrv \in Seq(Rcvd) /\ tsRes \in Seq(Resp)
  BY EmptySeq DEF Sync!Init
<1>2. SyncTypes
  <2>1. tsVar \in [token : 0 .. Tokens, t0 : Int, offset : Int, drift : Int,
                  flag : {"done", "waiting", "error"}]
    <3>1. 0 \in 0 .. Tokens
      BY SyncConstants
    <3> QED
      BY <3>1 DEF Sync!Init
  <2>2. tsAnswered \in [token : 0 .. Tokens, rtt : Nat]
    <3>1. 0 \in 0 .. Tokens
      BY SyncConstants
    <3> QED
      BY <3>1 DEF Sync!Init
  <2>3. /\ tsNow \in 0 .. MaxTime /\ tsUnix \in 0 .. Sync!GwClock
        /\ tsVar.t0 \in 0 .. tsUnix /\ tsAnswered.rtt <= Sync!GwClock
    BY <1>0 DEF Sync!Init, Sync!GwClock
  <2> QED
    BY <1>1, <2>1, <2>2, <2>3 DEF Sync!Init, SyncTypes
<1>3. Rounds
  BY <1>0 DEF Sync!Init, Rounds
<1>4. InOrder /\ NoneNewer /\ Stamped
  BY <1>1 DEF Sync!Init, InOrder, NoneNewer, Stamped
<1>5. Sync!OffsetAccurate /\ Sync!DoneIsThisRequest
  BY DEF Sync!Init, Sync!OffsetAccurate, Sync!DoneIsThisRequest
<1> QED
  BY <1>2, <1>3, <1>4, <1>5 DEF SyncInv

-----------------------------------------------------------------------------
(* The steps of the thread.                                                 *)

\* While a round is left, tokens are.
LEMMA TokenLeft ==
    ASSUME Sound, SyncTypes, Rounds, tsPc = "token"
    PROVE  tsVar.token < Tokens /\ (tsVar.token % Tokens) + 1 = tsVar.token + 1
<1>1. /\ Tokens \in Nat \ {0} /\ Round \in Nat \ {0} /\ tsVar.token \in 0 .. Tokens
      /\ tsVar.token * Round < Tokens * Round
  <2>1. Tokens \in Nat \ {0} /\ Round \in Nat \ {0} /\ MaxTime \in Nat
        /\ MaxTime < Tokens * Round
    BY SyncConstants
  <2>2. tsVar.token \in 0 .. Tokens /\ tsNow \in 0 .. MaxTime
    BY DEF SyncTypes
  <2>3. tsVar.token * Round <= tsNow
    BY DEF Rounds
  <2>4. PICK x \in Int, y \in Int : x = tsVar.token * Round /\ y = Tokens * Round
    BY <2>1, <2>2
  <2>5. x < y
    BY <2>1, <2>2, <2>3, <2>4
  <2> QED
    BY <2>1, <2>2, <2>4, <2>5
<1>2. tsVar.token < Tokens
  <2>1. CASE tsVar.token = Tokens
    BY <1>1, <2>1
  <2> QED
    BY <1>1, <2>1
<1> QED
  BY <1>1, <1>2

\* What is under way has numbers in it.
LEMMA Elements ==
    ASSUME SyncTypes
    PROVE  /\ \A j \in 1 .. Len(tsRes) : tsRes[j] \in Resp
           /\ \A j \in 1 .. Len(tsRes) :
                 tsRes[j].token \in Int /\ tsRes[j].t1 \in Int /\ tsRes[j].t2 \in Int
           /\ \A j \in 1 .. Len(tsSrv) : tsSrv[j] \in Rcvd
           /\ \A j \in 1 .. Len(tsSrv) : tsSrv[j].token \in Int /\ tsSrv[j].t1 \in Int
           /\ \A j \in 1 .. Len(tsReq) : tsReq[j] \in 1 .. Tokens
           /\ \A j \in 1 .. Len(tsReq) : tsReq[j] \in Int
           /\ Len(tsRes) \in Nat /\ Len(tsSrv) \in Nat /\ Len(tsReq) \in Nat
<1>1. tsReq \in Seq(1 .. Tokens) /\ tsSrv \in Seq(Rcvd) /\ tsRes \in Seq(Resp)
  BY DEF SyncTypes
<1>2. /\ \A j \in 1 .. Len(tsRes) : tsRes[j] \in Resp
      /\ \A j \in 1 .. Len(tsSrv) : tsSrv[j] \in Rcvd
      /\ \A j \in 1 .. Len(tsReq) : tsReq[j] \in 1 .. Tokens
      /\ Len(tsRes) \in Nat /\ Len(tsSrv) \in Nat /\ Len(tsReq) \in Nat
  BY <1>1, ElementOfSeq, LenProperties
<1>3. \A r \in Resp : r.token \in Int /\ r.t1 \in Int /\ r.t2 \in Int
  BY DEF Resp
<1>4. \A r \in Rcvd : r.token \in Int /\ r.t1 \in Int
  BY DEF Rcvd
<1> QED
  BY <1>2, <1>3, <1>4

\* The clocks are numbers, and none was read in the future.
LEMMA Clocks ==
    ASSUME Sound, SyncTypes
    PROVE  /\ tsShift \in Int /\ tsUnix \in Int /\ Sync!GwClock \in Int /\ Sync!SvClock \in Int
           /\ Sync!SvClock = Sync!GwClock + tsShift /\ tsUnix <= Sync!GwClock
<1>1. Base \in Nat /\ MaxTime \in Nat /\ Shifts \subseteq Int
  BY SyncConstants
<1>2. tsNow \in 0 .. MaxTime /\ tsShift \in Shifts
  BY DEF SyncTypes
<1>3. tsNow \in Int /\ tsShift \in Int
  BY <1>1, <1>2
<1>4. Sync!GwClock \in Int /\ Sync!SvClock \in Int /\ Sync!SvClock = Sync!GwClock + tsShift
  BY <1>1, <1>3 DEF Sync!GwClock, Sync!SvClock
<1>5. tsUnix \in 0 .. Sync!GwClock
  BY DEF SyncTypes
<1> QED
  BY <1>3, <1>4, <1>5

\* A new token is larger than all that is under way, as tokens are left.
LEMMA NewTokenKeeps ==
    ASSUME Sound, SyncInv, Sync!NewToken
    PROVE  SyncInv'
<1> USE DEF Sync!NewToken, SyncInv
<1>1. tsVar' = [tsVar EXCEPT !.token = tsVar.token + 1] /\ tsVar.token < Tokens
  BY TokenLeft
<1>2. tsVar.token \in 0 .. Tokens /\ tsVar.token' = tsVar.token + 1 /\ tsVar.t0' = tsVar.t0
      /\ tsVar.offset' = tsVar.offset
  BY <1>1 DEF SyncTypes
<1>3. SyncTypes'
  <2>1. tsVar \in [token : 0 .. Tokens, t0 : Int, offset : Int, drift : Int,
                  flag : {"done", "waiting", "error"}]
    BY DEF SyncTypes
  <2>2. tsVar.token + 1 \in 0 .. Tokens
    BY <1>1, <1>2, SyncConstants
  <2>3. tsVar' \in [token : 0 .. Tokens, t0 : Int, offset : Int, drift : Int,
                 flag : {"done", "waiting", "error"}]
    BY <1>1, <2>1, <2>2
  <2> QED
    BY <1>2, <2>3 DEF SyncTypes, Sync!GwClock, Sync!net
<1>4. Rounds'
  BY <1>2 DEF Rounds
<1>5. InOrder'
  BY DEF InOrder, Sync!net
<1>6. NoneNewer'
  BY <1>2 DEF NoneNewer, Sync!net
<1>7. Stamped'
  BY <1>2 DEF Stamped, Sync!net, Sync!SvClock
<1>8. Sync!OffsetAccurate' /\ Sync!DoneIsThisRequest'
  BY <1>2 DEF Sync!OffsetAccurate, Sync!DoneIsThisRequest
<1> QED
  BY <1>3, <1>4, <1>5, <1>6, <1>7, <1>8

\* Nothing under way is for the new token yet: no stamp constrains the clock read.
LEMMA ReadClockKeeps ==
    ASSUME Sound, SyncInv, Sync!ReadClock
    PROVE  SyncInv'
<1> USE DEF Sync!ReadClock, SyncInv
<1>1. tsVar' = tsVar /\ tsVar.token \in 0 .. Tokens
  BY DEF SyncTypes
<1>2. SyncTypes'
  BY DEF SyncTypes, Sync!GwClock, Sync!net
<1>3. Rounds'
  BY DEF Rounds
<1>4. InOrder'
  BY DEF InOrder, Sync!net
<1>5. NoneNewer'
  BY DEF NoneNewer, Sync!net
<1>6. Stamped'
  <2>1. /\ \A j \in 1 .. Len(tsRes) : tsRes[j].token # tsVar.token
        /\ \A j \in 1 .. Len(tsSrv) : tsSrv[j].token # tsVar.token
    BY <1>1, Elements DEF NoneNewer
  <2> QED
    BY <1>1, <2>1 DEF Stamped, Sync!net, Sync!SvClock
<1>7. Sync!OffsetAccurate' /\ Sync!DoneIsThisRequest'
  BY DEF Sync!OffsetAccurate, Sync!DoneIsThisRequest
<1> QED
  BY <1>2, <1>3, <1>4, <1>5, <1>6, <1>7

\* The request goes behind all others.
LEMMA SendReqKeeps ==
    ASSUME Sound, SyncInv, Sync!SendReq
    PROVE  SyncInv'
<1> USE DEF Sync!SendReq, SyncInv
<1>1. tsVar' = tsVar /\ tsVar.token \in 0 .. Tokens /\ tsVar.token >= 1
  BY DEF SyncTypes, Rounds
<1>2. tsReq' = Append(tsReq, tsVar.token) /\ tsReq \in Seq(1 .. Tokens) /\ tsVar.token \in 1 .. Tokens
  BY <1>1, SyncConstants DEF SyncTypes
<1>3. /\ tsReq' \in Seq(1 .. Tokens) /\ Len(tsReq') = Len(tsReq) + 1
      /\ \A j \in 1 .. Len(tsReq) : tsReq'[j] = tsReq[j]
      /\ tsReq'[Len(tsReq) + 1] = tsVar.token
  BY <1>2, AppendProperties
<1>4. /\ tsAnswered.token < tsVar.token
      /\ \A j \in 1 .. Len(tsRes) : tsRes[j].token < tsVar.token
      /\ \A j \in 1 .. Len(tsSrv) : tsSrv[j].token < tsVar.token
      /\ \A j \in 1 .. Len(tsReq) : tsReq[j] < tsVar.token
      /\ tsAnswered.token \in Int
  <2>1. tsAnswered.token \in Int
    BY DEF SyncTypes
  <2> QED
    BY <1>1, <2>1, Elements DEF NoneNewer
<1>5. SyncTypes'
  BY <1>3 DEF SyncTypes, Sync!GwClock
<1>6. Rounds'
  BY DEF Rounds
<1>7. Len(tsReq) \in Nat
  BY Elements
<1>8. InOrder'
  <2>1. \A k \in 1 .. Len(tsReq') : k \in 1 .. Len(tsReq) \/ (k = Len(tsReq) + 1 /\ tsReq'[k] = tsVar.token)
    BY <1>3, <1>7
  <2>2. \A j \in 1 .. Len(tsRes) : \A k \in 1 .. Len(tsReq') : tsRes[j].token < tsReq'[k]
    BY <1>3, <1>4, <2>1 DEF InOrder
  <2>3. \A j \in 1 .. Len(tsSrv) : \A k \in 1 .. Len(tsReq') : tsSrv[j].token < tsReq'[k]
    BY <1>3, <1>4, <2>1 DEF InOrder
  <2>4. \A j \in 1 .. Len(tsReq') : tsAnswered.token < tsReq'[j]
    BY <1>3, <1>4, <2>1 DEF InOrder
  <2>5. ASSUME NEW j \in 1 .. Len(tsReq'), NEW k \in 1 .. Len(tsReq'), j < k
        PROVE  tsReq'[j] < tsReq'[k]
    <3>1. j \in 1 .. Len(tsReq)
      BY <1>3, <1>7, <2>5
    <3> QED
      BY <1>3, <1>4, <2>1, <2>5, <3>1 DEF InOrder
  <2> QED
    BY <2>2, <2>3, <2>4, <2>5 DEF InOrder
<1>9. NoneNewer'
  <2>1. \A k \in 1 .. Len(tsReq') : tsReq'[k] <= tsVar.token
    BY <1>1, <1>3, <1>4, <1>7, Elements
  <2>2. /\ \A j \in 1 .. Len(tsRes) : tsRes[j].token <= tsVar.token
        /\ \A j \in 1 .. Len(tsSrv) : tsSrv[j].token <= tsVar.token
    BY <1>1, <1>4, Elements
  <2> QED
    BY <1>1, <1>4, <2>1, <2>2 DEF NoneNewer
<1>10. Stamped'
  BY DEF Stamped, Sync!SvClock
<1>11. Sync!OffsetAccurate' /\ Sync!DoneIsThisRequest'
  BY DEF Sync!OffsetAccurate, Sync!DoneIsThisRequest
<1> QED
  BY <1>5, <1>6, <1>8, <1>9, <1>10, <1>11

\* Recording t0 starts the wait of a request that is not yet answered.
LEMMA RecordKeeps ==
    ASSUME Sound, SyncInv, Sync!Record
    PROVE  SyncInv'
<1> USE DEF Sync!Record, SyncInv
<1>1. /\ tsVar' = [tsVar EXCEPT !.t0 = tsUnix, !.flag = "waiting"]
      /\ tsVar \in [token : 0 .. Tokens, t0 : Int, offset : Int, drift : Int,
                  flag : {"done", "waiting", "error"}]
      /\ tsUnix \in Int /\ tsNow \in Nat /\ Wait \in Nat
  BY SyncConstants DEF SyncTypes, Sync!GwClock
<1>2. /\ tsVar' \in [token : 0 .. Tokens, t0 : Int, offset : Int, drift : Int,
                   flag : {"done", "waiting", "error"}]
      /\ tsVar'.token = tsVar.token /\ tsVar'.t0 = tsUnix /\ tsVar'.offset = tsVar.offset
      /\ tsVar'.flag = "waiting"
  BY <1>1
<1>3. SyncTypes'
  <2>1. tsUntil' \in Nat /\ tsUnix' \in 0 .. Sync!GwClock' /\ tsUnix \in 0 .. tsUnix
    BY <1>1 DEF SyncTypes, Sync!GwClock
  <2> QED
    BY <1>2, <2>1 DEF SyncTypes, Sync!GwClock, Sync!net
<1>4. Rounds'
  <2>1. (tsVar.token - 1) * Round <= tsNow
    BY DEF Rounds
  <2>2. PICK x \in Int : x = (tsVar.token - 1) * Round
    BY <1>1, SyncConstants
  <2>3. (tsVar'.token - 1) * Round + Wait <= tsUntil'
    BY <1>1, <1>2, <2>1, <2>2
  <2> QED
    BY <1>2, <2>3 DEF Rounds
<1>5. InOrder'
  BY DEF InOrder, Sync!net
<1>6. NoneNewer'
  BY <1>2 DEF NoneNewer, Sync!net
<1>7. Stamped'
  BY <1>2 DEF Stamped, Sync!SvClock, Sync!net
<1>8. Sync!OffsetAccurate'
  BY <1>2 DEF Sync!OffsetAccurate
<1>9. Sync!DoneIsThisRequest'
  <2>1. tsAnswered.token < tsVar.token /\ tsAnswered.token \in Int /\ tsVar.token \in Int
    BY DEF NoneNewer, SyncTypes
  <2> QED
    BY <1>2, <2>1 DEF Sync!DoneIsThisRequest
<1> QED
  BY <1>3, <1>4, <1>5, <1>6, <1>7, <1>8, <1>9

\* The end of the wait leaves a mark that says done.
LEMMA WaitOverKeeps ==
    ASSUME Sound, SyncInv, Sync!WaitOver
    PROVE  SyncInv'
<1> USE DEF Sync!WaitOver, SyncInv
<1>1. /\ tsVar \in [token : 0 .. Tokens, t0 : Int, offset : Int, drift : Int,
                  flag : {"done", "waiting", "error"}]
      /\ tsNow \in Nat /\ tsUntil \in Nat
      /\ Wait \in Nat /\ Short \in Nat /\ Long \in Nat /\ Short <= Long
      /\ Round = Wait + Short
  BY SyncConstants DEF SyncTypes
<1>2. /\ tsVar' \in [token : 0 .. Tokens, t0 : Int, offset : Int, drift : Int,
                   flag : {"done", "waiting", "error"}]
      /\ tsVar'.token = tsVar.token /\ tsVar'.t0 = tsVar.t0 /\ tsVar'.offset = tsVar.offset
      /\ tsVar'.flag = "done" <=> tsVar.flag = "done"
  BY <1>1
<1>3. tsUntil' \in Nat /\ tsUntil' >= tsUntil + Short
  BY <1>1
<1>4. SyncTypes'
  BY <1>2, <1>3 DEF SyncTypes, Sync!GwClock, Sync!net
<1>5. Rounds'
  <2>1. (tsVar.token - 1) * Round + Wait <= tsUntil
    BY DEF Rounds
  <2>2. (tsVar.token - 1) * Round = tsVar.token * Round - Round
    BY <1>1
  <2>3. PICK x \in Int : x = tsVar.token * Round
    BY <1>1
  <2>4. tsVar'.token * Round <= tsUntil'
    BY <1>1, <1>2, <1>3, <2>1, <2>2, <2>3
  <2> QED
    BY <1>2, <2>4 DEF Rounds
<1>6. InOrder'
  BY DEF InOrder, Sync!net
<1>7. NoneNewer'
  BY <1>2 DEF NoneNewer, Sync!net
<1>8. Stamped'
  BY <1>2 DEF Stamped, Sync!SvClock, Sync!net
<1>9. Sync!OffsetAccurate' /\ Sync!DoneIsThisRequest'
  BY <1>2 DEF Sync!OffsetAccurate, Sync!DoneIsThisRequest
<1> QED
  BY <1>4, <1>5, <1>6, <1>7, <1>8, <1>9

\* The round took its time.
LEMMA AgainKeeps ==
    ASSUME Sound, SyncInv, Sync!Again
    PROVE  SyncInv'
<1> USE DEF Sync!Again, SyncInv
<1>1. SyncTypes'
  BY DEF SyncTypes, Sync!GwClock, Sync!net
<1>2. Rounds'
  <2>1. /\ tsVar.token * Round <= tsUntil /\ tsUntil <= tsNow
        /\ tsUntil \in Int /\ tsNow \in Int
        /\ tsVar.token \in Int /\ Round \in Int
    <3>1. tsVar.token * Round <= tsUntil /\ tsUntil <= tsNow
      BY DEF Rounds
    <3>2. tsUntil \in Nat /\ tsNow \in 0 .. MaxTime /\ tsVar.token \in 0 .. Tokens
      BY DEF SyncTypes
    <3>3. MaxTime \in Int /\ Tokens \in Int /\ Round \in Int
      BY SyncConstants
    <3> QED
      BY <3>1, <3>2, <3>3
  <2>2. PICK x \in Int : x = tsVar.token * Round
    BY <2>1
  <2>3. tsVar.token * Round <= tsNow
    BY <2>1, <2>2
  <2> QED
    BY <2>3 DEF Rounds
<1>3. InOrder'
  BY DEF InOrder, Sync!net
<1>4. NoneNewer'
  BY DEF NoneNewer, Sync!net
<1>5. Stamped'
  BY DEF Stamped, Sync!SvClock, Sync!net
<1>6. Sync!OffsetAccurate' /\ Sync!DoneIsThisRequest'
  BY DEF Sync!OffsetAccurate, Sync!DoneIsThisRequest
<1> QED
  BY <1>1, <1>2, <1>3, <1>4, <1>5, <1>6

-----------------------------------------------------------------------------
(* The steps of the server and of the clock.                                *)

\* What is left of a sequence without its first element.
LEMMA TailIs ==
    ASSUME NEW S, NEW q \in Seq(S), q # << >>
    PROVE  /\ Head(q) = q[1] /\ 1 \in 1 .. Len(q) /\ q[1] \in S
           /\ Tail(q) \in Seq(S) /\ Len(Tail(q)) = Len(q) - 1
           /\ \A j \in 1 .. Len(Tail(q)) : j + 1 \in 1 .. Len(q) /\ Tail(q)[j] = q[j + 1]
<1>1. Len(q) \in Nat \ {0}
  BY LenProperties, EmptySeq
<1> QED
  BY <1>1, HeadTailProperties, ElementOfSeq

\* The server stamps the reception of the oldest request.
LEMMA SvReceiveKeeps ==
    ASSUME Sound, SyncInv, Sync!SvReceive
    PROVE  SyncInv'
<1> USE DEF Sync!SvReceive, SyncInv
<1> DEFINE m == [token |-> Head(tsReq), t1 |-> Sync!SvClock]
<1>1. /\ Head(tsReq) = tsReq[1] /\ 1 \in 1 .. Len(tsReq) /\ tsReq[1] \in 1 .. Tokens
      /\ tsReq' \in Seq(1 .. Tokens) /\ Len(tsReq') = Len(tsReq) - 1
      /\ \A j \in 1 .. Len(tsReq') : j + 1 \in 1 .. Len(tsReq) /\ tsReq'[j] = tsReq[j + 1]
  <2>1. tsReq # << >> /\ tsReq \in Seq(1 .. Tokens) /\ tsReq' = Tail(tsReq)
    BY DEF SyncTypes
  <2>2. /\ Head(tsReq) = tsReq[1] /\ 1 \in 1 .. Len(tsReq) /\ tsReq[1] \in 1 .. Tokens
        /\ Tail(tsReq) \in Seq(1 .. Tokens) /\ Len(Tail(tsReq)) = Len(tsReq) - 1
        /\ \A j \in 1 .. Len(Tail(tsReq)) :
              j + 1 \in 1 .. Len(tsReq) /\ Tail(tsReq)[j] = tsReq[j + 1]
    <3> HIDE DEF Sync!SvReceive
    <3> QED
      BY <2>1, TailIs, Zenon
  <2> QED
    BY <2>1, <2>2, Zenon
<1>2. Sync!SvClock \in Int /\ Sync!SvClock >= tsUnix + tsShift /\ tsUnix \in Int /\ tsShift \in Int
  BY Clocks
<1>3. m \in Rcvd /\ m.token = tsReq[1] /\ m.t1 = Sync!SvClock
  BY <1>1, <1>2 DEF Rcvd
<1> HIDE DEF m
<1>4. tsSrv' = <<m>> /\ Len(tsSrv') = 1 /\ tsSrv'[1] = m /\ tsSrv' \in Seq(Rcvd)
  BY <1>3 DEF m
<1>5. /\ Len(tsSrv) = 0 /\ Len(tsReq) \in Nat /\ Len(tsRes) \in Nat
  BY Elements
<1>6. SyncTypes'
  BY <1>1, <1>4 DEF SyncTypes, Sync!GwClock
<1>7. Rounds'
  BY DEF Rounds
<1>8. InOrder'
  <2>1. \A j \in 1 .. Len(tsRes) : /\ tsAnswered.token < tsRes[j].token
                                   /\ \A k \in 1 .. Len(tsRes) : j < k => tsRes[j].token < tsRes[k].token
                                   /\ tsRes[j].token < m.token
                                   /\ \A k \in 1 .. Len(tsReq') : tsRes[j].token < tsReq'[k]
    BY <1>1, <1>3 DEF InOrder
  <2>2. tsAnswered.token < m.token /\ \A k \in 1 .. Len(tsReq') : m.token < tsReq'[k]
    BY <1>1, <1>3, <1>5 DEF InOrder
  <2>3. \A j \in 1 .. Len(tsReq') : /\ tsAnswered.token < tsReq'[j]
                                    /\ \A k \in 1 .. Len(tsReq') : j < k => tsReq'[j] < tsReq'[k]
    BY <1>1, <1>5 DEF InOrder
  <2>4. \A j \in 1 .. Len(tsSrv') : tsSrv'[j] = m
    BY <1>4
  <2> QED
    BY <2>1, <2>2, <2>3, <2>4 DEF InOrder
<1>9. NoneNewer'
  <2>1. \A j \in 1 .. Len(tsSrv') : tsSrv'[j].token = tsReq[1]
    BY <1>3, <1>4
  <2> QED
    BY <1>1, <2>1 DEF NoneNewer
<1>10. Stamped'
  <2>1. \A j \in 1 .. Len(tsSrv') : tsSrv'[j].t1 = Sync!SvClock
    BY <1>3, <1>4
  <2>2. Sync!SvClock' = Sync!SvClock
    BY DEF Sync!SvClock
  <2> QED
    BY <1>2, <2>1, <2>2 DEF Stamped
<1>11. Sync!OffsetAccurate' /\ Sync!DoneIsThisRequest'
  BY DEF Sync!OffsetAccurate, Sync!DoneIsThisRequest
<1> QED
  BY <1>6, <1>7, <1>8, <1>9, <1>10, <1>11

\* The answer goes behind those under way, stamped no earlier than its request.
LEMMA SvAnswerKeeps ==
    ASSUME Sound, SyncInv, Sync!SvAnswer
    PROVE  SyncInv'
<1> USE DEF Sync!SvAnswer, SyncInv
<1> DEFINE m == [token |-> tsSrv[1].token, t1 |-> tsSrv[1].t1, t2 |-> Sync!SvClock]
<1>1. tsSrv # << >> /\ tsSrv \in Seq(Rcvd) /\ Len(tsSrv) = 1 /\ tsSrv[1] \in Rcvd /\ 1 \in 1 .. Len(tsSrv)
  <2>1. tsSrv # << >> /\ tsSrv \in Seq(Rcvd) /\ Len(tsSrv) <= 1
    BY DEF SyncTypes
  <2>2. Len(tsSrv) \in Nat /\ Len(tsSrv) # 0
    BY <2>1, LenProperties, EmptySeq
  <2>3. Len(tsSrv) = 1 /\ 1 \in 1 .. Len(tsSrv)
    <3>1. PICK n \in Nat : n = Len(tsSrv)
      BY <2>2
    <3> QED
      BY <2>1, <2>2, <3>1
  <2> QED
    BY <2>1, <2>3, ElementOfSeq
<1>2. Sync!SvClock \in Int /\ tsUnix \in Int /\ tsShift \in Int
  BY Clocks
<1>3. m \in Resp /\ m.token = tsSrv[1].token /\ m.t1 = tsSrv[1].t1 /\ m.t2 = Sync!SvClock
  BY <1>1, <1>2 DEF Rcvd, Resp
<1> HIDE DEF m
<1>4. /\ tsRes' \in Seq(Resp) /\ Len(tsRes') = Len(tsRes) + 1
      /\ \A j \in 1 .. Len(tsRes) : tsRes'[j] = tsRes[j]
      /\ tsRes'[Len(tsRes) + 1] = m
  BY <1>3, AppendProperties DEF SyncTypes, m
<1>5. /\ Len(tsReq) \in Nat /\ Len(tsRes) \in Nat /\ Len(tsSrv') = 0 /\ tsSrv' \in Seq(Rcvd)
  BY Elements, EmptySeq
<1>6. \A k \in 1 .. Len(tsRes') : k \in 1 .. Len(tsRes) \/ (k = Len(tsRes) + 1 /\ tsRes'[k] = m)
  BY <1>4, <1>5
<1>7. SyncTypes'
  BY <1>4, <1>5 DEF SyncTypes, Sync!GwClock
<1>8. Rounds'
  BY DEF Rounds
<1>9. InOrder'
  <2>1. \A j \in 1 .. Len(tsRes) : tsRes[j].token < m.token
    BY <1>1, <1>3 DEF InOrder
  <2>2. tsAnswered.token < m.token /\ \A k \in 1 .. Len(tsReq) : m.token < tsReq[k]
    BY <1>1, <1>3 DEF InOrder
  <2>3. ASSUME NEW j \in 1 .. Len(tsRes')
        PROVE  /\ tsAnswered.token < tsRes'[j].token
               /\ \A k \in 1 .. Len(tsReq) : tsRes'[j].token < tsReq[k]
    BY <1>4, <1>6, <2>2 DEF InOrder
  <2>4. ASSUME NEW j \in 1 .. Len(tsRes'), NEW k \in 1 .. Len(tsRes'), j < k
        PROVE  tsRes'[j].token < tsRes'[k].token
    <3>1. j \in 1 .. Len(tsRes)
      BY <1>4, <1>5, <2>4
    <3> QED
      BY <1>4, <1>6, <2>1, <2>4, <3>1 DEF InOrder
  <2> QED
    BY <1>5, <2>3, <2>4 DEF InOrder
<1>10. NoneNewer'
  BY <1>1, <1>3, <1>4, <1>5, <1>6 DEF NoneNewer
<1>11. Stamped'
  <2>1. Sync!SvClock' = Sync!SvClock
    BY DEF Sync!SvClock
  <2>2. /\ m.t1 <= m.t2 /\ m.t2 <= Sync!SvClock
        /\ (m.token = tsVar.token /\ tsPc # "clock") => tsUnix + tsShift <= m.t1
    BY <1>1, <1>2, <1>3 DEF Stamped
  <2> QED
    BY <1>4, <1>5, <1>6, <2>1, <2>2 DEF Stamped
<1>12. Sync!OffsetAccurate' /\ Sync!DoneIsThisRequest'
  BY DEF Sync!OffsetAccurate, Sync!DoneIsThisRequest
<1> QED
  BY <1>7, <1>8, <1>9, <1>10, <1>11, <1>12

\* Time passes on both clocks alike.
LEMMA TickKeepsSync ==
    ASSUME Sound, SyncInv, Sync!Tick
    PROVE  SyncInv'
<1> USE DEF Sync!Tick, SyncInv
<1>1. tsNow \in Nat /\ MaxTime \in Nat /\ Base \in Nat /\ tsShift \in Int /\ tsUnix \in Int
  BY SyncConstants DEF SyncTypes, Sync!GwClock
<1>2. SyncTypes'
  BY <1>1 DEF SyncTypes, Sync!GwClock, Sync!net
<1>3. Rounds'
  <2>1. tsVar.token \in Int /\ Round \in Int
    BY SyncConstants DEF SyncTypes
  <2>2. PICK x \in Int, y \in Int : x = tsVar.token * Round /\ y = (tsVar.token - 1) * Round
    BY <2>1
  <2> QED
    BY <1>1, <2>2 DEF Rounds
<1>4. InOrder'
  BY DEF InOrder, Sync!net
<1>5. NoneNewer'
  BY DEF NoneNewer, Sync!net
<1>6. Stamped'
  BY <1>1, Elements DEF Stamped, Sync!SvClock, Sync!net
<1>7. Sync!OffsetAccurate' /\ Sync!DoneIsThisRequest'
  BY DEF Sync!OffsetAccurate, Sync!DoneIsThisRequest
<1> QED
  BY <1>2, <1>3, <1>4, <1>5, <1>6, <1>7

-----------------------------------------------------------------------------
(* The downlink thread.                                                     *)

\* Taking an answer leaves the others behind it.
LEMMA AnswerTaken ==
    ASSUME Sound, SyncInv, Sync!Down
    PROVE  /\ Head(tsRes) = tsRes[1] /\ 1 \in 1 .. Len(tsRes) /\ tsRes[1] \in Resp
           /\ tsRes' \in Seq(Resp)
           /\ \A j \in 1 .. Len(tsRes') : j + 1 \in 1 .. Len(tsRes) /\ tsRes'[j] = tsRes[j + 1]
<1>1. tsRes # << >> /\ tsRes \in Seq(Resp) /\ tsRes' = Tail(tsRes)
  BY DEF Sync!Down, SyncInv, SyncTypes
<1>2. /\ Head(tsRes) = tsRes[1] /\ 1 \in 1 .. Len(tsRes) /\ tsRes[1] \in Resp
      /\ Tail(tsRes) \in Seq(Resp)
      /\ \A j \in 1 .. Len(Tail(tsRes)) :
            j + 1 \in 1 .. Len(tsRes) /\ Tail(tsRes)[j] = tsRes[j + 1]
  BY <1>1, TailIs, Zenon
<1> QED
  BY <1>1, <1>2, Zenon

\* An answer that is taken for the thread's request was sent for it.
LEMMA SameIsCurrent ==
    ASSUME Sound, SyncInv, Sync!Down, Sync!SameToken(tsRes[1])
    PROVE  /\ tsPc \in {"token", "wait", "sleep"} /\ tsVar.t0 = tsUnix
           /\ tsUnix + tsShift <= tsRes[1].t1 /\ tsRes[1].t1 <= tsRes[1].t2 /\ tsRes[1].t2 <= Sync!SvClock
           /\ tsRes[1].token = tsVar.token
<1>1. 1 \in 1 .. Len(tsRes) /\ tsRes[1].token = tsVar.token /\ tsRes[1].token \in Int
  BY AnswerTaken, Elements DEF Sync!SameToken, SyncInv
<1>2. tsPc # "record"
  BY DEF Sound, Sync!Down
<1>3. tsPc \notin {"clock", "send"}
  BY <1>1 DEF SyncInv, NoneNewer
<1>4. tsPc \in {"token", "wait", "sleep"}
  BY <1>2, <1>3 DEF SyncInv, SyncTypes
<1> QED
  BY <1>1, <1>4 DEF SyncInv, Stamped

\* Those that are left follow each other as before.
LEMMA OthersInOrder ==
    ASSUME Sound, SyncInv, Sync!Down
    PROVE  \A j \in 1 .. Len(tsRes') :
              /\ \A k \in 1 .. Len(tsRes') : j < k => tsRes'[j].token < tsRes'[k].token
              /\ \A k \in 1 .. Len(tsSrv) : tsRes'[j].token < tsSrv[k].token
              /\ \A k \in 1 .. Len(tsReq) : tsRes'[j].token < tsReq[k]
<1>1. \A j \in 1 .. Len(tsRes') : j \in Int /\ j + 1 \in 1 .. Len(tsRes) /\ tsRes'[j] = tsRes[j + 1]
  BY AnswerTaken
<1>2. ASSUME NEW j \in 1 .. Len(tsRes'), NEW k \in 1 .. Len(tsRes'), j < k
      PROVE  tsRes'[j].token < tsRes'[k].token
  <2>1. j + 1 < k + 1
    BY <1>1, <1>2
  <2>2. tsRes[j + 1].token < tsRes[k + 1].token
    BY <1>1, <2>1 DEF SyncInv, InOrder
  <2> QED
    BY <1>1, <2>2, Zenon
<1>3. ASSUME NEW j \in 1 .. Len(tsRes')
      PROVE  /\ \A k \in 1 .. Len(tsSrv) : tsRes'[j].token < tsSrv[k].token
             /\ \A k \in 1 .. Len(tsReq) : tsRes'[j].token < tsReq[k]
  BY <1>1 DEF SyncInv, InOrder
<1> QED
  BY <1>2, <1>3

\* The answer to this request gives the offset; another one only the mark.
LEMMA DownKeeps ==
    ASSUME Sound, SyncInv, Sync!Down
    PROVE  SyncInv'
<1> DEFINE m == tsRes[1]
           o == Sync!Offset(tsVar.t0, m.t1, m.t2, Sync!GwClock)
<1>1. /\ 1 \in 1 .. Len(tsRes) /\ m \in Resp /\ tsRes' \in Seq(Resp)
      /\ \A j \in 1 .. Len(tsRes') : j + 1 \in 1 .. Len(tsRes) /\ tsRes'[j] = tsRes[j + 1]
      /\ Len(tsRes) \in Nat /\ Len(tsRes') \in Nat
  BY AnswerTaken, LenProperties, Elements DEF SyncInv
<1>2. /\ m.token \in 1 .. Tokens /\ m.t1 \in Int /\ m.t2 \in Int
      /\ Sync!GwClock \in Int /\ tsUnix \in Int /\ tsShift \in Int /\ tsUnix <= Sync!GwClock
      /\ Sync!SvClock = Sync!GwClock + tsShift
  BY <1>1, Clocks DEF Resp, SyncInv
<1>3. UNCHANGED <<tsNow, tsShift, tsPc, tsUnix, tsUntil, tsReq, tsSrv>>
  BY DEF Sync!Down
<1>4. CASE Sync!SameToken(m)
  <2>1. /\ tsVar' = [tsVar EXCEPT !.offset = o, !.drift = o - tsVar.offset,
                             !.flag = IF Sync!Tolerable(o) THEN "done" ELSE "error"]
        /\ tsAnswered' = [token |-> m.token, rtt |-> Sync!GwClock - tsUnix]
    BY <1>4, AnswerTaken DEF Sync!Down
  <2>2. /\ tsPc \in {"token", "wait", "sleep"} /\ tsVar.t0 = tsUnix /\ m.token = tsVar.token
        /\ tsUnix + tsShift <= m.t1 /\ m.t1 <= m.t2 /\ m.t2 <= Sync!SvClock
    BY <1>4, SameIsCurrent
  <2>3. Sync!TimeSyncAssumption
    BY DEF Sound
  <2>4. o \in Int /\ Sync!Abs(2 * (o - tsShift)) <= (Sync!GwClock - tsUnix) + 1
    BY <1>2, <2>2, <2>3, OffsetBound
  <2>5. tsVar \in [token : 0 .. Tokens, t0 : Int, offset : Int, drift : Int,
                  flag : {"done", "waiting", "error"}]
    BY DEF SyncInv, SyncTypes
  <2> HIDE DEF o
  <2>6. /\ tsVar' \in [token : 0 .. Tokens, t0 : Int, offset : Int, drift : Int,
                     flag : {"done", "waiting", "error"}]
        /\ tsVar'.token = tsVar.token /\ tsVar'.t0 = tsVar.t0 /\ tsVar'.offset = o
        /\ tsVar'.flag = "done" <=> Sync!Tolerable(o)
    <3>1. PICK f \in {"done", "error"} :
             /\ f = IF Sync!Tolerable(o) THEN "done" ELSE "error"
             /\ f = "done" <=> Sync!Tolerable(o)
      OBVIOUS
    <3>2. PICK d \in Int : d = o - tsVar.offset
      BY <2>4, <2>5
    <3>3. tsVar' = [tsVar EXCEPT !.offset = o, !.drift = d, !.flag = f]
      BY <2>1, <3>1, <3>2
    <3>4. /\ tsVar' \in [token : 0 .. Tokens, t0 : Int, offset : Int, drift : Int,
                       flag : {"done", "waiting", "error"}]
          /\ tsVar'.token = tsVar.token /\ tsVar'.t0 = tsVar.t0 /\ tsVar'.offset = o
          /\ tsVar'.flag = f
      BY <2>4, <2>5, <3>3
    <3>5. tsVar'.flag = "done" <=> Sync!Tolerable(o)
      BY <3>1, <3>4, Zenon
    <3> QED
      BY <3>4, <3>5, Zenon
  <2>7. /\ tsAnswered'.token = m.token /\ tsAnswered'.rtt = Sync!GwClock - tsUnix
        /\ Sync!GwClock - tsUnix \in Nat /\ Sync!GwClock - tsUnix <= Sync!GwClock
    <3>1. tsUnix \in 0 .. Sync!GwClock
      BY DEF SyncInv, SyncTypes
    <3> QED
      BY <1>2, <2>1, <3>1
  <2>8. SyncTypes'
    <3>1. tsAnswered' \in [token : 0 .. Tokens, rtt : Nat]
      BY <1>2, <2>1, <2>7
    <3> QED
      BY <1>1, <1>3, <2>6, <2>7, <3>1 DEF SyncInv, SyncTypes, Sync!GwClock
  <2>9. Rounds'
    BY <1>3, <2>6 DEF SyncInv, Rounds
  <2>10. InOrder'
    <3>1. \A j \in 1 .. Len(tsRes') : 1 < j + 1
      BY <1>1
    <3>2. \A j \in 1 .. Len(tsRes') : tsAnswered'.token < tsRes'[j].token
      BY <1>1, <2>7, <3>1 DEF SyncInv, InOrder
    <3>3. /\ \A j \in 1 .. Len(tsSrv) : tsAnswered'.token < tsSrv[j].token
          /\ \A j \in 1 .. Len(tsReq) : tsAnswered'.token < tsReq[j]
      BY <1>1, <2>7 DEF SyncInv, InOrder
    <3> QED
      BY <1>3, <3>2, <3>3, OthersInOrder DEF SyncInv, InOrder
  <2>11. NoneNewer'
    <3>1. tsVar.token \in Int /\ m.token <= tsVar.token
      BY <2>2, <2>5
    <3> QED
      BY <1>1, <1>3, <2>2, <2>6, <2>7, <3>1 DEF SyncInv, NoneNewer
  <2>12. Stamped'
    BY <1>1, <1>3, <2>6 DEF SyncInv, Stamped, Sync!SvClock
  <2>13. Sync!OffsetAccurate'
    BY <1>3, <2>4, <2>6, <2>7 DEF Sync!OffsetAccurate, Sync!Abs
  <2>14. Sync!DoneIsThisRequest'
    BY <1>3, <2>2, <2>6, <2>7 DEF Sync!DoneIsThisRequest, Sync!Tolerable
  <2> QED
    BY <2>8, <2>9, <2>10, <2>11, <2>12, <2>13, <2>14 DEF SyncInv
<1>5. CASE ~ Sync!SameToken(m)
  <2>1. tsVar' = [tsVar EXCEPT !.flag = "error"] /\ tsAnswered' = tsAnswered
    BY <1>5, AnswerTaken DEF Sync!Down
  <2>2. tsVar \in [token : 0 .. Tokens, t0 : Int, offset : Int, drift : Int,
                  flag : {"done", "waiting", "error"}]
    BY DEF SyncInv, SyncTypes
  <2>3. /\ tsVar' \in [token : 0 .. Tokens, t0 : Int, offset : Int, drift : Int,
                     flag : {"done", "waiting", "error"}]
        /\ tsVar'.token = tsVar.token /\ tsVar'.t0 = tsVar.t0 /\ tsVar'.offset = tsVar.offset
        /\ tsVar'.flag = "error"
    BY <2>1, <2>2
  <2>4. SyncTypes'
    BY <1>1, <1>3, <2>1, <2>3 DEF SyncInv, SyncTypes, Sync!GwClock
  <2>5. Rounds'
    BY <1>3, <2>3 DEF SyncInv, Rounds
  <2>6. InOrder'
    <3>1. \A j \in 1 .. Len(tsRes') : tsAnswered'.token < tsRes'[j].token
      BY <1>1, <2>1 DEF SyncInv, InOrder
    <3> QED
      BY <1>3, <2>1, <3>1, OthersInOrder DEF SyncInv, InOrder
  <2>7. NoneNewer'
    BY <1>1, <1>3, <2>1, <2>3 DEF SyncInv, NoneNewer
  <2>8. Stamped'
    BY <1>1, <1>3, <2>3 DEF SyncInv, Stamped, Sync!SvClock
  <2>9. Sync!OffsetAccurate'
    BY <1>3, <2>1, <2>3 DEF SyncInv, Sync!OffsetAccurate
  <2>10. Sync!DoneIsThisRequest'
    <3>1. tsAnswered.token < m.token /\ m.token # tsVar.token
      BY <1>1, <1>5 DEF SyncInv, InOrder, Sync!SameToken
    <3>2. tsPc \in {"wait", "sleep"} => m.token <= tsVar.token
      BY <1>1 DEF SyncInv, NoneNewer
    <3>3. tsAnswered.token \in Int /\ tsVar.token \in Int
      BY <2>2 DEF SyncInv, SyncTypes
    <3>4. tsPc \in {"wait", "sleep"} => tsAnswered.token # tsVar.token
      BY <1>2, <3>1, <3>2, <3>3
    <3> QED
      BY <1>3, <2>1, <2>3, <3>4 DEF Sync!DoneIsThisRequest
  <2> QED
    BY <2>4, <2>5, <2>6, <2>7, <2>8, <2>9, <2>10 DEF SyncInv
<1> QED
  BY <1>4, <1>5

-----------------------------------------------------------------------------
(* The theorems.                                                            *)

\* Every step keeps the invariant.
LEMMA NextKeepsSync == Sound /\ SyncInv /\ [Sync!Next]_(Sync!vars) => SyncInv'
<1> SUFFICES ASSUME Sound, SyncInv, [Sync!Next]_(Sync!vars) PROVE SyncInv'
  OBVIOUS
<1>1. CASE UNCHANGED Sync!vars
  BY <1>1 DEF Sync!vars, Sync!net, SyncInv, SyncTypes, Rounds, InOrder, NoneNewer, Stamped,
              Sync!OffsetAccurate, Sync!DoneIsThisRequest, Sync!GwClock, Sync!SvClock
<1> QED
  BY <1>1, NewTokenKeeps, ReadClockKeeps, SendReqKeeps, RecordKeeps, WaitOverKeeps, AgainKeeps,
     SvReceiveKeeps, SvAnswerKeeps, TickKeepsSync, DownKeeps DEF Sync!Next

\* The invariant says what type correctness says.
LEMMA SyncInvTypes == Sound /\ SyncInv => Sync!TypeOK
<1> SUFFICES ASSUME Sound, SyncInv PROVE Sync!TypeOK
  OBVIOUS
<1>1. Sync!GwClock \in Int
  BY Clocks DEF SyncInv
<1>2. tsAnswered \in [token : 0 .. Tokens, rtt : 0 .. Sync!GwClock]
  <2>1. tsAnswered \in [token : 0 .. Tokens, rtt : Nat] /\ tsAnswered.rtt <= Sync!GwClock
    BY DEF SyncInv, SyncTypes
  <2>2. tsAnswered.rtt \in 0 .. Sync!GwClock
    BY <1>1, <2>1
  <2> QED
    BY <2>1, <2>2
<1> QED
  BY <1>2 DEF SyncInv, SyncTypes, Sync!TypeOK

\* In every reachable state of the thread, the server and the downlink thread
\* no clock was read in the future, and at most one request is being answered.
THEOREM SyncTypeCorrect == Sound => (Sync!Spec => []Sync!TypeOK)
<1> SUFFICES ASSUME Sound PROVE Sync!Spec => []Sync!TypeOK
  OBVIOUS
<1>1. Sync!Init => SyncInv
  BY InitSync
<1>2. SyncInv /\ [Sync!Next]_(Sync!vars) => SyncInv'
  BY NextKeepsSync
<1>3. SyncInv => Sync!TypeOK
  BY SyncInvTypes
<1> QED
  BY <1>1, <1>2, <1>3, PTL DEF Sync!Spec

(* The offset an answer gives is that of the clocks to within half of the    *)
(* time the exchange took, for all delays on the way: the arithmetic of      *)
(* timevals with its borrows, and answers to earlier requests included       *)
(* (rtlora_gw.c:1290-1306).                                                  *)
THEOREM ClocksMeasured == Sound => (Sync!Spec => []Sync!OffsetAccurate)
<1> SUFFICES ASSUME Sound PROVE Sync!Spec => []Sync!OffsetAccurate
  OBVIOUS
<1>1. Sync!Init => SyncInv
  BY InitSync
<1>2. SyncInv /\ [Sync!Next]_(Sync!vars) => SyncInv'
  BY NextKeepsSync
<1>3. SyncInv => Sync!OffsetAccurate
  BY DEF SyncInv
<1> QED
  BY <1>1, <1>2, <1>3, PTL DEF Sync!Spec

(* While a request waits or the thread sleeps after it, the mark says done   *)
(* exactly if that very request was answered within the tolerance, although  *)
(* two threads write the mark (rtlora_gw.c:1308-1320, 1709-1717).            *)
THEOREM DoneMeansAnswered == Sound => (Sync!Spec => []Sync!DoneIsThisRequest)
<1> SUFFICES ASSUME Sound PROVE Sync!Spec => []Sync!DoneIsThisRequest
  OBVIOUS
<1>1. Sync!Init => SyncInv
  BY InitSync
<1>2. SyncInv /\ [Sync!Next]_(Sync!vars) => SyncInv'
  BY NextKeepsSync
<1>3. SyncInv => Sync!DoneIsThisRequest
  BY DEF SyncInv
<1> QED
  BY <1>1, <1>2, <1>3, PTL DEF Sync!Spec

(* What the runs check of the gateway's parts side by side: whichever part a *)
(* behaviour is of, the offset is right to within half of the exchange and   *)
(* the mark says done for the answer to this request only.  The parts share  *)
(* no variable, so the other parts take no step in a behaviour of this one   *)
(* (rtlora_gw.c:1290-1320, 1709-1717).                                       *)
THEOREM OffsetIsAccurate == (Prompt /\ TokensLast) => (BenchSpec => []OffsetAccurate)
<1> SUFFICES ASSUME Prompt, TokensLast PROVE BenchSpec => []OffsetAccurate
  OBVIOUS
<1> DEFINE PartInv == part = "sync" => SyncInv
<1>1. Sound
  BY PartsAssumption DEF Sound
<1>2. BenchInit => PartInv
  BY <1>1, InitSync DEF BenchInit
<1>3. PartInv /\ [BenchNext]_<<part, vars, upVars, dnVars, tsVars, cfVars, gmVars>> => PartInv'
  <2> SUFFICES ASSUME PartInv, [BenchNext]_<<part, vars, upVars, dnVars, tsVars, cfVars, gmVars>>,
                      part' = "sync"
               PROVE  SyncInv'
    OBVIOUS
  <2>1. part = "sync"
    BY DEF BenchNext
  <2>2. [Sync!Next]_(Sync!vars)
    BY <2>1 DEF BenchNext, Sync!vars, tsVars
  <2> QED
    BY <1>1, <2>1, <2>2, NextKeepsSync
<1>4. PartInv => OffsetAccurate
  BY <1>1, SyncInvTypes DEF SyncInv, OffsetAccurate
<1> QED
  BY <1>2, <1>3, <1>4, PTL DEF BenchSpec
-----------------------------------------------------------------------------
(* The configuration.  The sections of a file come first: where each stands *)
(* in the order of the parser, and what is left from a place on.            *)

\* The last place is that of the address.
Places == LGW_RF_CHAIN_NB + LGW_MULTI_NB + 6

SectionAt(j) ==
    IF j = 1 THEN <<"board", 0>>
    ELSE IF j = 2 THEN <<"gain", 0>>
    ELSE IF j = 3 THEN <<"lut", 0>>
    ELSE IF j <= 3 + LGW_RF_CHAIN_NB THEN <<"radio", j - 4>>
    ELSE IF j <= Places - 3 THEN <<"multi", j - 4 - LGW_RF_CHAIN_NB>>
    ELSE IF j = Places - 2 THEN <<"std", 0>>
    ELSE IF j = Places - 1 THEN <<"fsk", 0>>
    ELSE <<"gateway", 0>>

FromPlace(j) == [k \in 1 .. Places - j + 1 |-> SectionAt(j + k - 1)]

Sections == {"board", "gain", "lut", "radio", "multi", "std", "fsk", "gateway"} \X Int

\* The counts of radios, channels and places.
LEMMA Counted ==
    /\ LGW_RF_CHAIN_NB \in Nat /\ LGW_MULTI_NB \in Nat /\ LutMax \in Nat \ {0}
    /\ Conf!Radios = 0 .. LGW_RF_CHAIN_NB - 1 /\ Conf!Channels = 0 .. LGW_MULTI_NB - 1
    /\ Places \in Nat /\ Places >= 6
<1>1. Conf!ConfigAssumption
  BY PartsAssumption
<1>2. LGW_RF_CHAIN_NB \in Nat /\ LGW_MULTI_NB \in Nat /\ LutMax \in Nat \ {0}
  BY <1>1 DEF Conf!ConfigAssumption
<1> QED
  BY <1>2 DEF Places, Conf!Radios, Conf!Channels

\* The places of the parser's order.
LEMMA OrderIs ==
    /\ Conf!Order \in Seq(Sections) /\ Len(Conf!Order) = Places
    /\ \A j \in 1 .. Places : Conf!Order[j] = SectionAt(j)
<1> DEFINE r == LGW_RF_CHAIN_NB
           c == LGW_MULTI_NB
           a == <<<<"board", 0>>, <<"gain", 0>>, <<"lut", 0>>>>
           b == [k \in 1 .. r |-> <<"radio", k - 1>>]
           d == [k \in 1 .. c |-> <<"multi", k - 1>>]
           e == <<<<"std", 0>>, <<"fsk", 0>>, <<"gateway", 0>>>>
<1>1. r \in Nat /\ c \in Nat /\ Places = r + c + 6
  BY Counted DEF Places
<1>2. Conf!Order = ((a \o b) \o d) \o e
  BY Zenon DEF Conf!Order
<1>3. /\ a \in Seq(Sections) /\ Len(a) = 3
      /\ a[1] = <<"board", 0>> /\ a[2] = <<"gain", 0>> /\ a[3] = <<"lut", 0>>
  BY DEF Sections
<1>4. /\ e \in Seq(Sections) /\ Len(e) = 3
      /\ e[1] = <<"std", 0>> /\ e[2] = <<"fsk", 0>> /\ e[3] = <<"gateway", 0>>
  BY DEF Sections
<1>5. /\ b \in Seq(Sections) /\ Len(b) = r
      /\ \A k \in 1 .. r : b[k] = <<"radio", k - 1>>
  <2>1. b \in [1 .. r -> Sections]
    BY <1>1 DEF Sections
  <2> QED
    BY <1>1, <2>1, SeqDef, LenProperties
<1>6. /\ d \in Seq(Sections) /\ Len(d) = c
      /\ \A k \in 1 .. c : d[k] = <<"multi", k - 1>>
  <2>1. d \in [1 .. c -> Sections]
    BY <1>1 DEF Sections
  <2> QED
    BY <1>1, <2>1, SeqDef, LenProperties
<1> DEFINE ab == a \o b
           abd == ab \o d
           abde == abd \o e
<1>7. Conf!Order = abde
  BY <1>2
<1> HIDE DEF r, c, a, b, d, e
<1>8. /\ ab \in Seq(Sections) /\ Len(ab) = 3 + r
      /\ \A k \in 1 .. 3 + r : ab[k] = IF k <= 3 THEN a[k] ELSE b[k - 3]
  <2>1. /\ ab \in Seq(Sections) /\ Len(ab) = Len(a) + Len(b)
        /\ \A k \in 1 .. Len(a) + Len(b) :
              ab[k] = IF k <= Len(a) THEN a[k] ELSE b[k - Len(a)]
    <3>1. a \in Seq(Sections) /\ b \in Seq(Sections)
      BY <1>3, <1>5
    <3> QED
      BY <3>1, ConcatProperties, Zenon
  <2> QED
    BY <1>1, <1>3, <1>5, <2>1
<1> HIDE DEF ab
<1>9. /\ abd \in Seq(Sections) /\ Len(abd) = 3 + r + c
      /\ \A k \in 1 .. 3 + r + c : abd[k] = IF k <= 3 + r THEN ab[k] ELSE d[k - (3 + r)]
  <2>1. /\ abd \in Seq(Sections) /\ Len(abd) = Len(ab) + Len(d)
        /\ \A k \in 1 .. Len(ab) + Len(d) :
              abd[k] = IF k <= Len(ab) THEN ab[k] ELSE d[k - Len(ab)]
    <3>1. ab \in Seq(Sections) /\ d \in Seq(Sections)
      BY <1>6, <1>8
    <3> QED
      BY <3>1, ConcatProperties, Zenon
  <2> QED
    BY <1>1, <1>6, <1>8, <2>1
<1> HIDE DEF abd
<1>10. /\ abde \in Seq(Sections) /\ Len(abde) = 6 + r + c
       /\ \A k \in 1 .. 6 + r + c :
             abde[k] = IF k <= 3 + r + c THEN abd[k] ELSE e[k - (3 + r + c)]
  <2>1. /\ abde \in Seq(Sections) /\ Len(abde) = Len(abd) + Len(e)
        /\ \A k \in 1 .. Len(abd) + Len(e) :
              abde[k] = IF k <= Len(abd) THEN abd[k] ELSE e[k - Len(abd)]
    <3>1. abd \in Seq(Sections) /\ e \in Seq(Sections)
      BY <1>4, <1>9
    <3> QED
      BY <3>1, ConcatProperties, Zenon
  <2> QED
    BY <1>1, <1>4, <1>9, <2>1
<1> HIDE DEF abde
<1>11. ASSUME NEW j \in 1 .. Places PROVE abde[j] = SectionAt(j)
  <2>1. CASE j <= 3
    <3>1. abde[j] = a[j]
      BY <1>1, <1>8, <1>9, <1>10, <2>1
    <3>2. j = 1 \/ j = 2 \/ j = 3
      BY <2>1
    <3> QED
      BY <1>3, <3>1, <3>2 DEF SectionAt
  <2>2. CASE j > 3 /\ j <= 3 + r
    <3>1. abde[j] = b[j - 3] /\ j - 3 \in 1 .. r
      BY <1>1, <1>8, <1>9, <1>10, <2>2
    <3>2. abde[j] = <<"radio", (j - 3) - 1>>
      BY <1>5, <3>1
    <3>3. SectionAt(j) = <<"radio", j - 4>>
      BY <1>1, <2>2 DEF SectionAt, r
    <3> QED
      BY <1>1, <3>2, <3>3
  <2>3. CASE j > 3 + r /\ j <= 3 + r + c
    <3>1. abde[j] = d[j - (3 + r)] /\ j - (3 + r) \in 1 .. c
      BY <1>1, <1>9, <1>10, <2>3
    <3>2. abde[j] = <<"multi", (j - (3 + r)) - 1>>
      BY <1>6, <3>1
    <3>3. SectionAt(j) = <<"multi", j - 4 - r>>
      BY <1>1, <2>3 DEF SectionAt, r
    <3>4. (j - (3 + r)) - 1 = j - 4 - r
      BY <1>1
    <3> QED
      BY <3>2, <3>3, <3>4
  <2>4. CASE j > 3 + r + c
    <3>1. abde[j] = e[j - (3 + r + c)]
      BY <1>1, <1>10, <2>4
    <3>2. j = Places - 2 \/ j = Places - 1 \/ j = Places
      BY <1>1, <2>4
    <3>3. /\ j = Places - 2 => SectionAt(j) = <<"std", 0>> /\ j - (3 + r + c) = 1
          /\ j = Places - 1 => SectionAt(j) = <<"fsk", 0>> /\ j - (3 + r + c) = 2
          /\ j = Places => SectionAt(j) = <<"gateway", 0>> /\ j - (3 + r + c) = 3
      BY <1>1 DEF SectionAt, r
    <3> QED
      BY <1>4, <3>1, <3>2, <3>3
  <2> QED
    BY <1>1, <2>1, <2>2, <2>3, <2>4
<1> QED
  BY <1>1, <1>7, <1>10, <1>11

\* Which section stands where.
LEMMA PlaceOf ==
    ASSUME NEW j \in 1 .. Places
    PROVE  /\ SectionAt(j) \in Sections
           /\ SectionAt(j) = <<"board", 0>> => j = 1
           /\ SectionAt(j) = <<"gain", 0>> => j = 2
           /\ SectionAt(j) = <<"lut", 0>> => j = 3
           /\ \A k \in Conf!Radios : SectionAt(j) = <<"radio", k>> => j = 4 + k
           /\ \A k \in Conf!Channels :
                 SectionAt(j) = <<"multi", k>> => j = 4 + LGW_RF_CHAIN_NB + k
           /\ SectionAt(j) = <<"std", 0>> => j = Places - 2
           /\ SectionAt(j) = <<"fsk", 0>> => j = Places - 1
           /\ SectionAt(j)[1] = "gateway" <=> j = Places
  BY Counted DEF SectionAt, Sections, Places

\* What is left of the sections as the parser goes on.
LEMMA FromPlaceIs ==
    /\ FromPlace(1) = Conf!Order
    /\ FromPlace(Places) = <<<<"gateway", 0>>>>
    /\ \A j \in 1 .. Places :
          /\ Len(FromPlace(j)) = Places - j + 1
          /\ Head(FromPlace(j)) = SectionAt(j)
          /\ j < Places => Tail(FromPlace(j)) = FromPlace(j + 1)
          /\ \A k \in DOMAIN FromPlace(j) : FromPlace(j)[k] \in {SectionAt(l) : l \in 1 .. Places}
<1>1. ASSUME NEW j \in 1 .. Places
      PROVE  /\ FromPlace(j) \in Seq(Sections)
             /\ Len(FromPlace(j)) = Places - j + 1
             /\ \A k \in 1 .. Places - j + 1 : FromPlace(j)[k] = SectionAt(j + k - 1)
  <2>1. Places - j + 1 \in Nat /\ \A k \in 1 .. Places - j + 1 : j + k - 1 \in 1 .. Places
    BY Counted
  <2>2. FromPlace(j) \in [1 .. Places - j + 1 -> Sections]
    BY <2>1, PlaceOf DEF FromPlace
  <2> QED
    BY <2>1, <2>2, SeqDef, LenProperties DEF FromPlace
<1>2. FromPlace(1) = Conf!Order
  <2>1. 1 \in 1 .. Places /\ Places - 1 + 1 = Places
    BY Counted
  <2>2. /\ FromPlace(1) \in Seq(Sections) /\ Len(FromPlace(1)) = Places
        /\ \A k \in 1 .. Places : FromPlace(1)[k] = SectionAt(k)
    BY <1>1, <2>1, Counted
  <2> QED
    BY <2>2, OrderIs, SeqEqual
<1>3. FromPlace(Places) = <<<<"gateway", 0>>>>
  <2>1. Places \in 1 .. Places /\ Places - Places + 1 = 1
    BY Counted
  <2>2. /\ FromPlace(Places) \in Seq(Sections) /\ Len(FromPlace(Places)) = 1
        /\ FromPlace(Places)[1] = SectionAt(Places)
    <3>1. /\ FromPlace(Places) \in Seq(Sections) /\ Len(FromPlace(Places)) = Places - Places + 1
          /\ \A k \in 1 .. Places - Places + 1 : FromPlace(Places)[k] = SectionAt(Places + k - 1)
      BY <1>1, <2>1
    <3>2. Places + 1 - 1 = Places /\ 1 \in 1 .. Places - Places + 1
      BY Counted
    <3>3. FromPlace(Places)[1] = SectionAt(Places + 1 - 1)
      BY <3>1, <3>2
    <3> QED
      BY <2>1, <3>1, <3>2, <3>3
  <2>3. SectionAt(Places) = <<"gateway", 0>>
    BY Counted DEF SectionAt, Places
  <2> QED
    BY <2>2, <2>3, SeqEqual DEF Sections
<1>4. ASSUME NEW j \in 1 .. Places
      PROVE  /\ Head(FromPlace(j)) = SectionAt(j)
             /\ j < Places => Tail(FromPlace(j)) = FromPlace(j + 1)
             /\ \A k \in DOMAIN FromPlace(j) : FromPlace(j)[k] \in {SectionAt(l) : l \in 1 .. Places}
  <2>1. Places - j + 1 \in Nat \ {0} /\ 1 \in 1 .. Places - j + 1 /\ j + 1 - 1 = j
    BY Counted
  <2>2. FromPlace(j) # << >>
    BY <1>1, <2>1, EmptySeq
  <2>3. Head(FromPlace(j)) = FromPlace(j)[1] /\ FromPlace(j)[1] = SectionAt(j)
    BY <1>1, <2>1, <2>2, HeadTailProperties
  <2>4. ASSUME j < Places PROVE Tail(FromPlace(j)) = FromPlace(j + 1)
    <3>1. j + 1 \in 1 .. Places /\ Places - (j + 1) + 1 = Places - j
      BY <2>4, Counted
    <3>2. /\ Tail(FromPlace(j)) \in Seq(Sections) /\ Len(Tail(FromPlace(j))) = Places - j
          /\ \A k \in 1 .. Places - j : Tail(FromPlace(j))[k] = FromPlace(j)[k + 1]
      BY <1>1, <2>2, HeadTailProperties, Counted
    <3>3. \A k \in 1 .. Places - j : FromPlace(j + 1)[k] = Tail(FromPlace(j))[k]
      <4> TAKE k \in 1 .. Places - j
      <4>1. k + 1 \in 1 .. Places - j + 1 /\ j + (k + 1) - 1 = (j + 1) + k - 1
        BY Counted
      <4>2. FromPlace(j)[k + 1] = SectionAt((j + 1) + k - 1)
        BY <1>1, <4>1
      <4> QED
        BY <1>1, <3>1, <3>2, <4>2
    <3>4. FromPlace(j + 1) \in Seq(Sections) /\ Len(FromPlace(j + 1)) = Places - j
      BY <1>1, <3>1
    <3> QED
      BY <3>2, <3>3, <3>4, SeqEqual
  <2>5. \A k \in DOMAIN FromPlace(j) : FromPlace(j)[k] \in {SectionAt(l) : l \in 1 .. Places}
    <3> TAKE k \in DOMAIN FromPlace(j)
    <3>1. k \in 1 .. Places - j + 1
      BY DEF FromPlace
    <3>2. j + k - 1 \in 1 .. Places
      BY <3>1, Counted
    <3> QED
      BY <1>1, <3>1, <3>2
  <2> QED
    BY <2>3, <2>4, <2>5
<1> QED
  BY <1>1, <1>2, <1>3, <1>4
-----------------------------------------------------------------------------
(* What the library holds, and what a file has made of it up to a place.    *)

Shape(h) ==
    h = [board |-> h.board, lut |-> h.lut,
         radio |-> [k \in Conf!Radios |-> h.radio[k]],
         multi |-> [k \in Conf!Channels |-> h.multi[k]],
         std |-> h.std, fsk |-> h.fsk]

HalTypes(h) ==
    /\ Shape(h)
    /\ h.lut.size \in 0 .. LutMax
    /\ \A k \in Conf!Radios : h.radio[k].type \in {"none", "SX1255", "SX1257"}
    /\ \A k \in Conf!Channels : h.multi[k].enable \in BOOLEAN
    /\ "sf" \in DOMAIN h.std /\ h.std.sf \in {0} \cup (7 .. 12)

\* The sections before place j are those of the file, the others are as before.
Made(old, f, j) ==
    [board |-> IF 1 < j THEN Conf!Over(old, f).board ELSE old.board,
     lut   |-> IF 3 < j THEN Conf!Over(old, f).lut ELSE old.lut,
     radio |-> [k \in Conf!Radios |->
                   IF 4 + k < j THEN Conf!Over(old, f).radio[k] ELSE old.radio[k]],
     multi |-> [k \in Conf!Channels |->
                   IF 4 + LGW_RF_CHAIN_NB + k < j
                   THEN Conf!Over(old, f).multi[k] ELSE old.multi[k]],
     std   |-> IF Places - 2 < j THEN Conf!Over(old, f).std ELSE old.std,
     fsk   |-> IF Places - 1 < j THEN Conf!Over(old, f).fsk ELSE old.fsk]

AcceptedUpTo(c, j) ==
    /\ "lut" \in DOMAIN c /\ 3 < j => Conf!LutAccepted(Conf!Lut(c["lut"]))
    /\ "radio" \in DOMAIN c =>
          \A k \in DOMAIN c["radio"] :
             k \in Conf!Radios /\ 4 + k < j => Conf!RadioAccepted(Conf!Radio(c["radio"][k]))
    /\ "multi" \in DOMAIN c =>
          \A k \in DOMAIN c["multi"] :
             k \in Conf!Channels /\ 4 + LGW_RF_CHAIN_NB + k < j =>
                Conf!MultiAccepted(c["multi"][k])
    /\ "std" \in DOMAIN c /\ Places - 2 < j => Conf!StdAccepted(c["std"])
    /\ "fsk" \in DOMAIN c /\ Places - 1 < j => Conf!FskAccepted(c["fsk"])

HasObject(f) == f # None /\ f.SX1301 # None

\* Over, section by section.
LEMMA OverIs ==
    ASSUME NEW old, NEW f, HasObject(f)
    PROVE  /\ Shape(Conf!Over(old, f))
           /\ Conf!Over(old, f).board =
                 Conf!Board(IF "board" \in DOMAIN f.SX1301 THEN f.SX1301["board"] ELSE << >>)
           /\ Conf!Over(old, f).lut =
                 Conf!Gains(old.lut, Conf!Lut(IF "lut" \in DOMAIN f.SX1301 THEN f.SX1301["lut"] ELSE << >>))
           /\ \A k \in Conf!Radios : Conf!Over(old, f).radio[k] =
                 IF "radio" \in DOMAIN f.SX1301 /\ k \in DOMAIN f.SX1301["radio"]
                 THEN Conf!Radio(f.SX1301["radio"][k]) ELSE old.radio[k]
           /\ \A k \in Conf!Channels : Conf!Over(old, f).multi[k] =
                 IF "multi" \in DOMAIN f.SX1301 /\ k \in DOMAIN f.SX1301["multi"]
                 THEN Conf!MultiSf(old.multi[k], f.SX1301["multi"][k]) ELSE old.multi[k]
           /\ Conf!Over(old, f).std =
                 IF "std" \in DOMAIN f.SX1301
                 THEN Conf!Std(old.std, f.SX1301["std"]) ELSE old.std
           /\ Conf!Over(old, f).fsk =
                 IF "fsk" \in DOMAIN f.SX1301
                 THEN Conf!Fsk(old.fsk, f.SX1301["fsk"]) ELSE old.fsk
  BY DEF HasObject, Conf!Over, Shape

\* A file not yet begun has made nothing, and one at its last section all.
LEMMA MadeEnds ==
    ASSUME NEW old, NEW f, HasObject(f), Shape(old)
    PROVE  Made(old, f, 1) = old /\ Made(old, f, Places) = Conf!Over(old, f)
<1>1. /\ ~ (3 < 1) /\ ~ (Places - 2 < 1) /\ ~ (Places - 1 < 1)
      /\ \A k \in Conf!Radios : ~ (4 + k < 1) /\ 4 + k < Places
      /\ \A k \in Conf!Channels :
            ~ (4 + LGW_RF_CHAIN_NB + k < 1) /\ 4 + LGW_RF_CHAIN_NB + k < Places
      /\ 1 < Places /\ 3 < Places /\ Places - 2 < Places /\ Places - 1 < Places
  BY Counted DEF Places
<1>2. Made(old, f, 1) = old
  BY <1>1 DEF Made, Shape
<1>3. Shape(Conf!Over(old, f))
  BY OverIs
<1>4. Made(old, f, Places) = Conf!Over(old, f)
  <2> DEFINE whole == Conf!Over(old, f)
  <2>1. Shape(whole)
    BY <1>3
  <2>2. Made(old, f, Places) =
           [board |-> whole.board, lut |-> whole.lut,
            radio |-> [k \in Conf!Radios |-> whole.radio[k]],
            multi |-> [k \in Conf!Channels |-> whole.multi[k]],
            std |-> whole.std, fsk |-> whole.fsk]
    BY <1>1 DEF Made
  <2> HIDE DEF whole
  <2>3. Made(old, f, Places) = whole
    BY <2>1, <2>2 DEF Shape
  <2> QED
    BY <2>3 DEF whole
<1> QED
  BY <1>2, <1>4

Rec(b, l, r, m, s, f) ==
    [board |-> b, lut |-> l, radio |-> r, multi |-> m, std |-> s, fsk |-> f]

\* One section of the whole is replaced.
LEMMA RecBoard ==
    ASSUME NEW b, NEW l, NEW r, NEW m, NEW s, NEW f, NEW v
    PROVE  [Rec(b, l, r, m, s, f) EXCEPT !["board"] = v] = Rec(v, l, r, m, s, f)
  BY DEF Rec

LEMMA RecLut ==
    ASSUME NEW b, NEW l, NEW r, NEW m, NEW s, NEW f, NEW v
    PROVE  [Rec(b, l, r, m, s, f) EXCEPT !["lut"] = v] = Rec(b, v, r, m, s, f)
  BY DEF Rec

LEMMA RecRadio ==
    ASSUME NEW b, NEW l, NEW r, NEW m, NEW s, NEW f, NEW v
    PROVE  [Rec(b, l, r, m, s, f) EXCEPT !["radio"] = v] = Rec(b, l, v, m, s, f)
  BY DEF Rec

LEMMA RecMulti ==
    ASSUME NEW b, NEW l, NEW r, NEW m, NEW s, NEW f, NEW v
    PROVE  [Rec(b, l, r, m, s, f) EXCEPT !["multi"] = v] = Rec(b, l, r, v, s, f)
  BY DEF Rec

LEMMA RecStd ==
    ASSUME NEW b, NEW l, NEW r, NEW m, NEW s, NEW f, NEW v
    PROVE  [Rec(b, l, r, m, s, f) EXCEPT !["std"] = v] = Rec(b, l, r, m, v, f)
  BY DEF Rec

LEMMA RecFsk ==
    ASSUME NEW b, NEW l, NEW r, NEW m, NEW s, NEW f, NEW v
    PROVE  [Rec(b, l, r, m, s, f) EXCEPT !["fsk"] = v] = Rec(b, l, r, m, s, v)
  BY DEF Rec

LEMMA RecFields ==
    ASSUME NEW b, NEW l, NEW r, NEW m, NEW s, NEW f
    PROVE  Rec(b, l, r, m, s, f).radio = r /\ Rec(b, l, r, m, s, f).multi = m
  BY DEF Rec

SetRadio(h, k, v) == [h EXCEPT !["radio"] = [h.radio EXCEPT ![k] = v]]
SetMulti(h, k, v) == [h EXCEPT !["multi"] = [h.multi EXCEPT ![k] = v]]

\* One section on.
LEMMA MadeStep ==
    ASSUME NEW old, NEW f
    PROVE  /\ Made(old, f, 2) = [Made(old, f, 1) EXCEPT !["board"] = Conf!Over(old, f).board]
           /\ Made(old, f, 3) = Made(old, f, 2)
           /\ Made(old, f, 4) = [Made(old, f, 3) EXCEPT !["lut"] = Conf!Over(old, f).lut]
           /\ Made(old, f, Places - 1) = [Made(old, f, Places - 2) EXCEPT !["std"] = Conf!Over(old, f).std]
           /\ Made(old, f, Places) = [Made(old, f, Places - 1) EXCEPT !["fsk"] = Conf!Over(old, f).fsk]
<1> DEFINE whole == Conf!Over(old, f)
           mb(j) == IF 1 < j THEN whole.board ELSE old.board
           ml(j) == IF 3 < j THEN whole.lut ELSE old.lut
           mr(j) == [k \in Conf!Radios |-> IF 4 + k < j THEN whole.radio[k] ELSE old.radio[k]]
           mm(j) == [k \in Conf!Channels |->
                        IF 4 + LGW_RF_CHAIN_NB + k < j THEN whole.multi[k] ELSE old.multi[k]]
           ms(j) == IF Places - 2 < j THEN whole.std ELSE old.std
           mf(j) == IF Places - 1 < j THEN whole.fsk ELSE old.fsk
           c0 == 4 + LGW_RF_CHAIN_NB
<1>1. /\ \A k \in Conf!Radios : k \in Int /\ 0 <= k /\ k < LGW_RF_CHAIN_NB
      /\ \A k \in Conf!Channels : k \in Int /\ 0 <= k /\ k < LGW_MULTI_NB
      /\ LGW_RF_CHAIN_NB \in Nat /\ LGW_MULTI_NB \in Nat /\ Places \in Nat
      /\ Places = LGW_RF_CHAIN_NB + LGW_MULTI_NB + 6
  BY Counted DEF Places
<1>2. \A j : Made(old, f, j) = Rec(mb(j), ml(j), mr(j), mm(j), ms(j), mf(j))
  BY DEF Made, Rec
<1> HIDE DEF whole
<1>3. /\ mb(2) = whole.board
      /\ ml(2) = ml(1) /\ mr(2) = mr(1) /\ mm(2) = mm(1) /\ ms(2) = ms(1) /\ mf(2) = mf(1)
  BY <1>1
<1>4. /\ mb(3) = mb(2) /\ ml(3) = ml(2) /\ mr(3) = mr(2) /\ mm(3) = mm(2) /\ ms(3) = ms(2)
      /\ mf(3) = mf(2)
  BY <1>1
<1>5. /\ ml(4) = whole.lut
      /\ mb(4) = mb(3) /\ mr(4) = mr(3) /\ mm(4) = mm(3) /\ ms(4) = ms(3) /\ mf(4) = mf(3)
  BY <1>1
<1>8. /\ ms(Places - 1) = whole.std
      /\ mb(Places - 1) = mb(Places - 2) /\ ml(Places - 1) = ml(Places - 2)
      /\ mr(Places - 1) = mr(Places - 2) /\ mm(Places - 1) = mm(Places - 2)
      /\ mf(Places - 1) = mf(Places - 2)
  BY <1>1
<1>9. /\ mf(Places) = whole.fsk
      /\ mb(Places) = mb(Places - 1) /\ ml(Places) = ml(Places - 1)
      /\ mr(Places) = mr(Places - 1) /\ mm(Places) = mm(Places - 1)
      /\ ms(Places) = ms(Places - 1)
  BY <1>1
<1> HIDE DEF mb, ml, mr, mm, ms, mf
<1>10. Made(old, f, 2) = [Made(old, f, 1) EXCEPT !["board"] = whole.board]
  <2>1. \A v : [Rec(mb(1), ml(1), mr(1), mm(1), ms(1), mf(1))
                EXCEPT !["board"] = v]
             = Rec(v, ml(1), mr(1), mm(1), ms(1), mf(1))
    BY RecBoard
  <2> QED
    BY <1>2, <1>3, <2>1
<1>11. Made(old, f, 3) = Made(old, f, 2)
  BY <1>2, <1>4
<1>12. Made(old, f, 4) = [Made(old, f, 3) EXCEPT !["lut"] = whole.lut]
  <2>1. \A v : [Rec(mb(3), ml(3), mr(3), mm(3), ms(3), mf(3))
                EXCEPT !["lut"] = v]
             = Rec(mb(3), v, mr(3), mm(3), ms(3), mf(3))
    BY RecLut
  <2> QED
    BY <1>2, <1>5, <2>1
<1>15. Made(old, f, Places - 1) = [Made(old, f, Places - 2) EXCEPT !["std"] = whole.std]
  <2>1. \A v : [Rec(mb(Places - 2), ml(Places - 2), mr(Places - 2), mm(Places - 2), ms(Places - 2), mf(Places - 2))
                EXCEPT !["std"] = v]
             = Rec(mb(Places - 2), ml(Places - 2), mr(Places - 2), mm(Places - 2), v, mf(Places - 2))
    BY RecStd
  <2> QED
    BY <1>2, <1>8, <2>1
<1>16. Made(old, f, Places) = [Made(old, f, Places - 1) EXCEPT !["fsk"] = whole.fsk]
  <2>1. \A v : [Rec(mb(Places - 1), ml(Places - 1), mr(Places - 1), mm(Places - 1), ms(Places - 1), mf(Places - 1))
                EXCEPT !["fsk"] = v]
             = Rec(mb(Places - 1), ml(Places - 1), mr(Places - 1), mm(Places - 1), ms(Places - 1), v)
    BY RecFsk
  <2> QED
    BY <1>2, <1>9, <2>1
<1> QED
  BY <1>10, <1>11, <1>12, <1>15, <1>16 DEF whole

LEMMA RadioStep ==
    ASSUME NEW old, NEW f, NEW k \in Conf!Radios
    PROVE  Made(old, f, 4 + k + 1) = SetRadio(Made(old, f, 4 + k), k, Conf!Over(old, f).radio[k])
<1> DEFINE whole == Conf!Over(old, f)
           mb(j) == IF 1 < j THEN whole.board ELSE old.board
           ml(j) == IF 3 < j THEN whole.lut ELSE old.lut
           mr(j) == [l \in Conf!Radios |-> IF 4 + l < j THEN whole.radio[l] ELSE old.radio[l]]
           mm(j) == [l \in Conf!Channels |->
                        IF 4 + LGW_RF_CHAIN_NB + l < j THEN whole.multi[l] ELSE old.multi[l]]
           ms(j) == IF Places - 2 < j THEN whole.std ELSE old.std
           mf(j) == IF Places - 1 < j THEN whole.fsk ELSE old.fsk
           c0 == 4 + LGW_RF_CHAIN_NB
<1>1. /\ \A l \in Conf!Radios : l \in Int /\ 0 <= l /\ l < LGW_RF_CHAIN_NB
      /\ \A l \in Conf!Channels : l \in Int /\ 0 <= l /\ l < LGW_MULTI_NB
      /\ LGW_RF_CHAIN_NB \in Nat /\ LGW_MULTI_NB \in Nat /\ Places \in Nat
      /\ Places = LGW_RF_CHAIN_NB + LGW_MULTI_NB + 6
  BY Counted DEF Places
<1>2. \A j : Made(old, f, j) = Rec(mb(j), ml(j), mr(j), mm(j), ms(j), mf(j))
  BY DEF Made, Rec
<1> HIDE DEF whole
<1>3. /\ mr(4 + k + 1) = [mr(4 + k) EXCEPT ![k] = whole.radio[k]]
      /\ mb(4 + k + 1) = mb(4 + k) /\ ml(4 + k + 1) = ml(4 + k)
      /\ mm(4 + k + 1) = mm(4 + k) /\ ms(4 + k + 1) = ms(4 + k) /\ mf(4 + k + 1) = mf(4 + k)
  <2>1. \A l \in Conf!Radios : 4 + l < 4 + k + 1 <=> (4 + l < 4 + k \/ l = k)
    BY <1>1
  <2>2. mr(4 + k + 1) = [mr(4 + k) EXCEPT ![k] = whole.radio[k]]
    BY <1>1, <2>1
  <2>3. mb(4 + k + 1) = mb(4 + k) /\ ml(4 + k + 1) = ml(4 + k)
    BY <1>1
  <2>4. mm(4 + k + 1) = mm(4 + k)
    BY <1>1
  <2>5. ms(4 + k + 1) = ms(4 + k) /\ mf(4 + k + 1) = mf(4 + k)
    BY <1>1
  <2> QED
    BY <2>2, <2>3, <2>4, <2>5
<1> HIDE DEF mb, ml, mr, mm, ms, mf
<1>4. Made(old, f, 4 + k + 1) =
           SetRadio(Made(old, f, 4 + k), k, whole.radio[k])
  <2>1. \A v : [Rec(mb(4 + k), ml(4 + k), mr(4 + k), mm(4 + k), ms(4 + k), mf(4 + k))
                EXCEPT !["radio"] = v]
             = Rec(mb(4 + k), ml(4 + k), v, mm(4 + k), ms(4 + k), mf(4 + k))
    BY RecRadio
  <2>2. Rec(mb(4 + k), ml(4 + k), mr(4 + k), mm(4 + k), ms(4 + k), mf(4 + k)).radio = mr(4 + k)
    BY RecFields
  <2>3. Made(old, f, 4 + k + 1) =
           Rec(mb(4 + k), ml(4 + k), [mr(4 + k) EXCEPT ![k] = whole.radio[k]], mm(4 + k), ms(4 + k), mf(4 + k))
    BY <1>2, <1>3
  <2>4. Made(old, f, 4 + k) = Rec(mb(4 + k), ml(4 + k), mr(4 + k), mm(4 + k), ms(4 + k), mf(4 + k))
    BY <1>2
  <2>5. [Made(old, f, 4 + k) EXCEPT !["radio"] = [mr(4 + k) EXCEPT ![k] = whole.radio[k]]] =
           Rec(mb(4 + k), ml(4 + k), [mr(4 + k) EXCEPT ![k] = whole.radio[k]], mm(4 + k), ms(4 + k), mf(4 + k))
    BY <2>1, <2>4
  <2>6. Made(old, f, 4 + k).radio = mr(4 + k)
    BY <2>2, <2>4
  <2> QED
    BY <2>3, <2>5, <2>6 DEF SetRadio
<1> QED
  BY <1>4 DEF whole

LEMMA MultiStep ==
    ASSUME NEW old, NEW f, NEW k \in Conf!Channels
    PROVE  Made(old, f, 4 + LGW_RF_CHAIN_NB + k + 1) =
              SetMulti(Made(old, f, 4 + LGW_RF_CHAIN_NB + k), k, Conf!Over(old, f).multi[k])
<1> DEFINE whole == Conf!Over(old, f)
           mb(j) == IF 1 < j THEN whole.board ELSE old.board
           ml(j) == IF 3 < j THEN whole.lut ELSE old.lut
           mr(j) == [l \in Conf!Radios |-> IF 4 + l < j THEN whole.radio[l] ELSE old.radio[l]]
           mm(j) == [l \in Conf!Channels |->
                        IF 4 + LGW_RF_CHAIN_NB + l < j THEN whole.multi[l] ELSE old.multi[l]]
           ms(j) == IF Places - 2 < j THEN whole.std ELSE old.std
           mf(j) == IF Places - 1 < j THEN whole.fsk ELSE old.fsk
           c0 == 4 + LGW_RF_CHAIN_NB
<1>1. /\ \A l \in Conf!Radios : l \in Int /\ 0 <= l /\ l < LGW_RF_CHAIN_NB
      /\ \A l \in Conf!Channels : l \in Int /\ 0 <= l /\ l < LGW_MULTI_NB
      /\ LGW_RF_CHAIN_NB \in Nat /\ LGW_MULTI_NB \in Nat /\ Places \in Nat
      /\ Places = LGW_RF_CHAIN_NB + LGW_MULTI_NB + 6
  BY Counted DEF Places
<1>2. \A j : Made(old, f, j) = Rec(mb(j), ml(j), mr(j), mm(j), ms(j), mf(j))
  BY DEF Made, Rec
<1> HIDE DEF whole
<1>3. /\ mm(c0 + k + 1) = [mm(c0 + k) EXCEPT ![k] = whole.multi[k]]
      /\ mb(c0 + k + 1) = mb(c0 + k) /\ ml(c0 + k + 1) = ml(c0 + k)
      /\ mr(c0 + k + 1) = mr(c0 + k) /\ ms(c0 + k + 1) = ms(c0 + k)
      /\ mf(c0 + k + 1) = mf(c0 + k)
  <2>1. \A l \in Conf!Channels : c0 + l < c0 + k + 1 <=> (c0 + l < c0 + k \/ l = k)
    BY <1>1
  <2>2. mm(c0 + k + 1) = [mm(c0 + k) EXCEPT ![k] = whole.multi[k]]
    BY <1>1, <2>1
  <2>3. mb(c0 + k + 1) = mb(c0 + k) /\ ml(c0 + k + 1) = ml(c0 + k)
    BY <1>1
  <2>4. mr(c0 + k + 1) = mr(c0 + k)
    BY <1>1
  <2>5. ms(c0 + k + 1) = ms(c0 + k) /\ mf(c0 + k + 1) = mf(c0 + k)
    BY <1>1
  <2> QED
    BY <2>2, <2>3, <2>4, <2>5
<1> HIDE DEF mb, ml, mr, mm, ms, mf
<1>4. Made(old, f, 4 + LGW_RF_CHAIN_NB + k + 1) =
           SetMulti(Made(old, f, 4 + LGW_RF_CHAIN_NB + k), k, whole.multi[k])
  <2>1. \A v : [Rec(mb(c0 + k), ml(c0 + k), mr(c0 + k), mm(c0 + k), ms(c0 + k), mf(c0 + k))
                EXCEPT !["multi"] = v]
             = Rec(mb(c0 + k), ml(c0 + k), mr(c0 + k), v, ms(c0 + k), mf(c0 + k))
    BY RecMulti
  <2>2. Rec(mb(c0 + k), ml(c0 + k), mr(c0 + k), mm(c0 + k), ms(c0 + k), mf(c0 + k)).multi = mm(c0 + k)
    BY RecFields
  <2>3. Made(old, f, c0 + k + 1) =
           Rec(mb(c0 + k), ml(c0 + k), mr(c0 + k), [mm(c0 + k) EXCEPT ![k] = whole.multi[k]], ms(c0 + k), mf(c0 + k))
    BY <1>2, <1>3
  <2>4. Made(old, f, c0 + k) = Rec(mb(c0 + k), ml(c0 + k), mr(c0 + k), mm(c0 + k), ms(c0 + k), mf(c0 + k))
    BY <1>2
  <2>5. [Made(old, f, c0 + k) EXCEPT !["multi"] = [mm(c0 + k) EXCEPT ![k] = whole.multi[k]]] =
           Rec(mb(c0 + k), ml(c0 + k), mr(c0 + k), [mm(c0 + k) EXCEPT ![k] = whole.multi[k]], ms(c0 + k), mf(c0 + k))
    BY <2>1, <2>4
  <2>6. Made(old, f, c0 + k).multi = mm(c0 + k)
    BY <2>2, <2>4
  <2> QED
    BY <2>3, <2>5, <2>6 DEF SetMulti
<1> QED
  BY <1>4 DEF whole

\* A section that the file does not have.
LEMMA MadeSame ==
    ASSUME NEW old, NEW f
    PROVE  /\ \A k \in Conf!Radios :
                 Conf!Over(old, f).radio[k] = old.radio[k] =>
                 Made(old, f, 4 + k + 1) = Made(old, f, 4 + k)
           /\ \A k \in Conf!Channels :
                 Conf!Over(old, f).multi[k] = old.multi[k] =>
                 Made(old, f, 4 + LGW_RF_CHAIN_NB + k + 1) = Made(old, f, 4 + LGW_RF_CHAIN_NB + k)
           /\ Conf!Over(old, f).std = old.std => Made(old, f, Places - 1) = Made(old, f, Places - 2)
           /\ Conf!Over(old, f).fsk = old.fsk => Made(old, f, Places) = Made(old, f, Places - 1)
<1>1. /\ \A k \in Conf!Radios : k \in Int /\ 0 <= k /\ k < LGW_RF_CHAIN_NB
      /\ \A k \in Conf!Channels : k \in Int /\ 0 <= k /\ k < LGW_MULTI_NB
      /\ LGW_RF_CHAIN_NB \in Nat /\ LGW_MULTI_NB \in Nat /\ Places \in Nat
      /\ Places = LGW_RF_CHAIN_NB + LGW_MULTI_NB + 6
  BY Counted DEF Places
<1>3. ASSUME NEW k \in Conf!Radios, Conf!Over(old, f).radio[k] = old.radio[k]
      PROVE  Made(old, f, 4 + k + 1) = Made(old, f, 4 + k)
  BY <1>1, <1>3 DEF Made
<1>4. ASSUME NEW k \in Conf!Channels, Conf!Over(old, f).multi[k] = old.multi[k]
      PROVE  Made(old, f, 4 + LGW_RF_CHAIN_NB + k + 1) = Made(old, f, 4 + LGW_RF_CHAIN_NB + k)
  BY <1>1, <1>4 DEF Made
<1>5. Conf!Over(old, f).std = old.std => Made(old, f, Places - 1) = Made(old, f, Places - 2)
  BY <1>1 DEF Made
<1>6. Conf!Over(old, f).fsk = old.fsk => Made(old, f, Places) = Made(old, f, Places - 1)
  BY <1>1 DEF Made
<1> QED
  BY <1>3, <1>4, <1>5, <1>6

\* A section that is not yet parsed is as before.
LEMMA MadeBefore ==
    ASSUME NEW old, NEW f
    PROVE  /\ Made(old, f, 3).lut = old.lut
           /\ \A k \in Conf!Channels : Made(old, f, 4 + LGW_RF_CHAIN_NB + k).multi[k] = old.multi[k]
           /\ Made(old, f, Places - 2).std = old.std
           /\ Made(old, f, Places - 1).fsk = old.fsk
<1>1. /\ ~ (3 < 3) /\ ~ (Places - 2 < Places - 2) /\ ~ (Places - 1 < Places - 1)
      /\ \A k \in Conf!Channels : ~ (4 + LGW_RF_CHAIN_NB + k < 4 + LGW_RF_CHAIN_NB + k)
  BY Counted DEF Places
<1> QED
  BY <1>1 DEF Made
-----------------------------------------------------------------------------
(* What the library accepts, section by section, and the types of what it   *)
(* is given.                                                                *)

LEMMA AcceptedStep ==
    ASSUME NEW c
    PROVE  /\ AcceptedUpTo(c, 1) /\ AcceptedUpTo(c, 2) /\ AcceptedUpTo(c, 3)
           /\ ("lut" \in DOMAIN c => Conf!LutAccepted(Conf!Lut(c["lut"]))) => AcceptedUpTo(c, 4)
           /\ \A k \in Conf!Radios :
                 /\ AcceptedUpTo(c, 4 + k)
                 /\ "radio" \in DOMAIN c /\ k \in DOMAIN c["radio"] =>
                       Conf!RadioAccepted(Conf!Radio(c["radio"][k]))
                 => AcceptedUpTo(c, 4 + k + 1)
           /\ \A k \in Conf!Channels :
                 /\ AcceptedUpTo(c, 4 + LGW_RF_CHAIN_NB + k)
                 /\ "multi" \in DOMAIN c /\ k \in DOMAIN c["multi"] =>
                       Conf!MultiAccepted(c["multi"][k])
                 => AcceptedUpTo(c, 4 + LGW_RF_CHAIN_NB + k + 1)
           /\ /\ AcceptedUpTo(c, Places - 2)
              /\ "std" \in DOMAIN c => Conf!StdAccepted(c["std"])
              => AcceptedUpTo(c, Places - 1)
           /\ /\ AcceptedUpTo(c, Places - 1)
              /\ "fsk" \in DOMAIN c => Conf!FskAccepted(c["fsk"])
              => AcceptedUpTo(c, Places)
<1>1. /\ \A k \in Conf!Radios : k \in Int /\ 0 <= k /\ k < LGW_RF_CHAIN_NB
      /\ \A k \in Conf!Channels : k \in Int /\ 0 <= k /\ k < LGW_MULTI_NB
      /\ LGW_RF_CHAIN_NB \in Nat /\ LGW_MULTI_NB \in Nat /\ Places \in Nat
      /\ Places = LGW_RF_CHAIN_NB + LGW_MULTI_NB + 6
  BY Counted DEF Places
<1>2. /\ AcceptedUpTo(c, 1) /\ AcceptedUpTo(c, 2) /\ AcceptedUpTo(c, 3)
      /\ ("lut" \in DOMAIN c => Conf!LutAccepted(Conf!Lut(c["lut"]))) => AcceptedUpTo(c, 4)
  BY <1>1 DEF AcceptedUpTo
<1>3. ASSUME NEW k \in Conf!Radios, AcceptedUpTo(c, 4 + k),
             "radio" \in DOMAIN c /\ k \in DOMAIN c["radio"] =>
                Conf!RadioAccepted(Conf!Radio(c["radio"][k]))
      PROVE  AcceptedUpTo(c, 4 + k + 1)
  <2>1. \A l \in Conf!Radios : 4 + l < 4 + k + 1 => (4 + l < 4 + k \/ l = k)
    BY <1>1
  <2>2. /\ \A l \in Conf!Channels : ~ (4 + LGW_RF_CHAIN_NB + l < 4 + k + 1)
        /\ ~ (Places - 2 < 4 + k + 1) /\ ~ (Places - 1 < 4 + k + 1) /\ 3 < 4 + k
    BY <1>1
  <2> QED
    BY <1>3, <2>1, <2>2 DEF AcceptedUpTo
<1>4. ASSUME NEW k \in Conf!Channels, AcceptedUpTo(c, 4 + LGW_RF_CHAIN_NB + k),
             "multi" \in DOMAIN c /\ k \in DOMAIN c["multi"] =>
                Conf!MultiAccepted(c["multi"][k])
      PROVE  AcceptedUpTo(c, 4 + LGW_RF_CHAIN_NB + k + 1)
  <2> DEFINE c0 == 4 + LGW_RF_CHAIN_NB
  <2>1. \A l \in Conf!Channels : c0 + l < c0 + k + 1 => (c0 + l < c0 + k \/ l = k)
    BY <1>1
  <2>2. /\ \A l \in Conf!Radios : 4 + l < c0 + k
        /\ 3 < c0 + k
        /\ ~ (Places - 2 < c0 + k + 1) /\ ~ (Places - 1 < c0 + k + 1)
    BY <1>1
  <2> QED
    BY <1>4, <2>1, <2>2 DEF AcceptedUpTo
<1>5. /\ \A l \in Conf!Radios : 4 + l < Places - 2
      /\ \A l \in Conf!Channels : 4 + LGW_RF_CHAIN_NB + l < Places - 2
      /\ ~ (Places - 1 < Places - 1) /\ Places - 2 < Places - 1 /\ 3 < Places - 2 /\ 3 < Places - 1
      /\ \A l \in Conf!Radios : 4 + l < Places - 1
      /\ \A l \in Conf!Channels : 4 + LGW_RF_CHAIN_NB + l < Places - 1
  BY <1>1
<1>6. ASSUME AcceptedUpTo(c, Places - 2),
             "std" \in DOMAIN c => Conf!StdAccepted(c["std"])
      PROVE  AcceptedUpTo(c, Places - 1)
  BY <1>5, <1>6 DEF AcceptedUpTo
<1>7. ASSUME AcceptedUpTo(c, Places - 1),
             "fsk" \in DOMAIN c => Conf!FskAccepted(c["fsk"])
      PROVE  AcceptedUpTo(c, Places)
  BY <1>5, <1>7 DEF AcceptedUpTo
<1> QED
  BY <1>2, <1>3, <1>4, <1>6, <1>7

\* A file of which all sections and the address are taken is accepted.
LEMMA AcceptedWhole ==
    ASSUME NEW f, HasObject(f), f # Invalid, f.gateway # None, AcceptedUpTo(f.SX1301, Places)
    PROVE  Conf!Accepted(f)
<1>1. /\ \A l \in Conf!Radios : 4 + l < Places
      /\ \A l \in Conf!Channels : 4 + LGW_RF_CHAIN_NB + l < Places
      /\ Places - 2 < Places /\ Places - 1 < Places /\ 3 < Places
  BY Counted DEF Places
<1> QED
  BY <1>1 DEF AcceptedUpTo, Conf!Accepted, HasObject

\* The numbers of objects of a gain table.
LEMMA LutFits ==
    ASSUME NEW c, DOMAIN c \subseteq 0 .. LutMax - 1
    PROVE  /\ Conf!Lut(c).size \in 0 .. LutMax /\ Conf!Lut(c).size = Cardinality(DOMAIN c)
           /\ IsFiniteSet(DOMAIN c)
<1>1. IsFiniteSet(0 .. LutMax - 1) /\ Cardinality(0 .. LutMax - 1) = LutMax
  <2>1. LutMax - 1 \in Int /\ 0 \in Int /\ LutMax - 1 >= 0 /\ LutMax - 1 - 0 + 1 = LutMax
    BY Counted
  <2> QED
    BY <2>1, FS_Interval
<1>2. /\ Cardinality(DOMAIN c) \in Nat /\ Cardinality(DOMAIN c) <= LutMax
      /\ IsFiniteSet(DOMAIN c)
  BY <1>1, FS_Subset, FS_CardinalityType
<1>3. Conf!Lut(c).size = Conf!Cardinality(DOMAIN c)
  BY DEF Conf!Lut
<1>4. Conf!Cardinality(DOMAIN c) = Cardinality(DOMAIN c)
  BY Zenon DEF Conf!Cardinality, Cardinality, Conf!IsFiniteSet, IsFiniteSet
<1> QED
  BY <1>2, <1>3, <1>4, Counted

\* A table that is accepted has no gaps: a gap is an entry whose mixer gain is 0.
LEMMA LutComplete ==
    ASSUME NEW c, DOMAIN c \subseteq 0 .. LutMax - 1, Conf!LutAccepted(Conf!Lut(c))
    PROVE  DOMAIN c = 0 .. Conf!Lut(c).size - 1
<1> DEFINE n == Conf!Lut(c).size
<1>1. n \in Nat /\ n <= LutMax /\ n = Cardinality(DOMAIN c) /\ IsFiniteSet(DOMAIN c)
  BY LutFits, Counted
<1>2. ASSUME NEW g \in 0 .. n - 1, g \notin DOMAIN c PROVE FALSE
  <2>1. g \in 0 .. LutMax - 1
    BY <1>1, Counted
  <2>2. Conf!Lut(c).entry[g] = Conf!NoLutEntry
    BY <1>2, <2>1 DEF Conf!Lut
  <2>3. Conf!GainOk(Conf!Lut(c).entry[g])
    BY <1>2 DEF Conf!LutAccepted
  <2> QED
    BY <2>2, <2>3 DEF Conf!GainOk, Conf!NoLutEntry
<1>3. 0 .. n - 1 \in SUBSET DOMAIN c
  BY <1>2
<1>4. Cardinality(0 .. n - 1) = n
  <2>1. n - 1 \in Int /\ 0 \in Int
    BY <1>1
  <2>2. Cardinality(0 .. n - 1) = IF 0 > n - 1 THEN 0 ELSE n - 1 - 0 + 1
    BY <2>1, FS_Interval
  <2> QED
    BY <1>1, <2>2
<1> QED
  BY <1>1, <1>3, <1>4, FS_Subset

\* No gains are no table, and not refused.
LEMMA LutEmpty == Conf!Lut(<< >>).size = 0 /\ Conf!LutAccepted(Conf!Lut(<< >>))
<1>1. DOMAIN << >> = {} /\ DOMAIN << >> \subseteq 0 .. LutMax - 1
  OBVIOUS
<1>2. Conf!Lut(<< >>).size = 0
  BY <1>1, LutFits, FS_EmptySet
<1> QED
  BY <1>2 DEF Conf!LutAccepted

LEMMA RadioTyped ==
    ASSUME NEW c
    PROVE  Conf!Radio(c).type \in {"none", "SX1255", "SX1257"}
  BY DEF Conf!Radio

LEMMA MultiTyped ==
    ASSUME NEW old, NEW c, Conf!WellTyped(c)
    PROVE  Conf!MultiSf(old, c).enable \in BOOLEAN
  BY DEF Conf!MultiSf, Conf!Chain, Conf!Boolean, Conf!Typed, Conf!WellTyped

LEMMA StdTyped ==
    ASSUME NEW old, NEW c, HalTypes(old)
    PROVE  /\ "sf" \in DOMAIN Conf!Std(old.std, c)
           /\ Conf!Std(old.std, c).sf \in {0} \cup (7 .. 12)
  BY DEF HalTypes, Conf!Std, Conf!StdDatarate, Conf!Filled

\* A section that is replaced by one of its type leaves the whole in its types.
LEMMA HalSet ==
    ASSUME NEW h, HalTypes(h), NEW v
    PROVE  /\ HalTypes([h EXCEPT !["board"] = v])
           /\ v.size \in 0 .. LutMax => HalTypes([h EXCEPT !["lut"] = v])
           /\ \A k \in Conf!Radios :
                 v.type \in {"none", "SX1255", "SX1257"} =>
                 HalTypes([h EXCEPT !["radio"] = [h.radio EXCEPT ![k] = v]])
           /\ \A k \in Conf!Channels :
                 v.enable \in BOOLEAN => HalTypes([h EXCEPT !["multi"] = [h.multi EXCEPT ![k] = v]])
           /\ "sf" \in DOMAIN v /\ v.sf \in {0} \cup (7 .. 12) => HalTypes([h EXCEPT !["std"] = v])
           /\ HalTypes([h EXCEPT !["fsk"] = v])
<1>1. h = Rec(h.board, h.lut, [k \in Conf!Radios |-> h.radio[k]],
              [k \in Conf!Channels |-> h.multi[k]], h.std, h.fsk)
  BY DEF HalTypes, Shape, Rec
<1>2. ASSUME NEW b, NEW l, NEW r, NEW m, NEW s, NEW f
      PROVE  /\ Rec(b, l, r, m, s, f).board = b /\ Rec(b, l, r, m, s, f).lut = l
             /\ Rec(b, l, r, m, s, f).radio = r /\ Rec(b, l, r, m, s, f).multi = m
             /\ Rec(b, l, r, m, s, f).std = s /\ Rec(b, l, r, m, s, f).fsk = f
  BY DEF Rec
<1>3. ASSUME NEW b, NEW l, NEW r, NEW m, NEW s, NEW f, l.size \in 0 .. LutMax,
             r = [k \in Conf!Radios |-> r[k]], m = [k \in Conf!Channels |-> m[k]],
             \A k \in Conf!Radios : r[k].type \in {"none", "SX1255", "SX1257"},
             \A k \in Conf!Channels : m[k].enable \in BOOLEAN,
             "sf" \in DOMAIN s, s.sf \in {0} \cup (7 .. 12)
      PROVE  HalTypes(Rec(b, l, r, m, s, f))
  <2>1. Shape(Rec(b, l, r, m, s, f))
    BY <1>2, <1>3 DEF Shape, Rec
  <2> DEFINE x == Rec(b, l, r, m, s, f)
  <2>2. x.lut = l /\ x.radio = r /\ x.multi = m /\ x.std = s
    BY <1>2
  <2>3. Shape(x)
    BY <2>1
  <2> HIDE DEF x
  <2>4. HalTypes(x)
    BY <1>3, <2>2, <2>3 DEF HalTypes
  <2> QED
    BY <2>4 DEF x
<1> DEFINE b == h.board
           l == h.lut
           r == [k \in Conf!Radios |-> h.radio[k]]
           m == [k \in Conf!Channels |-> h.multi[k]]
           s == h.std
           f == h.fsk
<1>rec. h = Rec(b, l, r, m, s, f)
  BY <1>1
<1>4. /\ l.size \in 0 .. LutMax
      /\ r = [k \in Conf!Radios |-> r[k]] /\ m = [k \in Conf!Channels |-> m[k]]
      /\ \A k \in Conf!Radios : r[k].type \in {"none", "SX1255", "SX1257"}
      /\ \A k \in Conf!Channels : m[k].enable \in BOOLEAN
      /\ "sf" \in DOMAIN s /\ s.sf \in {0} \cup (7 .. 12)
  BY <1>1 DEF HalTypes
<1>5. h.radio = r /\ h.multi = m
  BY <1>1, <1>2
<1> HIDE DEF b, l, r, m, s, f
<1>6. HalTypes([h EXCEPT !["board"] = v])
  <2>1. [h EXCEPT !["board"] = v] = Rec(v, l, r, m, s, f)
    BY <1>rec, RecBoard
  <2> QED
    BY <1>3, <1>4, <2>1
<1>7. ASSUME v.size \in 0 .. LutMax PROVE HalTypes([h EXCEPT !["lut"] = v])
  <2>1. [h EXCEPT !["lut"] = v] = Rec(b, v, r, m, s, f)
    BY <1>rec, RecLut
  <2> QED
    BY <1>3, <1>4, <1>7, <2>1
<1>8. ASSUME NEW k \in Conf!Radios, v.type \in {"none", "SX1255", "SX1257"}
      PROVE  HalTypes([h EXCEPT !["radio"] = [h.radio EXCEPT ![k] = v]])
  <2> DEFINE w == [r EXCEPT ![k] = v]
  <2>1. /\ w = [i_1 \in Conf!Radios |-> w[i_1]]
        /\ \A i_1 \in Conf!Radios : w[i_1].type \in {"none", "SX1255", "SX1257"}
    BY <1>4, <1>8
  <2> HIDE DEF w
  <2>2. [h EXCEPT !["radio"] = w] = Rec(b, l, w, m, s, f)
    BY <1>rec, RecRadio
  <2>3. HalTypes([h EXCEPT !["radio"] = w])
    BY <1>3, <1>4, <2>1, <2>2
  <2> QED
    BY <1>5, <2>3 DEF w
<1>9. ASSUME NEW k \in Conf!Channels, v.enable \in BOOLEAN
      PROVE  HalTypes([h EXCEPT !["multi"] = [h.multi EXCEPT ![k] = v]])
  <2> DEFINE w == [m EXCEPT ![k] = v]
  <2>1. /\ w = [i_1 \in Conf!Channels |-> w[i_1]]
        /\ \A i_1 \in Conf!Channels : w[i_1].enable \in BOOLEAN
    BY <1>4, <1>9
  <2> HIDE DEF w
  <2>2. [h EXCEPT !["multi"] = w] = Rec(b, l, r, w, s, f)
    BY <1>rec, RecMulti
  <2>3. HalTypes([h EXCEPT !["multi"] = w])
    BY <1>3, <1>4, <2>1, <2>2
  <2> QED
    BY <1>5, <2>3 DEF w
<1>10. ASSUME "sf" \in DOMAIN v, v.sf \in {0} \cup (7 .. 12) PROVE HalTypes([h EXCEPT !["std"] = v])
  <2>1. [h EXCEPT !["std"] = v] = Rec(b, l, r, m, v, f)
    BY <1>rec, RecStd
  <2> QED
    BY <1>3, <1>4, <1>10, <2>1
<1>11. HalTypes([h EXCEPT !["fsk"] = v])
  <2>1. [h EXCEPT !["fsk"] = v] = Rec(b, l, r, m, s, v)
    BY <1>rec, RecFsk
  <2> QED
    BY <1>3, <1>4, <2>1
<1> QED
  BY <1>6, <1>7, <1>8, <1>9, <1>10, <1>11
-----------------------------------------------------------------------------
(* The inductive invariant of the configuration.                            *)

Item(n, ch) == [name |-> n, checked |-> ch]
Debug  == <<Item("debug", TRUE)>>
Global == <<Item("global", TRUE)>>
Local  == <<Item("local", FALSE)>>
Both   == <<Item("global", TRUE), Item("local", FALSE)>>

Hand == cfFiles[cfTodo[1].name]

\* What lies under a file.
Under(n) == IF n = "local" THEN Conf!Over(Conf!Default, cfFiles.global) ELSE Conf!Default

\* A local file counts only if the library takes it as a whole.
Counts == cfTodo[1].checked \/ Conf!Accepted(Hand)

InFile(j) ==
    /\ cfTodo[1].checked /\ Hand # Invalid /\ Hand.SX1301 = None => j = 1
    /\ Hand # Invalid /\ Hand.SX1301 # None /\ Counts =>
          cfHal = Made(Under(cfTodo[1].name), Hand, j) /\ AcceptedUpTo(Hand.SX1301, j)

\* What holds when all files are parsed.
Layered ==
    IF cfFiles.debug # None
    THEN Conf!Accepted(cfFiles.debug) /\ cfHal = Conf!Over(Conf!Default, cfFiles.debug)
    ELSE /\ Conf!Accepted(cfFiles.global)
         /\ cfFiles.global # None \/ cfFiles.local # None
         /\ Conf!Accepted(cfFiles.local) =>
               cfHal = Conf!Over(Conf!Over(Conf!Default, cfFiles.global), cfFiles.local)

TodoSound ==
    \/ cfTodo = << >> /\ (cfState \in {"parsing", "ready"} => Layered)
    \/ cfTodo = Debug /\ cfFiles.debug # None
    \/ cfTodo = Global /\ cfFiles.debug = None /\ cfFiles.global # None /\ cfFiles.local = None
    \/ cfTodo = Both /\ cfFiles.debug = None /\ cfFiles.global # None /\ cfFiles.local # None
    \/ cfTodo = Local /\ cfFiles.debug = None /\ cfFiles.local # None
       /\ Conf!Accepted(cfFiles.global)

ConfInv ==
    /\ cfFiles \in Files
    /\ cfState \in {"parsing", "ready", "exited", "crashed"}
    /\ cfState = "ready" => cfTodo = << >>
    /\ HalTypes(cfHal)
    /\ TodoSound
    /\ \E j \in 1 .. Places :
          cfSect = FromPlace(j) /\ (cfTodo # << >> /\ cfState = "parsing" => InFile(j))

\* Sequences of one and two.
LEMMA OneAndOne ==
    ASSUME NEW x, NEW y
    PROVE  <<x>> \o <<y>> = <<x, y>>
<1> DEFINE S == {x, y}
           a == <<x>>
           b == <<y>>
           c == <<x, y>>
           d == a \o b
<1>1. a \in Seq(S) /\ b \in Seq(S) /\ c \in Seq(S)
  OBVIOUS
<1>2. Len(a) = 1 /\ Len(b) = 1 /\ Len(c) = 2 /\ a[1] = x /\ b[1] = y /\ c[1] = x /\ c[2] = y
  OBVIOUS
<1> HIDE DEF a, b, c, S
<1>3. /\ d \in Seq(S) /\ Len(d) = Len(a) + Len(b)
      /\ \A k \in 1 .. Len(a) + Len(b) : d[k] = IF k <= Len(a) THEN a[k] ELSE b[k - Len(a)]
  BY <1>1, ConcatProperties, Zenon
<1> HIDE DEF d
<1>4. Len(d) = 2 /\ d[1] = x /\ d[2] = y
  BY <1>2, <1>3
<1>5. \A k \in 1 .. Len(d) : d[k] = c[k]
  BY <1>2, <1>4
<1>6. d = c
  BY <1>1, <1>2, <1>3, <1>4, <1>5, SeqEqual
<1> QED
  BY <1>6 DEF d, a, b, c

LEMMA OneAndTwo ==
    ASSUME NEW x, NEW y
    PROVE  /\ <<x>> \o <<y>> = <<x, y>> /\ Tail(<<x, y>>) = <<y>>
           /\ <<x>> \o << >> = <<x>> /\ << >> \o <<y>> = <<y>>
<1>1. Tail(<<x, y>>) = <<y>>
  OBVIOUS
<1>2. <<x>> \in Seq({x}) /\ <<y>> \in Seq({y})
  OBVIOUS
<1>3. <<x>> \o << >> = <<x>> /\ << >> \o <<y>> = <<y>>
  BY <1>2, ConcatEmptySeq, Zenon
<1> QED
  BY <1>1, <1>3, OneAndOne

LEMMA TodoIs ==
    /\ Debug # << >> /\ Global # << >> /\ Local # << >> /\ Both # << >>
    /\ Debug[1].name = "debug" /\ Debug[1].checked = TRUE
    /\ Global[1].name = "global" /\ Global[1].checked = TRUE
    /\ Both[1].name = "global" /\ Both[1].checked = TRUE
    /\ Local[1].name = "local" /\ Local[1].checked = FALSE
    /\ Tail(Debug) = << >> /\ Tail(Global) = << >> /\ Tail(Local) = << >>
    /\ Tail(Both) = Local
<1>1. Debug # << >> /\ Global # << >> /\ Local # << >> /\ Both # << >>
  BY DEF Debug, Global, Local, Both
<1>2. /\ Debug[1].name = "debug" /\ Debug[1].checked = TRUE
      /\ Global[1].name = "global" /\ Global[1].checked = TRUE
  BY DEF Debug, Global, Item
<1>3. /\ Both[1].name = "global" /\ Both[1].checked = TRUE
      /\ Local[1].name = "local" /\ Local[1].checked = FALSE
  BY DEF Both, Local, Item
<1>4. Tail(Debug) = << >> /\ Tail(Global) = << >> /\ Tail(Local) = << >>
  BY DEF Debug, Global, Local
<1>5. Tail(Both) = Local
  BY OneAndTwo, Zenon DEF Both, Local
<1> QED
  BY <1>1, <1>2, <1>3, <1>4, <1>5

LEMMA DefaultTyped == HalTypes(Conf!Default)
<1>1. Conf!DefaultGains.size \in 0 .. LutMax
  <2>1. LutMax \in Nat /\ LutMax >= 2
    BY PartsAssumption DEF Conf!ConfigAssumption
  <2> QED
    BY <2>1 DEF Conf!DefaultGains
<1>2. Shape(Conf!Default)
  BY DEF Conf!Default, Shape
<1>3. Conf!Default.lut.size \in 0 .. LutMax
  BY <1>1 DEF Conf!Default
<1>4. \A k \in Conf!Radios : Conf!Default.radio[k].type \in {"none", "SX1255", "SX1257"}
  BY RadioTyped DEF Conf!Default
<1>5. \A k \in Conf!Channels : Conf!Default.multi[k].enable \in BOOLEAN
  BY DEF Conf!Default, Conf!NoChain
<1>6. "sf" \in DOMAIN Conf!Default.std /\ Conf!Default.std.sf \in {0} \cup (7 .. 12)
  BY DEF Conf!Default
<1> QED
  BY <1>2, <1>3, <1>4, <1>5, <1>6 DEF HalTypes

\* What lies under a file is as a whole.
LEMMA UnderShape == ASSUME NEW n PROVE Shape(Under(n))
<1>1. Shape(Conf!Default)
  BY DefaultTyped DEF HalTypes
<1>2. CASE HasObject(cfFiles.global)
  BY <1>1, <1>2, OverIs DEF Under
<1>3. CASE ~ HasObject(cfFiles.global)
  BY <1>1, <1>3 DEF Under, HasObject, Conf!Over
<1> QED
  BY <1>2, <1>3

\* The first file begins at its first section with the defaults.
LEMMA ConfInitOk == Conf!Init => ConfInv
<1> SUFFICES ASSUME Conf!Init PROVE ConfInv
  OBVIOUS
<1>1. /\ cfFiles \in Files /\ cfTodo = Conf!Plan /\ cfSect = FromPlace(1)
      /\ cfHal = Conf!Default
      /\ cfState = IF cfTodo = << >> THEN "exited" ELSE "parsing"
  BY FromPlaceIs DEF Conf!Init, Conf!Default
<1>2. HalTypes(cfHal)
  BY <1>1, DefaultTyped
<1>3. \/ cfTodo = << >> /\ cfFiles.debug = None /\ cfFiles.global = None /\ cfFiles.local = None
      \/ cfTodo = Debug /\ cfFiles.debug # None
      \/ cfTodo = Global /\ cfFiles.debug = None /\ cfFiles.global # None /\ cfFiles.local = None
      \/ cfTodo = Both /\ cfFiles.debug = None /\ cfFiles.global # None /\ cfFiles.local # None
      \/ cfTodo = Local /\ cfFiles.debug = None /\ cfFiles.global = None /\ cfFiles.local # None
  <2>1. CASE cfFiles.debug # None
    BY <1>1, <2>1, Zenon DEF Conf!Plan, Debug, Item
  <2>2. CASE cfFiles.debug = None /\ cfFiles.global # None /\ cfFiles.local = None
    <3>1. cfTodo = Global \o << >>
      BY <1>1, <2>2, Zenon DEF Conf!Plan, Global, Item
    <3> QED
      BY <2>2, <3>1, OneAndTwo DEF Global
  <2>3. CASE cfFiles.debug = None /\ cfFiles.global # None /\ cfFiles.local # None
    <3>1. cfTodo = Global \o Local
      BY <1>1, <2>3, Zenon DEF Conf!Plan, Global, Local, Item
    <3>2. Global \o Local = Both
      BY OneAndTwo, Zenon DEF Global, Local, Both
    <3> QED
      BY <2>3, <3>1, <3>2
  <2>4. CASE cfFiles.debug = None /\ cfFiles.global = None /\ cfFiles.local # None
    <3>1. cfTodo = << >> \o Local
      BY <1>1, <2>4, Zenon DEF Conf!Plan, Local, Item
    <3> QED
      BY <2>4, <3>1, OneAndTwo DEF Local
  <2>5. CASE cfFiles.debug = None /\ cfFiles.global = None /\ cfFiles.local = None
    <3>1. cfTodo = << >> \o << >>
      BY <1>1, <2>5, Zenon DEF Conf!Plan
    <3> QED
      BY <2>5, <3>1
  <2> QED
    BY <2>1, <2>2, <2>3, <2>4, <2>5
<1>4. TodoSound
  <2>1. cfFiles.global = None => Conf!Accepted(cfFiles.global)
    BY DEF Conf!Accepted
  <2> QED
    BY <1>1, <1>3, <2>1 DEF TodoSound
<1>5. ASSUME cfTodo # << >> PROVE InFile(1)
  <2>1. Conf!Over(Conf!Default, None) = Conf!Default
    BY DEF Conf!Over
  <2>2. Under(cfTodo[1].name) = cfHal /\ Hand # None
    BY <1>1, <1>3, <1>5, <2>1, TodoIs DEF Under, Hand
  <2>3. ASSUME Hand # Invalid, Hand.SX1301 # None
        PROVE  cfHal = Made(Under(cfTodo[1].name), Hand, 1) /\ AcceptedUpTo(Hand.SX1301, 1)
    <3>1. HasObject(Hand)
      BY <2>2, <2>3 DEF HasObject
    <3> QED
      BY <2>2, <3>1, UnderShape, MadeEnds, AcceptedStep
  <2> QED
    BY <2>3 DEF InFile
<1>6. 1 \in 1 .. Places
  BY Counted
<1> QED
  BY <1>1, <1>2, <1>4, <1>5, <1>6 DEF ConfInv
-----------------------------------------------------------------------------
(* How the parser goes on: to the next section, past a refused file, or     *)
(* behind the address to the next file.                                     *)

\* What is known where a section is parsed.
LEMMA HandIs ==
    ASSUME ConfInv, cfTodo # << >>
    PROVE  /\ Hand = Conf!File /\ Hand # None
           /\ cfTodo[1].checked \in BOOLEAN
           /\ Hand # Invalid /\ Hand.SX1301 # None => Conf!SectionsAssumption(Hand.SX1301)
           /\ ~ cfTodo[1].checked => cfTodo = Local
           /\ cfTodo[1].checked => cfTodo \in {Debug, Global, Both}
<1>1. Hand = Conf!File
  BY DEF Hand, Conf!File
<1>2. /\ Hand # None /\ cfTodo[1].name \in {"debug", "global", "local"}
      /\ cfTodo[1].checked \in BOOLEAN
      /\ ~ cfTodo[1].checked => cfTodo = Local
      /\ cfTodo[1].checked => cfTodo \in {Debug, Global, Both}
  BY TodoIs DEF ConfInv, TodoSound, Hand
<1>3. ASSUME Hand # Invalid, Hand.SX1301 # None PROVE Conf!SectionsAssumption(Hand.SX1301)
  <2>1. Conf!ConfigAssumption
    BY PartsAssumption
  <2>2. DOMAIN cfFiles = {"debug", "global", "local"} /\ cfFiles \in Files
    BY <2>1 DEF Conf!ConfigAssumption, ConfInv
  <2>3. cfTodo[1].name \in DOMAIN cfFiles
    BY <1>2, <2>2
  <2> QED
    BY <1>2, <1>3, <2>1, <2>2, <2>3 DEF Conf!ConfigAssumption, Hand
<1> QED
  BY <1>1, <1>2, <1>3

\* The next section of the same file.
LEMMA AdvanceKeeps ==
    ASSUME ConfInv, cfState = "parsing", cfTodo # << >>, Hand # Invalid, Hand.SX1301 # None,
           NEW j \in 1 .. Places, j < Places, cfSect = FromPlace(j),
           Conf!Advance, cfFiles' = cfFiles, HalTypes(cfHal'),
           Counts => cfHal' = Made(Under(cfTodo[1].name), Hand, j + 1)
                     /\ AcceptedUpTo(Hand.SX1301, j + 1)
    PROVE  ConfInv'
<1>1. j + 1 \in 1 .. Places /\ Places - j + 1 # 1
  BY Counted
<1>2. Len(cfSect) # 1 /\ Tail(cfSect) = FromPlace(j + 1)
  BY <1>1, FromPlaceIs
<1>3. cfState' = cfState /\ cfTodo' = cfTodo /\ cfSect' = FromPlace(j + 1)
  BY <1>2 DEF Conf!Advance
<1>4. Hand' = Hand /\ Counts' = Counts /\ Under(cfTodo[1].name)' = Under(cfTodo[1].name)
  BY <1>3 DEF Hand, Counts, Under
<1>5. InFile(j + 1)'
  BY <1>3, <1>4 DEF InFile
<1>6. TodoSound'
  BY <1>3 DEF ConfInv, TodoSound
<1> QED
  BY <1>1, <1>3, <1>5, <1>6 DEF ConfInv

\* A file that the library or the parser does not take.
LEMMA RefusedKeeps ==
    ASSUME ConfInv, cfState = "parsing", cfTodo # << >>, Conf!Refused,
           cfFiles' = cfFiles, HalTypes(cfHal'), ~ Conf!Accepted(Hand)
    PROVE  ConfInv'
<1>1. CASE cfTodo[1].checked
  <2>1. cfState' = "exited" /\ cfTodo' = cfTodo /\ cfSect' = cfSect
    BY <1>1 DEF Conf!Refused
  <2>2. TodoSound'
    BY <2>1 DEF ConfInv, TodoSound
  <2> QED
    BY <2>1, <2>2 DEF ConfInv
<1>2. CASE ~ cfTodo[1].checked /\ cfTodo' = cfTodo /\ cfSect' = <<<<"gateway", 0>>>>
           /\ cfState' = cfState
  <2>1. Hand' = Hand
    BY <1>2 DEF Hand
  <2>2. ~ Counts'
    BY <1>2, <2>1 DEF Counts
  <2>3. InFile(Places)'
    BY <1>2, <2>2 DEF InFile
  <2>4. TodoSound'
    BY <1>2 DEF ConfInv, TodoSound
  <2>5. Places \in 1 .. Places /\ cfSect' = FromPlace(Places)
    BY <1>2, FromPlaceIs, Counted
  <2> QED
    BY <1>2, <2>3, <2>4, <2>5 DEF ConfInv
<1>3. CASE ~ cfTodo[1].checked /\ cfTodo' = Tail(cfTodo) /\ cfSect' = Conf!Order
           /\ cfState' = cfState
  <2>1. cfTodo = Local
    BY <1>3, HandIs
  <2>2. cfTodo' = << >>
    BY <1>3, <2>1, TodoIs
  <2>3. /\ cfFiles.debug = None /\ Conf!Accepted(cfFiles.global) /\ cfFiles.local # None
    BY <2>1, TodoIs DEF ConfInv, TodoSound
  <2>4. Hand = cfFiles.local
    BY <2>1, TodoIs DEF Hand
  <2>5. Layered'
    BY <2>3, <2>4 DEF Layered
  <2>6. TodoSound'
    BY <2>2, <2>5 DEF TodoSound
  <2>7. 1 \in 1 .. Places /\ cfSect' = FromPlace(1)
    BY <1>3, FromPlaceIs, Counted
  <2> QED
    BY <1>3, <2>2, <2>6, <2>7 DEF ConfInv
<1> QED
  BY <1>1, <1>2, <1>3 DEF Conf!Refused

\* The address is the last of a file.
LEMMA GatewayKeeps ==
    ASSUME ConfInv, Conf!ParseGateway
    PROVE  ConfInv'
<1>1. /\ cfState = "parsing" /\ cfTodo # << >> /\ Hand # Invalid /\ Hand.gateway # None
      /\ Head(cfSect)[1] = "gateway" /\ Conf!Advance /\ cfFiles' = cfFiles /\ cfHal' = cfHal
  BY HandIs DEF Conf!ParseGateway
<1>2. PICK j \in 1 .. Places : cfSect = FromPlace(j) /\ InFile(j)
  BY <1>1 DEF ConfInv
<1>3. j = Places /\ Places # 1 /\ Places - Places + 1 = 1
  <2>1. SectionAt(j)[1] = "gateway"
    BY <1>1, <1>2, FromPlaceIs
  <2> QED
    BY <2>1, PlaceOf, Counted
<1>4. Len(cfSect) = 1
  BY <1>2, <1>3, FromPlaceIs
<1>5. cfState' = cfState /\ cfSect' = FromPlace(1) /\ cfTodo' = Tail(cfTodo)
  BY <1>1, <1>4, FromPlaceIs DEF Conf!Advance
<1> DEFINE base == Under(cfTodo[1].name)
<1>6. ASSUME Counts, Hand.SX1301 # None
      PROVE  cfHal = Conf!Over(base, Hand) /\ Conf!Accepted(Hand)
  <2>1. HasObject(Hand)
    BY <1>1, <1>6, HandIs DEF HasObject
  <2>2. cfHal = Made(base, Hand, Places) /\ AcceptedUpTo(Hand.SX1301, Places)
    BY <1>1, <1>2, <1>3, <1>6 DEF InFile
  <2> QED
    BY <1>1, <2>1, <2>2, UnderShape, MadeEnds, AcceptedWhole
<1>7. cfTodo[1].checked => Counts /\ Hand.SX1301 # None
  BY <1>1, <1>2, <1>3 DEF InFile, Counts
<1>8. TodoSound' /\ (cfTodo' # << >> => InFile(1)')
  <2>1. CASE cfTodo = Debug
    <3>1. Hand = cfFiles.debug /\ base = Conf!Default /\ cfTodo[1].checked /\ cfTodo' = << >>
      BY <1>5, <2>1, TodoIs DEF Hand, Under
    <3>2. cfFiles.debug # None
      BY <3>1, <1>1, HandIs
    <3>3. Layered'
      BY <1>1, <1>6, <1>7, <3>1, <3>2 DEF Layered
    <3> QED
      BY <3>1, <3>3 DEF TodoSound
  <2>2. CASE cfTodo = Global
    <3>1. Hand = cfFiles.global /\ base = Conf!Default /\ cfTodo[1].checked /\ cfTodo' = << >>
      BY <1>5, <2>2, TodoIs DEF Hand, Under
    <3>2. cfFiles.debug = None /\ cfFiles.local = None /\ cfFiles.global # None
      BY <2>2, TodoIs DEF ConfInv, TodoSound
    <3>3. \A old : Conf!Over(old, None) = old
      BY DEF Conf!Over
    <3>4. cfHal = Conf!Over(Conf!Default, cfFiles.global) /\ Conf!Accepted(cfFiles.global)
      BY <1>6, <1>7, <3>1
    <3>5. Layered'
      BY <1>1, <3>2, <3>3, <3>4 DEF Layered
    <3> QED
      BY <3>1, <3>5 DEF TodoSound
  <2>3. CASE cfTodo = Both
    <3>1. Hand = cfFiles.global /\ base = Conf!Default /\ cfTodo[1].checked /\ cfTodo' = Local
      BY <1>5, <2>3, TodoIs DEF Hand, Under
    <3>2. cfFiles.debug = None /\ cfFiles.local # None
      BY <2>3, TodoIs DEF ConfInv, TodoSound
    <3>3. cfHal = Conf!Over(Conf!Default, cfFiles.global) /\ Conf!Accepted(cfFiles.global)
      BY <1>6, <1>7, <3>1
    <3>4. TodoSound'
      BY <1>1, <3>1, <3>2, <3>3 DEF TodoSound
    <3>5. Hand' = cfFiles.local /\ Under(cfTodo[1].name)' = cfHal /\ ~ cfTodo'[1].checked
      BY <1>1, <3>1, <3>3, TodoIs DEF Hand, Under
    <3>6. ASSUME Hand' # Invalid, Hand'.SX1301 # None
          PROVE  cfHal' = Made(Under(cfTodo[1].name)', Hand', 1) /\ AcceptedUpTo(Hand'.SX1301, 1)
      <4>1. HasObject(cfFiles.local)
        BY <3>2, <3>5, <3>6 DEF HasObject
      <4>2. Shape(cfHal)
        BY DEF ConfInv, HalTypes
      <4>3. Made(cfHal, cfFiles.local, 1) = cfHal
        BY <4>1, <4>2, MadeEnds
      <4> QED
        BY <1>1, <3>5, <4>3, AcceptedStep
    <3> QED
      BY <3>4, <3>5, <3>6 DEF InFile
  <2>4. CASE cfTodo = Local
    <3>1. /\ Hand = cfFiles.local /\ base = Conf!Over(Conf!Default, cfFiles.global)
          /\ cfTodo' = << >>
      BY <1>5, <2>4, TodoIs DEF Hand, Under
    <3>2. cfFiles.debug = None /\ cfFiles.local # None /\ Conf!Accepted(cfFiles.global)
      BY <2>4, TodoIs DEF ConfInv, TodoSound
    <3>3. ASSUME Conf!Accepted(cfFiles.local) PROVE cfHal = Conf!Over(base, cfFiles.local)
      <4>1. Counts /\ Hand.SX1301 # None
        BY <3>1, <3>2, <3>3 DEF Counts, Conf!Accepted
      <4> QED
        BY <1>6, <3>1, <4>1
    <3>4. Layered'
      BY <1>1, <3>1, <3>2, <3>3 DEF Layered
    <3> QED
      BY <3>1, <3>4 DEF TodoSound
  <2> QED
    BY <1>1, <2>1, <2>2, <2>3, <2>4, HandIs
<1>9. 1 \in 1 .. Places
  BY Counted
<1> QED
  BY <1>1, <1>5, <1>8, <1>9 DEF ConfInv
-----------------------------------------------------------------------------
(* The sections, one by one.                                                *)

LEMMA ParseIs ==
    ASSUME ConfInv, NEW s, Conf!Parse(s)
    PROVE  /\ cfState = "parsing" /\ cfTodo # << >> /\ Hand # Invalid /\ Hand.SX1301 # None
           /\ HasObject(Hand) /\ Hand = Conf!File /\ Conf!SectionsAssumption(Hand.SX1301)
           /\ HalTypes(cfHal)
           /\ \E j \in 1 .. Places : cfSect = FromPlace(j) /\ InFile(j) /\ SectionAt(j) = s
<1>1. /\ cfState = "parsing" /\ cfTodo # << >> /\ Conf!File # Invalid /\ Conf!File.SX1301 # None
      /\ Head(cfSect) = s
  BY DEF Conf!Parse
<1>2. PICK j \in 1 .. Places : cfSect = FromPlace(j) /\ InFile(j)
  BY <1>1 DEF ConfInv
<1>3. SectionAt(j) = s
  BY <1>1, <1>2, FromPlaceIs
<1> QED
  BY <1>1, <1>2, <1>3, HandIs DEF HasObject, ConfInv

\* What the parser finds of a section.
LEMMA SectionIs ==
    ASSUME HasObject(Hand), Hand = Conf!File, Conf!SectionsAssumption(Hand.SX1301)
    PROVE  /\ \A key \in {"board", "gain", "lut", "std", "fsk"} :
                 /\ key \in DOMAIN Hand.SX1301 =>
                       Conf!Section(<<key, 0>>) = Hand.SX1301[key] /\ Hand.SX1301[key] # None
                 /\ key \notin DOMAIN Hand.SX1301 => Conf!Section(<<key, 0>>) = None
           /\ \A key \in {"radio", "multi"} : \A k :
                 /\ key \in DOMAIN Hand.SX1301 /\ k \in DOMAIN Hand.SX1301[key] =>
                       /\ Conf!Section(<<key, k>>) = Hand.SX1301[key][k]
                       /\ Hand.SX1301[key][k] # None
                 /\ ~ (key \in DOMAIN Hand.SX1301 /\ k \in DOMAIN Hand.SX1301[key]) =>
                       Conf!Section(<<key, k>>) = None
<1>1. ASSUME NEW key \in {"board", "gain", "lut", "std", "fsk"}
      PROVE  /\ key \in DOMAIN Hand.SX1301 =>
                   Conf!Section(<<key, 0>>) = Hand.SX1301[key] /\ Hand.SX1301[key] # None
             /\ key \notin DOMAIN Hand.SX1301 => Conf!Section(<<key, 0>>) = None
  BY DEF Conf!Section, Conf!SectionsAssumption
<1>2. ASSUME NEW key \in {"radio", "multi"}, NEW k
      PROVE  /\ key \in DOMAIN Hand.SX1301 /\ k \in DOMAIN Hand.SX1301[key] =>
                   Conf!Section(<<key, k>>) = Hand.SX1301[key][k] /\ Hand.SX1301[key][k] # None
             /\ ~ (key \in DOMAIN Hand.SX1301 /\ k \in DOMAIN Hand.SX1301[key]) =>
                   Conf!Section(<<key, k>>) = None
  BY DEF Conf!Section, Conf!SectionsAssumption
<1> QED
  BY <1>1, <1>2

LEMMA BoardKeeps == ASSUME ConfInv, Conf!ParseBoard PROVE ConfInv'
<1> DEFINE base == Under(cfTodo[1].name)
           c == Conf!Section(<<"board", 0>>)
           v == Conf!Board(IF c = None THEN << >> ELSE c)
<1>1. Conf!Parse(<<"board", 0>>) /\ cfFiles' = cfFiles /\ Conf!Advance
      /\ cfHal' = [cfHal EXCEPT !["board"] = v]
  BY DEF Conf!ParseBoard, Conf!Submit
<1>2. PICK j \in 1 .. Places : cfSect = FromPlace(j) /\ InFile(j) /\ SectionAt(j) = <<"board", 0>>
  BY <1>1, ParseIs
<1>3. j = 1 /\ j < Places /\ j + 1 = 2
  BY <1>2, PlaceOf, Counted
<1>4. v = Conf!Over(base, Hand).board
  BY <1>1, ParseIs, OverIs, SectionIs
<1>5. Counts => cfHal' = Made(base, Hand, 2) /\ AcceptedUpTo(Hand.SX1301, 2)
  <2>1. Made(base, Hand, 2) =
           [Made(base, Hand, 1) EXCEPT !["board"] = Conf!Over(base, Hand).board]
    BY MadeStep
  <2>2. Counts => cfHal = Made(base, Hand, 1)
    BY <1>1, <1>2, <1>3, ParseIs DEF InFile
  <2> QED
    BY <1>1, <1>4, <2>1, <2>2, AcceptedStep
<1>6. HalTypes(cfHal')
  BY <1>1, ParseIs, HalSet
<1> QED
  BY <1>1, <1>2, <1>3, <1>5, <1>6, ParseIs, AdvanceKeeps

LEMMA GainKeeps == ASSUME ConfInv, Conf!ParseGain PROVE ConfInv'
<1> DEFINE base == Under(cfTodo[1].name)
<1>1. Conf!Parse(<<"gain", 0>>) /\ cfFiles' = cfFiles /\ Conf!Advance /\ cfHal' = cfHal
  BY DEF Conf!ParseGain
<1>2. PICK j \in 1 .. Places : cfSect = FromPlace(j) /\ InFile(j) /\ SectionAt(j) = <<"gain", 0>>
  BY <1>1, ParseIs
<1>3. j = 2 /\ j < Places /\ j + 1 = 3
  BY <1>2, PlaceOf, Counted
<1>4. Made(base, Hand, 3) = Made(base, Hand, 2)
  BY MadeStep
<1>5. Counts => cfHal' = Made(base, Hand, 3) /\ AcceptedUpTo(Hand.SX1301, 3)
  BY <1>1, <1>2, <1>3, <1>4, ParseIs, AcceptedStep DEF InFile
<1>6. HalTypes(cfHal')
  BY <1>1, ParseIs
<1> QED
  BY <1>1, <1>2, <1>3, <1>5, <1>6, ParseIs, AdvanceKeeps

LEMMA LutKeeps == ASSUME ConfInv, Conf!ParseLut PROVE ConfInv'
<1> DEFINE base == Under(cfTodo[1].name)
           s == Conf!Section(<<"lut", 0>>)
           c == IF s = None THEN << >> ELSE s
           own == Conf!Lut(c)
           v == Conf!Gains(cfHal.lut, own)
<1>1. /\ Conf!Parse(<<"lut", 0>>) /\ cfFiles' = cfFiles
      /\ cfHal' = [cfHal EXCEPT !["lut"] = v]
      /\ \/ Conf!LutAccepted(own) /\ Conf!Advance
         \/ ~ Conf!LutAccepted(own) /\ Conf!Refused
  BY DEF Conf!ParseLut
<1>2. PICK j \in 1 .. Places : cfSect = FromPlace(j) /\ InFile(j) /\ SectionAt(j) = <<"lut", 0>>
  BY <1>1, ParseIs
<1>3. j = 3 /\ j < Places /\ j + 1 = 4
  BY <1>2, PlaceOf, Counted
<1>4. /\ "lut" \in DOMAIN Hand.SX1301 =>
             c = Hand.SX1301["lut"] /\ DOMAIN c \subseteq 0 .. LutMax - 1
      /\ "lut" \notin DOMAIN Hand.SX1301 => c = << >>
  BY <1>1, ParseIs, SectionIs DEF Conf!SectionsAssumption
<1>5. Conf!Over(base, Hand).lut = Conf!Gains(base.lut, own)
  BY <1>1, <1>4, ParseIs, OverIs
<1>6. Counts => cfHal = Made(base, Hand, 3)
  BY <1>1, <1>2, <1>3, ParseIs DEF InFile
<1>7. Made(base, Hand, 4) = [Made(base, Hand, 3) EXCEPT !["lut"] = Conf!Over(base, Hand).lut]
  BY MadeStep
<1>8. Made(base, Hand, 3).lut = base.lut
  BY MadeBefore
<1>9. HalTypes(cfHal')
  <2>1. DOMAIN c \subseteq 0 .. LutMax - 1
    BY <1>4
  <2>2. own.size \in 0 .. LutMax
    BY <2>1, LutFits
  <2>3. HalTypes(cfHal)
    BY <1>1, ParseIs
  <2>4. v.size \in 0 .. LutMax
    BY <2>2, <2>3 DEF Conf!Gains, HalTypes
  <2> HIDE DEF v
  <2>5. HalTypes([cfHal EXCEPT !["lut"] = v])
    BY <2>3, <2>4, HalSet
  <2> QED
    BY <1>1, <2>5
<1>10. CASE Conf!LutAccepted(own) /\ Conf!Advance
  <2>1. Counts => cfHal' = Made(base, Hand, 4)
    BY <1>1, <1>5, <1>6, <1>7, <1>8
  <2>2. AcceptedUpTo(Hand.SX1301, 4)
    BY <1>4, <1>10, AcceptedStep
  <2> QED
    BY <1>1, <1>2, <1>3, <1>9, <1>10, <2>1, <2>2, ParseIs, AdvanceKeeps
<1>11. CASE ~ Conf!LutAccepted(own) /\ Conf!Refused
  <2>1. "lut" \in DOMAIN Hand.SX1301
    BY <1>4, <1>11, LutEmpty
  <2>2. ~ Conf!Accepted(Hand)
    BY <1>1, <1>4, <1>11, <2>1, ParseIs DEF Conf!Accepted, HasObject
  <2> QED
    BY <1>1, <1>9, <1>11, <2>2, ParseIs, RefusedKeeps
<1> QED
  BY <1>1, <1>10, <1>11

LEMMA RadioKeeps == ASSUME ConfInv, Conf!ParseRadio PROVE ConfInv'
<1>0. PICK k \in Conf!Radios :
        /\ Conf!Parse(<<"radio", k>>) /\ cfFiles' = cfFiles
        /\ LET c == Conf!Section(<<"radio", k>>) IN
           IF c = None THEN cfHal' = cfHal /\ Conf!Advance
           ELSE IF Conf!RadioCrashes(c)
                THEN cfState' = "crashed" /\ UNCHANGED <<cfHal, cfTodo, cfSect>>
           ELSE Conf!Submit("radio", [cfHal.radio EXCEPT ![k] = Conf!Radio(c)],
                            Conf!RadioAccepted(Conf!Radio(c)))
  BY DEF Conf!ParseRadio
<1> DEFINE base == Under(cfTodo[1].name)
           c == Conf!Section(<<"radio", k>>)
           p == 4 + k
<1>1. \/ c = None /\ cfHal' = cfHal /\ Conf!Advance
      \/ c # None /\ cfState' = "crashed" /\ UNCHANGED <<cfHal, cfTodo, cfSect>>
      \/ /\ c # None /\ Conf!RadioAccepted(Conf!Radio(c)) /\ Conf!Advance
         /\ cfHal' = [cfHal EXCEPT !["radio"] = [cfHal.radio EXCEPT ![k] = Conf!Radio(c)]]
      \/ /\ c # None /\ ~ Conf!RadioAccepted(Conf!Radio(c)) /\ Conf!Refused
         /\ cfHal' = cfHal
  BY <1>0 DEF Conf!Submit
<1>2. PICK j \in 1 .. Places : cfSect = FromPlace(j) /\ InFile(j) /\ SectionAt(j) = <<"radio", k>>
  BY <1>0, ParseIs
<1>3. j = p /\ j < Places /\ j + 1 = p + 1
  BY <1>2, PlaceOf, Counted DEF Places
<1>4. /\ c = None <=> ~ ("radio" \in DOMAIN Hand.SX1301 /\ k \in DOMAIN Hand.SX1301["radio"])
      /\ c # None => c = Hand.SX1301["radio"][k]
  BY <1>0, ParseIs, SectionIs
<1>5. Conf!Over(base, Hand).radio[k] = IF c = None THEN base.radio[k] ELSE Conf!Radio(c)
  BY <1>0, <1>4, ParseIs, OverIs
<1>6. Counts => cfHal = Made(base, Hand, p) /\ AcceptedUpTo(Hand.SX1301, p)
  BY <1>0, <1>2, <1>3, ParseIs DEF InFile
<1>7. Made(base, Hand, p + 1) = SetRadio(Made(base, Hand, p), k, Conf!Over(base, Hand).radio[k])
  BY RadioStep
<1>8. CASE c = None /\ cfHal' = cfHal /\ Conf!Advance
  <2>1. Made(base, Hand, p + 1) = Made(base, Hand, p)
    BY <1>5, <1>8, MadeSame
  <2>2. Counts => cfHal' = Made(base, Hand, p + 1) /\ AcceptedUpTo(Hand.SX1301, p + 1)
    BY <1>4, <1>6, <1>8, <2>1, AcceptedStep
  <2>3. HalTypes(cfHal')
    BY <1>0, <1>8, ParseIs
  <2> QED
    BY <1>0, <1>2, <1>3, <1>8, <2>2, <2>3, ParseIs, AdvanceKeeps
<1>9. CASE cfState' = "crashed" /\ UNCHANGED <<cfHal, cfTodo, cfSect>>
  <2>1. TodoSound'
    BY <1>0, <1>9, ParseIs DEF ConfInv, TodoSound
  <2> QED
    BY <1>0, <1>2, <1>9, <2>1 DEF ConfInv
<1>10. CASE /\ c # None /\ Conf!RadioAccepted(Conf!Radio(c)) /\ Conf!Advance
            /\ cfHal' = [cfHal EXCEPT !["radio"] = [cfHal.radio EXCEPT ![k] = Conf!Radio(c)]]
  <2>1. Counts => cfHal' = Made(base, Hand, p + 1)
    BY <1>5, <1>6, <1>7, <1>10 DEF SetRadio
  <2>2. Counts => AcceptedUpTo(Hand.SX1301, p + 1)
    BY <1>4, <1>6, <1>10, AcceptedStep
  <2>3. HalTypes(cfHal')
    BY <1>0, <1>10, ParseIs, HalSet, RadioTyped
  <2> QED
    BY <1>0, <1>2, <1>3, <1>10, <2>1, <2>2, <2>3, ParseIs, AdvanceKeeps
<1>11. CASE /\ c # None /\ ~ Conf!RadioAccepted(Conf!Radio(c)) /\ Conf!Refused
            /\ cfHal' = cfHal
  <2>1. ~ Conf!Accepted(Hand)
    BY <1>0, <1>4, <1>11, ParseIs DEF Conf!Accepted, HasObject
  <2> QED
    BY <1>0, <1>11, <2>1, ParseIs, RefusedKeeps
<1> QED
  BY <1>1, <1>8, <1>9, <1>10, <1>11

LEMMA MultiKeeps == ASSUME ConfInv, Conf!ParseMulti PROVE ConfInv'
<1>0. PICK k \in Conf!Channels :
        /\ Conf!Parse(<<"multi", k>>) /\ cfFiles' = cfFiles
        /\ LET c == Conf!Section(<<"multi", k>>) IN
           IF c = None THEN cfHal' = cfHal /\ Conf!Advance
           ELSE Conf!Submit("multi", [cfHal.multi EXCEPT ![k] = Conf!MultiSf(cfHal.multi[k], c)],
                            Conf!MultiAccepted(c))
  BY DEF Conf!ParseMulti
<1> DEFINE base == Under(cfTodo[1].name)
           c == Conf!Section(<<"multi", k>>)
           p == 4 + LGW_RF_CHAIN_NB + k
<1>1. \/ c = None /\ cfHal' = cfHal /\ Conf!Advance
      \/ /\ c # None /\ Conf!MultiAccepted(c) /\ Conf!Advance
         /\ cfHal' = [cfHal EXCEPT !["multi"] = [cfHal.multi EXCEPT ![k] = Conf!MultiSf(cfHal.multi[k], c)]]
      \/ /\ c # None /\ ~ Conf!MultiAccepted(c) /\ Conf!Refused
         /\ cfHal' = cfHal
  BY <1>0 DEF Conf!Submit
<1>2. PICK j \in 1 .. Places : cfSect = FromPlace(j) /\ InFile(j) /\ SectionAt(j) = <<"multi", k>>
  BY <1>0, ParseIs
<1>3. j = p /\ j < Places /\ j + 1 = p + 1
  BY <1>2, PlaceOf, Counted DEF Places
<1>4. /\ c = None <=> ~ ("multi" \in DOMAIN Hand.SX1301 /\ k \in DOMAIN Hand.SX1301["multi"])
      /\ c # None => c = Hand.SX1301["multi"][k]
  BY <1>0, ParseIs, SectionIs
<1>5. Conf!Over(base, Hand).multi[k] = IF c = None THEN base.multi[k] ELSE Conf!MultiSf(base.multi[k], c)
  BY <1>0, <1>4, ParseIs, OverIs
<1>6. Counts => cfHal = Made(base, Hand, p) /\ AcceptedUpTo(Hand.SX1301, p)
  BY <1>0, <1>2, <1>3, ParseIs DEF InFile
<1>7. Made(base, Hand, p + 1) = SetMulti(Made(base, Hand, p), k, Conf!Over(base, Hand).multi[k])
  BY MultiStep
<1>8. CASE c = None /\ cfHal' = cfHal /\ Conf!Advance
  <2>1. Made(base, Hand, p + 1) = Made(base, Hand, p)
    BY <1>5, <1>8, MadeSame
  <2>2. Counts => cfHal' = Made(base, Hand, p + 1) /\ AcceptedUpTo(Hand.SX1301, p + 1)
    BY <1>4, <1>6, <1>8, <2>1, AcceptedStep
  <2>3. HalTypes(cfHal')
    BY <1>0, <1>8, ParseIs
  <2> QED
    BY <1>0, <1>2, <1>3, <1>8, <2>2, <2>3, ParseIs, AdvanceKeeps
<1>9. CASE /\ c # None /\ Conf!MultiAccepted(c) /\ Conf!Advance
            /\ cfHal' = [cfHal EXCEPT !["multi"] = [cfHal.multi EXCEPT ![k] = Conf!MultiSf(cfHal.multi[k], c)]]
  <2>1. Counts => cfHal' = Made(base, Hand, p + 1)
    <3>1. Made(base, Hand, p).multi[k] = base.multi[k]
      BY MadeBefore
    <3> QED
      BY <1>5, <1>6, <1>7, <1>9, <3>1 DEF SetMulti
  <2>2. Counts => AcceptedUpTo(Hand.SX1301, p + 1)
    BY <1>4, <1>6, <1>9, AcceptedStep
  <2>3. HalTypes(cfHal')
    <3>1. HalTypes(cfHal)
      BY <1>0, ParseIs
    <3>2. Conf!MultiSf(cfHal.multi[k], c).enable \in BOOLEAN
      BY <1>0, <1>4, <1>9, ParseIs, MultiTyped DEF Conf!SectionsAssumption
    <3>3. HalTypes([cfHal EXCEPT !["multi"] = [cfHal.multi EXCEPT ![k] = Conf!MultiSf(cfHal.multi[k], c)]])
      BY <3>1, <3>2, HalSet
    <3> QED
      BY <1>9, <3>3
  <2> QED
    BY <1>0, <1>2, <1>3, <1>9, <2>1, <2>2, <2>3, ParseIs, AdvanceKeeps
<1>10. CASE /\ c # None /\ ~ Conf!MultiAccepted(c) /\ Conf!Refused
            /\ cfHal' = cfHal
  <2>1. ~ Conf!Accepted(Hand)
    BY <1>0, <1>4, <1>10, ParseIs DEF Conf!Accepted, HasObject
  <2> QED
    BY <1>0, <1>10, <2>1, ParseIs, RefusedKeeps
<1> QED
  BY <1>1, <1>8, <1>9, <1>10

LEMMA StdKeeps == ASSUME ConfInv, Conf!ParseStd PROVE ConfInv'
<1> DEFINE base == Under(cfTodo[1].name)
           c == Conf!Section(<<"std", 0>>)
           v == Conf!Std(cfHal.std, c)
<1>1. /\ Conf!Parse(<<"std", 0>>) /\ cfFiles' = cfFiles
      /\ \/ c = None /\ cfHal' = cfHal /\ Conf!Advance
         \/ /\ c # None /\ Conf!StdAccepted(c) /\ Conf!Advance
            /\ cfHal' = [cfHal EXCEPT !["std"] = v]
         \/ c # None /\ ~ Conf!StdAccepted(c) /\ Conf!Refused /\ cfHal' = cfHal
  BY DEF Conf!ParseStd, Conf!Submit
<1>2. PICK j \in 1 .. Places : cfSect = FromPlace(j) /\ InFile(j) /\ SectionAt(j) = <<"std", 0>>
  BY <1>1, ParseIs
<1>3. j = Places - 2 /\ j < Places /\ j + 1 = Places - 1
  BY <1>2, PlaceOf, Counted
<1>4. /\ c = None <=> "std" \notin DOMAIN Hand.SX1301
      /\ c # None => c = Hand.SX1301["std"]
  BY <1>1, ParseIs, SectionIs
<1>5. Conf!Over(base, Hand).std =
         IF c = None THEN base.std ELSE Conf!Std(base.std, c)
  BY <1>1, <1>4, ParseIs, OverIs
<1>6. Counts => cfHal = Made(base, Hand, Places - 2) /\ AcceptedUpTo(Hand.SX1301, Places - 2)
  BY <1>1, <1>2, <1>3, ParseIs DEF InFile
<1>7. Made(base, Hand, Places - 1) =
         [Made(base, Hand, Places - 2) EXCEPT !["std"] = Conf!Over(base, Hand).std]
  BY MadeStep
<1>8. Made(base, Hand, Places - 2).std = base.std
  BY MadeBefore
<1>9. HalTypes(cfHal)
  BY <1>1, ParseIs
<1>10. CASE c = None /\ cfHal' = cfHal /\ Conf!Advance
  <2>1. Made(base, Hand, Places - 1) = Made(base, Hand, Places - 2)
    BY <1>5, <1>10, MadeSame
  <2>2. Counts => cfHal' = Made(base, Hand, Places - 1) /\ AcceptedUpTo(Hand.SX1301, Places - 1)
    BY <1>4, <1>6, <1>10, <2>1, AcceptedStep
  <2> QED
    BY <1>1, <1>2, <1>3, <1>9, <1>10, <2>2, ParseIs, AdvanceKeeps
<1>11. CASE /\ c # None /\ Conf!StdAccepted(c) /\ Conf!Advance
            /\ cfHal' = [cfHal EXCEPT !["std"] = v]
  <2>1. Counts => cfHal' = Made(base, Hand, Places - 1)
    BY <1>5, <1>6, <1>7, <1>8, <1>11
  <2>2. Counts => AcceptedUpTo(Hand.SX1301, Places - 1)
    BY <1>4, <1>6, <1>11, AcceptedStep
  <2>3. HalTypes(cfHal')
    <3>1. "sf" \in DOMAIN v /\ v.sf \in {0} \cup (7 .. 12)
      BY <1>9, StdTyped
    <3>2. HalTypes([cfHal EXCEPT !["std"] = v])
      BY <1>9, <3>1, HalSet
    <3> QED
      BY <1>11, <3>2
  <2> QED
    BY <1>1, <1>2, <1>3, <1>11, <2>1, <2>2, <2>3, ParseIs, AdvanceKeeps
<1>12. CASE c # None /\ ~ Conf!StdAccepted(c) /\ Conf!Refused /\ cfHal' = cfHal
  <2>1. ~ Conf!Accepted(Hand)
    BY <1>1, <1>4, <1>12, ParseIs DEF Conf!Accepted, HasObject
  <2> QED
    BY <1>1, <1>12, <2>1, ParseIs, RefusedKeeps
<1> QED
  BY <1>1, <1>10, <1>11, <1>12

LEMMA FskKeeps == ASSUME ConfInv, Conf!ParseFsk PROVE ConfInv'
<1> DEFINE base == Under(cfTodo[1].name)
           c == Conf!Section(<<"fsk", 0>>)
           v == Conf!Fsk(cfHal.fsk, c)
<1>1. /\ Conf!Parse(<<"fsk", 0>>) /\ cfFiles' = cfFiles
      /\ \/ c = None /\ cfHal' = cfHal /\ Conf!Advance
         \/ /\ c # None /\ Conf!FskAccepted(c) /\ Conf!Advance
            /\ cfHal' = [cfHal EXCEPT !["fsk"] = v]
         \/ c # None /\ ~ Conf!FskAccepted(c) /\ Conf!Refused /\ cfHal' = cfHal
  BY DEF Conf!ParseFsk, Conf!Submit
<1>2. PICK j \in 1 .. Places : cfSect = FromPlace(j) /\ InFile(j) /\ SectionAt(j) = <<"fsk", 0>>
  BY <1>1, ParseIs
<1>3. j = Places - 1 /\ j < Places /\ j + 1 = Places
  BY <1>2, PlaceOf, Counted
<1>4. /\ c = None <=> "fsk" \notin DOMAIN Hand.SX1301
      /\ c # None => c = Hand.SX1301["fsk"]
  BY <1>1, ParseIs, SectionIs
<1>5. Conf!Over(base, Hand).fsk =
         IF c = None THEN base.fsk ELSE Conf!Fsk(base.fsk, c)
  BY <1>1, <1>4, ParseIs, OverIs
<1>6. Counts => cfHal = Made(base, Hand, Places - 1) /\ AcceptedUpTo(Hand.SX1301, Places - 1)
  BY <1>1, <1>2, <1>3, ParseIs DEF InFile
<1>7. Made(base, Hand, Places) =
         [Made(base, Hand, Places - 1) EXCEPT !["fsk"] = Conf!Over(base, Hand).fsk]
  BY MadeStep
<1>8. Made(base, Hand, Places - 1).fsk = base.fsk
  BY MadeBefore
<1>9. HalTypes(cfHal)
  BY <1>1, ParseIs
<1>10. CASE c = None /\ cfHal' = cfHal /\ Conf!Advance
  <2>1. Made(base, Hand, Places) = Made(base, Hand, Places - 1)
    BY <1>5, <1>10, MadeSame
  <2>2. Counts => cfHal' = Made(base, Hand, Places) /\ AcceptedUpTo(Hand.SX1301, Places)
    BY <1>4, <1>6, <1>10, <2>1, AcceptedStep
  <2> QED
    BY <1>1, <1>2, <1>3, <1>9, <1>10, <2>2, ParseIs, AdvanceKeeps
<1>11. CASE /\ c # None /\ Conf!FskAccepted(c) /\ Conf!Advance
            /\ cfHal' = [cfHal EXCEPT !["fsk"] = v]
  <2>1. Counts => cfHal' = Made(base, Hand, Places)
    BY <1>5, <1>6, <1>7, <1>8, <1>11
  <2>2. Counts => AcceptedUpTo(Hand.SX1301, Places)
    BY <1>4, <1>6, <1>11, AcceptedStep
  <2>3. HalTypes(cfHal')
    BY <1>9, <1>11, HalSet
  <2> QED
    BY <1>1, <1>2, <1>3, <1>11, <2>1, <2>2, <2>3, ParseIs, AdvanceKeeps
<1>12. CASE c # None /\ ~ Conf!FskAccepted(c) /\ Conf!Refused /\ cfHal' = cfHal
  <2>1. ~ Conf!Accepted(Hand)
    BY <1>1, <1>4, <1>12, ParseIs DEF Conf!Accepted, HasObject
  <2> QED
    BY <1>1, <1>12, <2>1, ParseIs, RefusedKeeps
<1> QED
  BY <1>1, <1>10, <1>11, <1>12

LEMMA NoObjectKeeps == ASSUME ConfInv, Conf!NoObject PROVE ConfInv'
<1>1. cfState = "parsing" /\ cfTodo # << >> /\ cfFiles' = cfFiles /\ cfHal' = cfHal
  BY DEF Conf!NoObject
<1>2. CASE cfState' = "exited" /\ UNCHANGED <<cfTodo, cfSect>>
  <2>1. TodoSound'
    BY <1>1, <1>2 DEF ConfInv, TodoSound
  <2> QED
    BY <1>1, <1>2, <2>1 DEF ConfInv
<1>3. CASE (Hand.SX1301 = None \/ Hand.gateway = None) /\ Conf!Refused
  <2>1. ~ Conf!Accepted(Hand)
    BY <1>1, <1>3, HandIs DEF Conf!Accepted
  <2>2. HalTypes(cfHal')
    BY <1>1 DEF ConfInv
  <2> QED
    BY <1>1, <1>3, <2>1, <2>2, RefusedKeeps
<1> QED
  BY <1>1, <1>2, <1>3, HandIs DEF Conf!NoObject

LEMMA ReadyKeeps == ASSUME ConfInv, Conf!Ready PROVE ConfInv'
<1>1. /\ cfState = "parsing" /\ cfTodo = << >> /\ cfState' = "ready"
      /\ UNCHANGED <<cfFiles, cfTodo, cfSect, cfHal>>
  BY DEF Conf!Ready
<1>2. Layered'
  BY <1>1, TodoIs DEF ConfInv, TodoSound, Layered
<1>3. TodoSound'
  BY <1>1, <1>2 DEF TodoSound
<1> QED
  BY <1>1, <1>3 DEF ConfInv

LEMMA ConfStep == ConfInv /\ [BenchNext]_<<part, vars, upVars, dnVars, tsVars, cfVars, gmVars>> => ConfInv'
<1> SUFFICES ASSUME ConfInv, [BenchNext]_<<part, vars, upVars, dnVars, tsVars, cfVars, gmVars>>
             PROVE  ConfInv'
  OBVIOUS
<1>1. CASE UNCHANGED cfVars
  <2>1. TodoSound' /\ \A j \in 1 .. Places : InFile(j) => InFile(j)'
    BY <1>1 DEF cfVars, ConfInv, TodoSound, Layered, InFile, Hand, Counts, Under
  <2> QED
    BY <1>1, <2>1 DEF cfVars, ConfInv
<1>2. CASE Conf!Next
  <2>1. CASE Conf!NoObject
    BY <2>1, NoObjectKeeps
  <2>2. CASE Conf!ParseBoard
    BY <2>2, BoardKeeps
  <2>3. CASE Conf!ParseGain
    BY <2>3, GainKeeps
  <2>4. CASE Conf!ParseLut
    BY <2>4, LutKeeps
  <2>5. CASE Conf!ParseRadio
    BY <2>5, RadioKeeps
  <2>6. CASE Conf!ParseMulti
    BY <2>6, MultiKeeps
  <2>7. CASE Conf!ParseStd
    BY <2>7, StdKeeps
  <2>8. CASE Conf!ParseFsk
    BY <2>8, FskKeeps
  <2>9. CASE Conf!ParseGateway
    BY <2>9, GatewayKeeps
  <2>10. CASE Conf!Ready
    BY <2>10, ReadyKeeps
  <2> QED
    BY <1>2, <2>1, <2>2, <2>3, <2>4, <2>5, <2>6, <2>7, <2>8, <2>9, <2>10 DEF Conf!Next
<1> QED
  BY <1>1, <1>2 DEF BenchNext

\* The bandwidth of an FSK channel is the next that is wide enough.
LEMMA BandwidthFits ==
    ASSUME NEW n \in Int, n <= 500000
    PROVE  Conf!FskBandwidth(n) # 0 /\ Conf!FskBandwidth(n) >= n
<1> DEFINE all == {7800, 15600, 31200, 62500, 125000, 250000, 500000}
           fit == {b \in all : n <= b}
<1>1. 500000 \in fit
  OBVIOUS
<1>2. fit # {} => Conf!FskBandwidth(n) = CHOOSE b \in fit : \A d \in fit : b <= d
  BY DEF Conf!FskBandwidth
<1>3. ASSUME fit # {} PROVE \E b \in fit : \A d \in fit : b <= d
  <2>1. CASE n <= 7800
    <3>1. 7800 \in fit /\ \A d \in fit : 7800 <= d
      BY <2>1
    <3> QED
      BY <3>1
  <2>2. CASE 7800 < n /\ n <= 15600
    <3>1. 15600 \in fit /\ \A d \in fit : 15600 <= d
      BY <2>2
    <3> QED
      BY <3>1
  <2>3. CASE 15600 < n /\ n <= 31200
    <3>1. 31200 \in fit /\ \A d \in fit : 31200 <= d
      BY <2>3
    <3> QED
      BY <3>1
  <2>4. CASE 31200 < n /\ n <= 62500
    <3>1. 62500 \in fit /\ \A d \in fit : 62500 <= d
      BY <2>4
    <3> QED
      BY <3>1
  <2>5. CASE 62500 < n /\ n <= 125000
    <3>1. 125000 \in fit /\ \A d \in fit : 125000 <= d
      BY <2>5
    <3> QED
      BY <3>1
  <2>6. CASE 125000 < n /\ n <= 250000
    <3>1. 250000 \in fit /\ \A d \in fit : 250000 <= d
      BY <2>6
    <3> QED
      BY <3>1
  <2>7. CASE 250000 < n /\ n <= 500000
    <3>1. 500000 \in fit /\ \A d \in fit : 500000 <= d
      BY <2>7
    <3> QED
      BY <3>1
  <2> QED
    BY <2>1, <2>2, <2>3, <2>4, <2>5, <2>6, <2>7
<1>4. fit # {} => Conf!FskBandwidth(n) \in fit
  BY <1>2, <1>3
<1> QED
  BY <1>1, <1>4

LEMMA ShortSeq ==
    ASSUME NEW S, NEW x \in S, NEW y \in S
    PROVE  <<x>> \in Seq(S) /\ <<x, y>> \in Seq(S)
  OBVIOUS

(* What the parser leaves is what the files say: a debug file alone, or the *)
(* local one over the global one, section by section; the program goes on   *)
(* only with a file the library took as a whole; an FSK channel is as wide  *)
(* as its file says.  For any files, any numbers of radios and channels.    *)
THEOREM ConfigIsLayered == BenchSpec => []ConfigLayers
<1>1. BenchInit => ConfInv
  BY ConfInitOk DEF BenchInit
<1>2. ConfInv => ConfigLayers
  <2> SUFFICES ASSUME ConfInv PROVE ConfigLayers
    OBVIOUS
  <2>1. Conf!TypeOK
    <3>1. cfTodo \in Seq([name : {"debug", "global", "local"}, checked : BOOLEAN])
      <4> DEFINE S == [name : {"debug", "global", "local"}, checked : BOOLEAN]
      <4>1. \A n \in {"debug", "global", "local"}, ch \in BOOLEAN : Item(n, ch) \in S
        BY DEF Item
      <4>2. /\ Item("debug", TRUE) \in S /\ Item("global", TRUE) \in S
            /\ Item("local", FALSE) \in S
        BY <4>1
      <4> HIDE DEF S
      <4>3. Debug \in Seq(S) /\ Global \in Seq(S) /\ Local \in Seq(S) /\ Both \in Seq(S)
        BY <4>2, ShortSeq, Zenon DEF Debug, Global, Local, Both
      <4>4. << >> \in Seq(S)
        OBVIOUS
      <4>5. cfTodo \in Seq(S)
        BY <4>3, <4>4 DEF ConfInv, TodoSound
      <4> QED
        BY <4>5 DEF S
    <3>2. \A k \in DOMAIN cfSect : cfSect[k] \in {Conf!Order[l] : l \in DOMAIN Conf!Order}
      <4>1. PICK j \in 1 .. Places : cfSect = FromPlace(j)
        BY DEF ConfInv
      <4>2. DOMAIN Conf!Order = 1 .. Places
        BY OrderIs, LenProperties
      <4> TAKE k \in DOMAIN cfSect
      <4>3. PICK l \in 1 .. Places : cfSect[k] = SectionAt(l)
        BY <4>1, FromPlaceIs
      <4>4. Conf!Order[l] = SectionAt(l)
        BY OrderIs
      <4> QED
        BY <4>2, <4>3, <4>4
    <3> QED
      BY <3>1, <3>2 DEF Conf!TypeOK, ConfInv, HalTypes
  <2>2. cfState = "ready" => Layered
    BY TodoIs DEF ConfInv, TodoSound
  <2>3. Conf!LayersInOrder /\ Conf!RefusedStops
    BY <2>2 DEF Layered, Conf!LayersInOrder, Conf!RefusedStops
  <2>4. ASSUME NEW f \in {cfFiles.debug, cfFiles.global, cfFiles.local}, f # None, f # Invalid,
               f.SX1301 # None
        PROVE  Conf!SectionsAssumption(f.SX1301)
    <3>1. Conf!ConfigAssumption /\ cfFiles \in Files
      BY PartsAssumption DEF ConfInv
    <3> QED
      BY <2>4, <3>1 DEF Conf!ConfigAssumption
  <2>5. Conf!FskWideEnough
    <3> DEFINE c == cfFiles.debug.SX1301["fsk"]
               n == Conf!Number(c, "bandwidth")
    <3> SUFFICES ASSUME cfState = "ready", cfFiles.debug # None,
                        "fsk" \in DOMAIN cfFiles.debug.SX1301, cfHal.fsk.chain.enable, n <= 500000
                 PROVE  cfHal.fsk.bw >= n
      BY DEF Conf!FskWideEnough
    <3>1. /\ cfFiles.debug # Invalid /\ cfFiles.debug.SX1301 # None
          /\ cfHal = Conf!Over(Conf!Default, cfFiles.debug)
      BY <2>2 DEF Layered, Conf!Accepted
    <3>2. cfHal.fsk = Conf!Fsk(Conf!Default.fsk, c)
      BY <3>1, OverIs DEF HasObject
    <3>3. Conf!SectionsAssumption(cfFiles.debug.SX1301)
      BY <2>4, <3>1
    <3>4. n \in Int
      BY <3>3 DEF Conf!SectionsAssumption, Conf!WellTyped, Conf!Number, Conf!Typed
    <3>5. Conf!Boolean(c, "enable")
      BY <3>2 DEF Conf!Fsk, Conf!MultiSf
    <3>6. cfHal.fsk.bw = Conf!Filled(Conf!FskBandwidth(n), 250000)
      BY <3>2, <3>5 DEF Conf!Fsk
    <3>7. Conf!FskBandwidth(n) # 0 /\ Conf!FskBandwidth(n) >= n
      BY <3>4, BandwidthFits
    <3> QED
      BY <3>6, <3>7 DEF Conf!Filled
  <2>6. Conf!GainsComplete
    <3> DEFINE f == Conf!Last
               c == f.SX1301["lut"]
               own == Conf!Lut(c)
    <3> SUFFICES ASSUME cfState = "ready", Conf!Accepted(f), "lut" \in DOMAIN f.SX1301,
                        NEW g \in DOMAIN c
                 PROVE  /\ g < cfHal.lut.size /\ g < cfHal.lut.own.size
                        /\ cfHal.lut.entry[g] = Conf!LutEntry(c[g])
                        /\ cfHal.lut.own.entry[g] = Conf!LutEntry(c[g])
      BY DEF Conf!GainsComplete
    <3>1. f # None /\ \E old : cfHal = Conf!Over(old, f)
      <4>1. CASE cfFiles.debug # None
        BY <2>2, <4>1 DEF Layered, Conf!Last
      <4>2. CASE cfFiles.debug = None /\ cfFiles.local # None
        BY <2>2, <4>2 DEF Layered, Conf!Last
      <4>3. CASE cfFiles.debug = None /\ cfFiles.local = None
        <5>1. Conf!Accepted(None) /\ \A old : Conf!Over(old, None) = old
          BY DEF Conf!Accepted, Conf!Over
        <5>2. cfFiles.global # None
          BY <2>2, <4>3 DEF Layered
        <5> QED
          BY <2>2, <4>3, <5>1, <5>2 DEF Layered, Conf!Last
      <4> QED
        BY <4>1, <4>2, <4>3
    <3>2. PICK old : cfHal = Conf!Over(old, f)
      BY <3>1
    <3>3. f # Invalid /\ f.SX1301 # None /\ Conf!LutAccepted(own)
      BY <3>1 DEF Conf!Accepted
    <3>4. DOMAIN c \subseteq 0 .. LutMax - 1
      <4>1. f \in {cfFiles.debug, cfFiles.global, cfFiles.local}
        BY DEF Conf!Last
      <4>2. Conf!SectionsAssumption(f.SX1301)
        BY <2>4, <3>1, <3>3, <4>1
      <4> QED
        BY <4>2 DEF Conf!SectionsAssumption
    <3>5. own.size \in Nat /\ DOMAIN c = 0 .. own.size - 1
      BY <3>3, <3>4, LutFits, LutComplete, Counted
    <3>6. cfHal.lut = Conf!Gains(old.lut, own)
      BY <3>1, <3>2, <3>3, OverIs DEF HasObject
    <3>7. g \in 0 .. LutMax - 1 /\ 0 <= g /\ g < own.size /\ own.size # 0
      BY <3>4, <3>5
    <3>8. own.entry[g] = Conf!LutEntry(c[g])
      BY <3>7 DEF Conf!Lut
    <3>9. \A k \in 0 .. g : Conf!GainOk(own.entry[k])
      BY <3>3, <3>5, <3>7, Counted DEF Conf!LutAccepted
    <3> HIDE DEF own
    <3> QED
      BY <3>6, <3>7, <3>8, <3>9 DEF Conf!Gains
  <2> QED
    BY <2>1, <2>3, <2>5, <2>6 DEF ConfigLayers
<1> QED
  BY <1>1, <1>2, ConfStep, PTL DEF BenchSpec
=============================================================================
