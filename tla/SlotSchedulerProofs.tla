------------------------- MODULE SlotSchedulerProofs -------------------------
(***************************************************************************)
(* Theorems about SlotScheduler, for any number of nodes, groups and slots *)
(* and any demands.  The lemmas about the operators of ScheduleMngt come   *)
(* first, then the inductive invariant and the theorems of the             *)
(* specification.                                                          *)
(***************************************************************************)
EXTENDS SlotScheduler, SequenceTheorems, FiniteSetTheorems, WellFoundedInduction, TLAPS

-----------------------------------------------------------------------------
(* Sets of numbers and sequences.                                           *)

\* A non-empty set of natural numbers has a least element, which is its Min.
LEMMA MinOfNats ==
    ASSUME NEW S, S \subseteq Nat, S # {}
    PROVE  Min(S) \in S /\ \A y \in S : Min(S) <= y
<1>1. PICK x \in S : \A y \in S : ~ (<<y, x>> \in OpToRel(<, Nat))
  BY NatLessThanWellFounded, WFMin
<1>2. \A y \in S : y < x => <<y, x>> \in OpToRel(<, Nat)
  BY DEF OpToRel
<1>3. \A y \in S : ~ (y < x)
  BY <1>1, <1>2, Zenon
<1>4. \A y \in S : x <= y
  BY <1>3
<1> QED
  BY <1>4 DEF Min

\* What removing position p leaves at position i.
LEMMA RemoveAtProperties ==
    ASSUME NEW S, NEW seq \in Seq(S), NEW p \in 1 .. Len(seq)
    PROVE  /\ RemoveAt(seq, p) \in Seq(S)
           /\ Len(RemoveAt(seq, p)) = Len(seq) - 1
           /\ \A i \in 1 .. Len(seq) - 1 :
                 RemoveAt(seq, p)[i] = IF i < p THEN seq[i] ELSE seq[i + 1]
<1> DEFINE front == SubSeq(seq, 1, p - 1)
           back  == SubSeq(seq, p + 1, Len(seq))
<1>1. /\ Len(seq) \in Nat /\ p \in Int
      /\ \A i \in 1 .. Len(seq) : seq[i] \in S
  BY LenProperties, ElementOfSeq
<1>2. /\ front \in Seq(S) /\ Len(front) = p - 1
      /\ \A i \in 1 .. p - 1 : front[i] = seq[i]
  <2>1. \A i \in 1 .. p - 1 : seq[i] \in S
    BY <1>1
  <2> QED
    BY <1>1, <2>1, SubSeqProperties
<1>3. /\ back \in Seq(S) /\ Len(back) = Len(seq) - p
      /\ \A i \in 1 .. Len(seq) - p : back[i] = seq[p + i]
  <2>1. \A i \in p + 1 .. Len(seq) : seq[i] \in S
    BY <1>1
  <2> QED
    BY <1>1, <2>1, SubSeqProperties
<1> HIDE DEF front, back
<1>4. /\ front \o back \in Seq(S)
      /\ Len(front \o back) = Len(front) + Len(back)
      /\ \A i \in 1 .. Len(front) + Len(back) :
            (front \o back)[i] = IF i <= Len(front) THEN front[i] ELSE back[i - Len(front)]
  BY <1>2, <1>3, ConcatProperties
<1>5. RemoveAt(seq, p) = front \o back
  BY DEF RemoveAt, front, back
<1>6. ASSUME NEW i \in 1 .. Len(seq) - 1
      PROVE  (front \o back)[i] = IF i < p THEN seq[i] ELSE seq[i + 1]
  <2>1. i \in 1 .. Len(front) + Len(back)
    BY <1>1, <1>2, <1>3
  <2>2. CASE i < p
    BY <1>1, <1>2, <1>4, <2>1, <2>2
  <2>3. CASE ~ (i < p)
    <3>1. (front \o back)[i] = back[i - (p - 1)]
      BY <1>1, <1>2, <1>4, <2>1, <2>3, SMTT(30)
    <3>2. i - (p - 1) \in 1 .. Len(seq) - p
      BY <1>1, <2>3
    <3>3. back[i - (p - 1)] = seq[p + (i - (p - 1))]
      BY <1>3, <3>2
    <3>4. p + (i - (p - 1)) = i + 1
      BY <1>1
    <3> QED
      BY <2>3, <3>1, <3>3, <3>4
  <2> QED
    BY <2>2, <2>3
<1>7. Len(front \o back) = Len(seq) - 1
  BY <1>1, <1>2, <1>3, <1>4
<1> QED
  BY <1>4, <1>5, <1>6, <1>7

\* What inserting e at position p makes of position i.
LEMMA InsertAtProperties ==
    ASSUME NEW S, NEW seq \in Seq(S), NEW p \in 1 .. Len(seq) + 1, NEW e \in S
    PROVE  /\ InsertAt(seq, p, e) \in Seq(S)
           /\ Len(InsertAt(seq, p, e)) = Len(seq) + 1
           /\ \A i \in 1 .. Len(seq) + 1 :
                 InsertAt(seq, p, e)[i] = IF i < p THEN seq[i]
                                          ELSE IF i = p THEN e ELSE seq[i - 1]
<1> DEFINE front == SubSeq(seq, 1, p - 1)
           back  == SubSeq(seq, p, Len(seq))
           mid   == front \o <<e>>
<1>1. /\ Len(seq) \in Nat /\ p \in Int
      /\ \A i \in 1 .. Len(seq) : seq[i] \in S
  BY LenProperties, ElementOfSeq
<1>2. /\ front \in Seq(S) /\ Len(front) = p - 1
      /\ \A i \in 1 .. p - 1 : front[i] = seq[i]
  <2>1. \A i \in 1 .. p - 1 : seq[i] \in S
    BY <1>1
  <2> QED
    BY <1>1, <2>1, SubSeqProperties
<1>3. /\ back \in Seq(S) /\ Len(back) = Len(seq) - p + 1
      /\ \A i \in 1 .. Len(seq) - p + 1 : back[i] = seq[p + i - 1]
  <2>1. \A i \in p .. Len(seq) : seq[i] \in S
    BY <1>1
  <2> QED
    BY <1>1, <2>1, SubSeqProperties
<1>4. <<e>> \in Seq(S) /\ Len(<<e>>) = 1 /\ <<e>>[1] = e
  OBVIOUS
<1>5. /\ mid \in Seq(S) /\ Len(mid) = p
      /\ \A i \in 1 .. p : mid[i] = IF i < p THEN seq[i] ELSE e
  <2>1. /\ mid \in Seq(S) /\ Len(mid) = Len(front) + Len(<<e>>)
        /\ \A i \in 1 .. Len(front) + Len(<<e>>) :
              mid[i] = IF i <= Len(front) THEN front[i] ELSE <<e>>[i - Len(front)]
    BY <1>2, <1>4, ConcatProperties
  <2> HIDE DEF mid, front
  <2> QED
    BY <1>1, <1>2, <1>4, <2>1, SMTT(30)
<1> HIDE DEF front, back, mid
<1>6. /\ mid \o back \in Seq(S)
      /\ Len(mid \o back) = Len(mid) + Len(back)
      /\ \A i \in 1 .. Len(mid) + Len(back) :
            (mid \o back)[i] = IF i <= Len(mid) THEN mid[i] ELSE back[i - Len(mid)]
  BY <1>3, <1>5, ConcatProperties
<1>7. InsertAt(seq, p, e) = mid \o back
  BY DEF InsertAt, mid, front, back
<1>8. \A i \in 1 .. Len(seq) + 1 :
         (mid \o back)[i] = IF i < p THEN seq[i] ELSE IF i = p THEN e ELSE seq[i - 1]
  BY <1>1, <1>3, <1>5, <1>6
<1> QED
  BY <1>1, <1>3, <1>5, <1>6, <1>7, <1>8
-----------------------------------------------------------------------------
(* Schedule lists.                                                          *)

\* The nodes own disjoint runs of slots, in the order of the list.
Ascending(nodes) ==
    \A i, j \in 1 .. Len(nodes) : i < j => LastLsi(nodes[i]) < nodes[j].startLSI

\* Every node owns at least one slot.
Sized(nodes) == \A i \in 1 .. Len(nodes) : nodes[i].slotDemand >= 1

ListOK(list) == list \in SchList /\ Ascending(list.nodes) /\ Sized(list.nodes)

InFrame(nodes) == \A i \in 1 .. Len(nodes) : LastLsi(nodes[i]) <= nboTotSlots

\* The fields of a scheduled node are numbers.
LEMMA SchNodeFields ==
    ASSUME NEW nodes \in Seq(SchNode), NEW i \in 1 .. Len(nodes)
    PROVE  /\ nodes[i] \in SchNode
           /\ nodes[i].addr \in Addr
           /\ nodes[i].startLSI \in Nat /\ nodes[i].startLSI >= 1
           /\ nodes[i].slotDemand \in Nat
           /\ nodes[i].nboSchDist \in Nat
           /\ LastLsi(nodes[i]) \in Int
           /\ LastLsi(nodes[i]) = nodes[i].startLSI + nodes[i].slotDemand - 1
<1>1. nodes[i] \in SchNode
  BY ElementOfSeq
<1> QED
  BY <1>1, SMTT(30) DEF SchNode, LastLsi

\* The position of a scheduled node is one of the list and holds it.
LEMMA PositionOfScheduled ==
    ASSUME NEW list \in SchList, NEW addr, IsScheduledIn(list, addr)
    PROVE  /\ PositionOf(list, addr) \in 1 .. Len(list.nodes)
           /\ list.nodes[PositionOf(list, addr)].addr = addr
<1> DEFINE S == {i \in 1 .. Len(list.nodes) : list.nodes[i].addr = addr}
<1>1. Len(list.nodes) \in Nat
  BY LenProperties DEF SchList
<1>2. S # {} /\ S \subseteq Nat
  BY <1>1 DEF IsScheduledIn
<1>3. Min(S) \in S
  BY <1>2, MinOfNats
<1> QED
  BY <1>3 DEF PositionOf

\* The list without a node: what is behind its position moves up.
LEMMA ListAfterRemoval ==
    ASSUME NEW list, ListOK(list), NEW addr, IsScheduledIn(list, addr)
    PROVE  /\ smRemoveOneNode(list, addr) \in SchList
           /\ \A i \in 1 .. Len(smRemoveOneNode(list, addr).nodes) :
                 \E k \in 1 .. Len(list.nodes) :
                    /\ k = IF i < PositionOf(list, addr) THEN i ELSE i + 1
                    /\ smRemoveOneNode(list, addr).nodes[i] = list.nodes[k]
<1> DEFINE nodes == list.nodes
           pos   == PositionOf(list, addr)
           rest  == RemoveAt(nodes, pos)
           after == smRemoveOneNode(list, addr)
<1>1. /\ nodes \in Seq(SchNode) /\ Len(nodes) \in Nat
      /\ list.nboAsgSlots \in Int /\ list.nboDistReq \in Int
  BY LenProperties DEF ListOK, SchList
<1>2. pos \in 1 .. Len(nodes)
  BY PositionOfScheduled DEF ListOK
<1>3. /\ rest \in Seq(SchNode)
      /\ Len(rest) = Len(nodes) - 1
      /\ \A i \in 1 .. Len(nodes) - 1 :
            rest[i] = IF i < pos THEN nodes[i] ELSE nodes[i + 1]
  BY <1>1, <1>2, RemoveAtProperties
<1>4. nodes[pos].slotDemand \in Nat
  BY <1>1, <1>2, SchNodeFields
<1>5. /\ after.nodes = rest
      /\ after \in [nodes : {rest}, nboAsgSlots : Int, nboDistReq : Int]
  BY <1>1, <1>4 DEF smRemoveOneNode
<1> HIDE DEF rest, pos, after
<1>6. after \in SchList
  BY <1>3, <1>5 DEF SchList
<1>7. ASSUME NEW i \in 1 .. Len(rest)
      PROVE  \E k \in 1 .. Len(nodes) :
                k = (IF i < pos THEN i ELSE i + 1) /\ rest[i] = nodes[k]
  BY <1>1, <1>2, <1>3
<1> QED
  BY <1>5, <1>6, <1>7 DEF after, pos

\* Removing a node keeps the list in order and in its frame.
LEMMA RemoveKeepsListOK ==
    ASSUME NEW list, ListOK(list), NEW addr
    PROVE  /\ ListOK(smRemoveOneNode(list, addr))
           /\ InFrame(list.nodes) => InFrame(smRemoveOneNode(list, addr).nodes)
<1> DEFINE nodes == list.nodes
           pos   == PositionOf(list, addr)
           rest  == smRemoveOneNode(list, addr).nodes
<1>1. CASE ~ IsScheduledIn(list, addr)
  BY <1>1 DEF smRemoveOneNode
<1>2. CASE IsScheduledIn(list, addr)
  <2>1. smRemoveOneNode(list, addr) \in SchList
    BY <1>2, ListAfterRemoval
  <2>2. ASSUME NEW i \in 1 .. Len(rest)
        PROVE  \E k \in 1 .. Len(nodes) :
                  k = (IF i < pos THEN i ELSE i + 1) /\ rest[i] = nodes[k]
    BY <1>2, ListAfterRemoval
  <2>3. pos \in 1 .. Len(nodes) /\ Len(nodes) \in Nat /\ Len(rest) \in Nat
    BY <1>2, <2>1, PositionOfScheduled, LenProperties DEF ListOK, SchList
  <2> HIDE DEF rest, pos
  <2>4. Ascending(rest)
    <3> SUFFICES ASSUME NEW i \in 1 .. Len(rest), NEW j \in 1 .. Len(rest), i < j
                 PROVE  LastLsi(rest[i]) < rest[j].startLSI
      BY DEF Ascending
    <3>1. PICK k \in 1 .. Len(nodes) : k = (IF i < pos THEN i ELSE i + 1) /\ rest[i] = nodes[k]
      BY <2>2
    <3>2. PICK l \in 1 .. Len(nodes) : l = (IF j < pos THEN j ELSE j + 1) /\ rest[j] = nodes[l]
      BY <2>2
    <3>3. k < l
      BY <2>3, <3>1, <3>2
    <3> QED
      BY <3>1, <3>2, <3>3 DEF ListOK, Ascending
  <2>5. Sized(rest)
    BY <2>2 DEF ListOK, Sized
  <2>6. InFrame(nodes) => InFrame(rest)
    BY <2>2 DEF InFrame
  <2> QED
    BY <2>1, <2>4, <2>5, <2>6 DEF ListOK, rest
<1> QED
  BY <1>1, <1>2

\* In an ascending list starts grow with the positions.
LEMMA StartsGrow ==
    ASSUME NEW nodes \in Seq(SchNode), Ascending(nodes), Sized(nodes),
           NEW i \in 1 .. Len(nodes), NEW j \in 1 .. Len(nodes), i <= j
    PROVE  nodes[i].startLSI <= nodes[j].startLSI /\ LastLsi(nodes[i]) <= LastLsi(nodes[j])
<1>1. CASE i = j
  BY <1>1, SchNodeFields
<1>2. CASE i < j
  <2>1. /\ LastLsi(nodes[i]) < nodes[j].startLSI
        /\ nodes[i].slotDemand >= 1 /\ nodes[j].slotDemand >= 1
    BY <1>2 DEF Ascending, Sized
  <2>2. /\ nodes[i].startLSI \in Nat /\ nodes[i].slotDemand \in Nat
        /\ nodes[j].startLSI \in Nat /\ nodes[j].slotDemand \in Nat
        /\ LastLsi(nodes[i]) = nodes[i].startLSI + nodes[i].slotDemand - 1
        /\ LastLsi(nodes[j]) = nodes[j].startLSI + nodes[j].slotDemand - 1
    BY SchNodeFields
  <2> DEFINE s == nodes[i].startLSI
             d == nodes[i].slotDemand
             l == LastLsi(nodes[i])
             t == nodes[j].startLSI
             e == nodes[j].slotDemand
             m == LastLsi(nodes[j])
  <2>3. /\ s \in Nat /\ d \in Nat /\ t \in Nat /\ e \in Nat
        /\ l = s + d - 1 /\ m = t + e - 1 /\ l < t /\ d >= 1 /\ e >= 1
    BY <2>1, <2>2
  <2> HIDE DEF s, d, l, t, e, m
  <2>4. s <= t /\ l <= m
    BY <2>3
  <2> QED
    BY <2>4 DEF s, l, t, m
<1> QED
  BY <1>1, <1>2, LenProperties

\* The node fits between positions k and k + 1 of the list.
FitsBehind(nodes, lsi, demand, k) ==
    \A i \in 1 .. Len(nodes) :
        /\ i <= k => LastLsi(nodes[i]) < lsi
        /\ i > k => lsi + demand - 1 < nodes[i].startLSI

\* A slot that smAssignLsiToNode hands out begins a run of free slots, and
\* the run lies in the frame when the nodes of the list do.
LEMMA AssignFits ==
    ASSUME NEW nodes \in Seq(SchNode), Ascending(nodes), Sized(nodes),
           NEW demand \in Nat, demand >= 1,
           NEW lsi, lsi = smAssignLsiToNode(nodes, demand), lsi # 0
    PROVE  /\ lsi \in Nat /\ lsi >= 1
           /\ \E k \in 0 .. Len(nodes) : FitsBehind(nodes, lsi, demand, k)
           /\ (InFrame(nodes) /\ demand <= nboTotSlots) => lsi + demand - 1 <= nboTotSlots
<1> DEFINE gaps == GapsAfter(nodes, demand)
<1>1. Len(nodes) \in Nat /\ nboTotSlots \in Nat
  BY LenProperties, TotSlotsAssumption
<1>2. CASE nodes = << >>
  <2>1. lsi = 1 /\ Len(nodes) = 0
    BY <1>2 DEF smAssignLsiToNode
  <2> QED
    BY <2>1, <1>1 DEF FitsBehind
<1>3. CASE nodes # << >> /\ nodes[1].startLSI > demand
  <2>1. lsi = 1 /\ 1 \in 1 .. Len(nodes)
    BY <1>1, <1>3, EmptySeq DEF smAssignLsiToNode
  <2>2. ASSUME NEW i \in 1 .. Len(nodes)
        PROVE  lsi + demand - 1 < nodes[i].startLSI
    <3>1. nodes[1].startLSI <= nodes[i].startLSI
      BY <1>1, <2>1, StartsGrow
    <3>2. nodes[1].startLSI \in Nat /\ nodes[i].startLSI \in Nat
      BY <2>1, SchNodeFields
    <3> QED
      BY <1>3, <2>1, <3>1, <3>2
  <2>3. FitsBehind(nodes, lsi, demand, 0)
    BY <1>1, <2>2 DEF FitsBehind
  <2> QED
    BY <1>1, <2>1, <2>3
<1>4. CASE nodes # << >> /\ ~ (nodes[1].startLSI > demand)
  <2> DEFINE g == Min(gaps)
  <2>1. gaps # {} /\ lsi = LastLsi(nodes[g]) + 1
    BY <1>4 DEF smAssignLsiToNode
  <2>2. gaps \subseteq Nat
    BY <1>1 DEF GapsAfter
  <2>3. g \in gaps
    BY <2>1, <2>2, MinOfNats
  <2> HIDE DEF g
  <2>4. /\ g \in 1 .. Len(nodes)
        /\ IF g = Len(nodes)
           THEN LastLsi(nodes[g]) > nboTotSlots \/ nboTotSlots - LastLsi(nodes[g]) >= demand
           ELSE nodes[g + 1].startLSI - LastLsi(nodes[g]) > demand
    BY <2>3 DEF GapsAfter
  <2>5. /\ nodes[g].startLSI \in Nat /\ nodes[g].startLSI >= 1
        /\ nodes[g].slotDemand \in Nat /\ nodes[g].slotDemand >= 1
        /\ LastLsi(nodes[g]) = nodes[g].startLSI + nodes[g].slotDemand - 1
    BY <2>4, SchNodeFields DEF Sized
  <2>6. lsi \in Nat /\ lsi >= 1
    BY <2>1, <2>5, SMTT(30)
  <2>7. ASSUME NEW i \in 1 .. Len(nodes), i <= g
        PROVE  LastLsi(nodes[i]) < lsi
    <3>1. LastLsi(nodes[i]) <= LastLsi(nodes[g])
      BY <2>4, <2>7, StartsGrow
    <3>2. LastLsi(nodes[i]) \in Int
      BY SchNodeFields
    <3> QED
      BY <2>1, <2>5, <3>1, <3>2, SMTT(30)
  <2>8. ASSUME NEW i \in 1 .. Len(nodes), i > g
        PROVE  lsi + demand - 1 < nodes[i].startLSI
    <3>1. g + 1 \in 1 .. Len(nodes) /\ g + 1 <= i /\ g # Len(nodes)
      BY <1>1, <2>4, <2>8
    <3>2. nodes[g + 1].startLSI <= nodes[i].startLSI
      BY <3>1, StartsGrow
    <3>3. nodes[i].startLSI \in Nat /\ nodes[g + 1].startLSI \in Nat
      BY <3>1, SchNodeFields
    <3>4. nodes[g + 1].startLSI - LastLsi(nodes[g]) > demand
      BY <2>4, <3>1
    <3>5. LastLsi(nodes[g]) \in Int
      BY <2>5
    <3> QED
      BY <2>1, <3>2, <3>3, <3>4, <3>5, SMTT(30)
  <2>9. FitsBehind(nodes, lsi, demand, g)
    BY <2>7, <2>8 DEF FitsBehind
  <2>10. ASSUME InFrame(nodes)
         PROVE  lsi + demand - 1 <= nboTotSlots
    <3>1. LastLsi(nodes[g]) <= nboTotSlots
      BY <2>4, <2>10 DEF InFrame
    <3>2. CASE g = Len(nodes)
      BY <1>1, <2>1, <2>4, <2>5, <3>1, <3>2
    <3>3. CASE g # Len(nodes)
      <4>1. g + 1 \in 1 .. Len(nodes)
        BY <1>1, <2>4, <3>3
      <4>2. /\ LastLsi(nodes[g + 1]) <= nboTotSlots
            /\ nodes[g + 1].startLSI \in Nat /\ nodes[g + 1].slotDemand \in Nat
            /\ nodes[g + 1].slotDemand >= 1
            /\ LastLsi(nodes[g + 1]) = nodes[g + 1].startLSI + nodes[g + 1].slotDemand - 1
        BY <2>10, <4>1, SchNodeFields DEF InFrame, Sized
      <4>3. lsi + demand - 1 < nodes[g + 1].startLSI
        BY <2>4, <2>8, <4>1
      <4>4. nodes[g + 1].startLSI <= LastLsi(nodes[g + 1])
        BY <4>2
      <4> QED
        BY <1>1, <2>6, <4>2, <4>3, <4>4, SMTT(30)
    <3> QED
      BY <3>2, <3>3
  <2> QED
    BY <1>1, <2>4, <2>6, <2>9, <2>10
<1> QED
  BY <1>2, <1>3, <1>4

\* A node that fits behind position k is inserted at position k + 1.
LEMMA InsertPositionOfFit ==
    ASSUME NEW nodes \in Seq(SchNode), Sized(nodes), NEW lsi \in Nat,
           NEW demand \in Nat, demand >= 1,
           NEW k \in 0 .. Len(nodes), FitsBehind(nodes, lsi, demand, k)
    PROVE  InsertPosition(nodes, lsi) = k + 1
<1> DEFINE later == {i \in 1 .. Len(nodes) : nodes[i].startLSI > lsi}
<1>1. Len(nodes) \in Nat
  BY LenProperties
<1>2. ASSUME NEW i \in 1 .. Len(nodes)
      PROVE  nodes[i].startLSI > lsi <=> i > k
  <2>1. /\ nodes[i].startLSI \in Nat /\ nodes[i].slotDemand \in Nat
        /\ nodes[i].slotDemand >= 1
        /\ LastLsi(nodes[i]) = nodes[i].startLSI + nodes[i].slotDemand - 1
    BY SchNodeFields DEF Sized
  <2>2. /\ i <= k => LastLsi(nodes[i]) < lsi
        /\ i > k => lsi + demand - 1 < nodes[i].startLSI
    BY DEF FitsBehind
  <2> QED
    BY <1>1, <2>1, <2>2
<1>3. later = {i \in 1 .. Len(nodes) : i > k}
  BY <1>2
<1>4. CASE k = Len(nodes)
  <2>1. later = {}
    BY <1>1, <1>3, <1>4
  <2> QED
    BY <1>4, <2>1 DEF InsertPosition
<1>5. CASE k < Len(nodes)
  <2>1. k + 1 \in later /\ later \subseteq Nat /\ \A i \in later : k + 1 <= i
    BY <1>1, <1>3, <1>5
  <2> HIDE DEF later
  <2>2. Min(later) \in later /\ Min(later) <= k + 1 /\ later # {}
    BY <2>1, MinOfNats
  <2>3. Min(later) = k + 1
    <3>1. k + 1 <= Min(later) /\ Min(later) \in Nat
      BY <2>1, <2>2
    <3> QED
      BY <1>1, <2>2, <3>1
  <2> QED
    BY <2>2, <2>3 DEF InsertPosition, later
<1> QED
  BY <1>1, <1>4, <1>5

\* `after' is `list' with `node', which owns `demand' slots, in position k + 1.
Inserted(list, after, addr, demand, lsi, k, node) ==
    /\ node.addr = addr /\ node.startLSI = lsi /\ node.slotDemand = demand
    /\ LastLsi(node) = lsi + demand - 1
    /\ FitsBehind(list.nodes, lsi, demand, k)
    /\ InFrame(list.nodes) /\ demand <= nboTotSlots => lsi + demand - 1 <= nboTotSlots
    /\ \A i \in 1 .. Len(after.nodes) :
         \/ /\ i = k + 1 /\ after.nodes[i] = node
         \/ /\ i < k + 1 /\ i \in 1 .. Len(list.nodes)
            /\ after.nodes[i] = list.nodes[i]
         \/ /\ i > k + 1 /\ i - 1 \in 1 .. Len(list.nodes)
            /\ after.nodes[i] = list.nodes[i - 1]

\* The list with one node more, which stands between those it fits between.
LEMMA ListAfterScheduling ==
    ASSUME NEW list, ListOK(list), NEW addr \in Addr,
           NEW demand \in Nat, demand >= 1, NEW dist \in Nat,
           CanSchedule(list, demand)
    PROVE  /\ smScheduleOneNode(list, addr, demand, dist) \in SchList
           /\ \E lsi \in Nat, k \in 0 .. Len(list.nodes), node \in SchNode :
                 Inserted(list, smScheduleOneNode(list, addr, demand, dist),
                          addr, demand, lsi, k, node)
<1> DEFINE nodes == list.nodes
           lsi   == smAssignLsiToNode(nodes, demand)
           node  == [addr |-> addr, startLSI |-> lsi, slotDemand |-> demand,
                     nboSchDist |-> dist]
           more  == InsertAt(nodes, InsertPosition(nodes, lsi), node)
           after == smScheduleOneNode(list, addr, demand, dist)
<1>1. /\ nodes \in Seq(SchNode) /\ Len(nodes) \in Nat
      /\ list.nboAsgSlots \in Int /\ list.nboDistReq \in Int
      /\ Ascending(nodes) /\ Sized(nodes)
  BY LenProperties DEF ListOK, SchList
<1>2. lsi # 0
  BY DEF CanSchedule
<1>3. /\ lsi \in Nat /\ lsi >= 1
      /\ \E k \in 0 .. Len(nodes) : FitsBehind(nodes, lsi, demand, k)
      /\ InFrame(nodes) /\ demand <= nboTotSlots => lsi + demand - 1 <= nboTotSlots
  <2> HIDE DEF nodes
  <2> QED
    BY <1>1, <1>2, AssignFits
<1>4. PICK k \in 0 .. Len(nodes) : FitsBehind(nodes, lsi, demand, k)
  BY <1>3
<1>5. /\ after.nodes = more
      /\ after \in [nodes : {more}, nboAsgSlots : Int, nboDistReq : Int]
  BY <1>1 DEF smScheduleOneNode, smAddNodeToScheduleList
<1> HIDE DEF nodes, lsi, after
<1>6. /\ node \in SchNode /\ LastLsi(node) = lsi + demand - 1
      /\ node.addr = addr /\ node.startLSI = lsi /\ node.slotDemand = demand
  BY <1>3 DEF SchNode, LastLsi
<1> HIDE DEF node
<1>7. InsertPosition(nodes, lsi) = k + 1 /\ k + 1 \in 1 .. Len(nodes) + 1
  BY <1>1, <1>3, <1>4, InsertPositionOfFit
<1>8. /\ more \in Seq(SchNode) /\ Len(more) = Len(nodes) + 1
      /\ \A i \in 1 .. Len(nodes) + 1 :
            more[i] = IF i < k + 1 THEN nodes[i]
                      ELSE IF i = k + 1 THEN node ELSE nodes[i - 1]
  <2>1. more = InsertAt(nodes, k + 1, node)
    BY <1>7
  <2>2. PICK p \in 1 .. Len(nodes) + 1 : p = k + 1
    BY <1>7
  <2>3. /\ InsertAt(nodes, p, node) \in Seq(SchNode)
        /\ Len(InsertAt(nodes, p, node)) = Len(nodes) + 1
        /\ \A i \in 1 .. Len(nodes) + 1 :
              InsertAt(nodes, p, node)[i] = IF i < p THEN nodes[i]
                                            ELSE IF i = p THEN node ELSE nodes[i - 1]
    BY <1>1, <1>6, InsertAtProperties
  <2> HIDE DEF more
  <2> QED
    BY <2>1, <2>2, <2>3
<1> HIDE DEF more
<1>9. after \in SchList
  BY <1>5, <1>8 DEF SchList
<1>10. ASSUME NEW i \in 1 .. Len(more)
       PROVE  \/ i = k + 1 /\ more[i] = node
              \/ i < k + 1 /\ i \in 1 .. Len(nodes) /\ more[i] = nodes[i]
              \/ i > k + 1 /\ i - 1 \in 1 .. Len(nodes) /\ more[i] = nodes[i - 1]
  BY <1>1, <1>7, <1>8, SMTT(30)
<1>11. Inserted(list, after, addr, demand, lsi, k, node)
  BY <1>3, <1>4, <1>5, <1>6, <1>10 DEF Inserted, nodes
<1> QED
  BY <1>3, <1>4, <1>6, <1>9, <1>11 DEF after, nodes

\* Scheduling a node keeps the list in order, whether it finds room or not.
LEMMA ScheduleKeepsListOK ==
    ASSUME NEW list, ListOK(list), NEW addr \in Addr,
           NEW demand \in Nat, demand >= 1, NEW dist \in Nat
    PROVE  /\ ListOK(smScheduleOneNode(list, addr, demand, dist))
           /\ InFrame(list.nodes) /\ demand <= nboTotSlots =>
                 InFrame(smScheduleOneNode(list, addr, demand, dist).nodes)
<1> DEFINE nodes == list.nodes
           after == smScheduleOneNode(list, addr, demand, dist)
           more  == after.nodes
<1>1. CASE ~ CanSchedule(list, demand)
  BY <1>1 DEF smScheduleOneNode
<1>2. CASE CanSchedule(list, demand)
  <2>1. /\ after \in SchList
        /\ \E lsi \in Nat, k \in 0 .. Len(nodes), node \in SchNode :
              Inserted(list, after, addr, demand, lsi, k, node)
    BY <1>2, ListAfterScheduling
  <2>2. PICK lsi \in Nat, k \in 0 .. Len(nodes), node \in SchNode :
           Inserted(list, after, addr, demand, lsi, k, node)
    BY <2>1
  <2>3. Len(nodes) \in Nat /\ Len(more) \in Nat /\ k \in Nat
    BY <2>1, LenProperties DEF ListOK, SchList
  <2>4. /\ node.startLSI = lsi /\ node.slotDemand = demand
        /\ LastLsi(node) = lsi + demand - 1 /\ FitsBehind(nodes, lsi, demand, k)
        /\ InFrame(nodes) /\ demand <= nboTotSlots => lsi + demand - 1 <= nboTotSlots
    BY <2>2 DEF Inserted
  <2>5. \A i \in 1 .. Len(more) :
          \/ /\ i = k + 1 /\ more[i] = node
          \/ /\ i < k + 1 /\ i \in 1 .. Len(nodes)
             /\ more[i] = nodes[i]
          \/ /\ i > k + 1 /\ i - 1 \in 1 .. Len(nodes)
             /\ more[i] = nodes[i - 1]
    BY <2>2 DEF Inserted
  <2> HIDE DEF more, nodes, after
  <2>6. Ascending(more)
    <3> SUFFICES ASSUME NEW i \in 1 .. Len(more), NEW j \in 1 .. Len(more), i < j
                 PROVE  LastLsi(more[i]) < more[j].startLSI
      BY DEF Ascending
    <3>1. \A p, q \in 1 .. Len(nodes) : p < q => LastLsi(nodes[p]) < nodes[q].startLSI
      BY DEF ListOK, Ascending, nodes
    <3>2. CASE i < k + 1 /\ j < k + 1
      <4>1. /\ i \in 1 .. Len(nodes) /\ more[i] = nodes[i]
            /\ j \in 1 .. Len(nodes) /\ more[j] = nodes[j]
        BY <2>3, <2>5, <3>2
      <4> QED
        BY <3>1, <4>1
    <3>3. CASE i < k + 1 /\ j = k + 1
      BY <2>3, <2>4, <2>5, <3>3 DEF FitsBehind
    <3>4. CASE i < k + 1 /\ j > k + 1
      <4>1. /\ i \in 1 .. Len(nodes) /\ more[i] = nodes[i]
            /\ j - 1 \in 1 .. Len(nodes) /\ more[j] = nodes[j - 1]
        BY <2>3, <2>5, <3>4
      <4>2. i < j - 1
        BY <2>3, <3>4
      <4> QED
        BY <3>1, <4>1, <4>2
    <3>5. CASE i = k + 1 /\ j > k + 1
      <4>1. /\ j - 1 \in 1 .. Len(nodes) /\ more[j] = nodes[j - 1] /\ more[i] = node
        BY <2>3, <2>5, <3>5
      <4>2. j - 1 > k
        BY <2>3, <3>5
      <4> QED
        BY <2>4, <4>1, <4>2 DEF FitsBehind
    <3>6. CASE i > k + 1 /\ j > k + 1
      <4>1. /\ i - 1 \in 1 .. Len(nodes) /\ more[i] = nodes[i - 1]
            /\ j - 1 \in 1 .. Len(nodes) /\ more[j] = nodes[j - 1]
        BY <2>3, <2>5, <3>6
      <4>2. i - 1 < j - 1
        BY <2>3
      <4> QED
        BY <3>1, <4>1, <4>2
    <3> QED
      BY <2>3, <3>2, <3>3, <3>4, <3>5, <3>6
  <2>7. Sized(more)
    BY <2>4, <2>5 DEF ListOK, Sized, nodes
  <2>8. ASSUME InFrame(nodes), demand <= nboTotSlots
        PROVE  InFrame(more)
    BY <2>4, <2>5, <2>8 DEF InFrame
  <2> QED
    BY <2>1, <2>6, <2>7, <2>8 DEF ListOK, more, nodes, after
<1> QED
  BY <1>1, <1>2

\* Announcing nodes changes no slots.
LEMMA DistributionKeepsListOK ==
    ASSUME NEW list, ListOK(list), NEW S, S \subseteq 1 .. Len(list.nodes)
    PROVE  /\ ListOK(smNodesDistributed(list, S))
           /\ InFrame(list.nodes) => InFrame(smNodesDistributed(list, S).nodes)
<1> DEFINE nodes == list.nodes
           told(i) == IF i \in S /\ IsPending(nodes[i])
                      THEN [nodes[i] EXCEPT !.nboSchDist = @ - 1] ELSE nodes[i]
           later == [i \in 1 .. Len(nodes) |-> told(i)]
           last  == {i \in S : nodes[i].nboSchDist = 1}
           after == smNodesDistributed(list, S)
<1>1. /\ nodes \in Seq(SchNode) /\ Len(nodes) \in Nat
      /\ list.nboAsgSlots \in Int /\ list.nboDistReq \in Int
      /\ list \in [nodes : Seq(SchNode), nboAsgSlots : Int, nboDistReq : Int]
  BY LenProperties DEF ListOK, SchList
<1>2. Cardinality(last) \in Nat
  <2>1. IsFiniteSet(1 .. Len(nodes))
    BY <1>1, FS_Interval
  <2>2. last \in SUBSET (1 .. Len(nodes))
    OBVIOUS
  <2> QED
    BY <2>1, <2>2, FS_Subset, FS_CardinalityType
<1>3. /\ after.nodes = later
      /\ after \in [nodes : {later}, nboAsgSlots : Int, nboDistReq : Int]
  <2> HIDE DEF last
  <2>1. after = [list EXCEPT !.nodes = later, !.nboDistReq = @ - Cardinality(last)]
    BY DEF smNodesDistributed, last
  <2> HIDE DEF later, after
  <2>2. after = [nodes |-> later, nboAsgSlots |-> list.nboAsgSlots,
                 nboDistReq |-> list.nboDistReq - Cardinality(last)]
    BY <1>1, <2>1
  <2> QED
    BY <1>1, <1>2, <2>2
<1>4. ASSUME NEW i \in 1 .. Len(nodes)
      PROVE  /\ told(i) \in SchNode
             /\ told(i).startLSI = nodes[i].startLSI
             /\ told(i).slotDemand = nodes[i].slotDemand
             /\ LastLsi(told(i)) = LastLsi(nodes[i])
  <2>1. nodes[i] \in SchNode
    BY <1>1, ElementOfSeq
  <2> QED
    BY <2>1 DEF SchNode, IsPending, LastLsi
<1>5. later \in Seq(SchNode) /\ Len(later) = Len(nodes)
  <2>1. later \in [1 .. Len(nodes) -> SchNode]
    BY <1>4
  <2> QED
    BY <1>1, <2>1
<1>6. \A i \in 1 .. Len(nodes) : later[i] = told(i)
  OBVIOUS
<1> HIDE DEF later, told, after
<1>7. after \in SchList
  BY <1>3, <1>5 DEF SchList
<1>8. Ascending(later) /\ Sized(later) /\ (InFrame(nodes) => InFrame(later))
  BY <1>4, <1>5, <1>6 DEF ListOK, Ascending, Sized, InFrame
<1> QED
  BY <1>3, <1>7, <1>8 DEF ListOK, after
-----------------------------------------------------------------------------
(* The table of schedules.                                                  *)

TableOK(sched) ==
    sched \in [Groups -> SchList] /\ \A g \in Groups : ListOK(sched[g])

TableInFrame(sched) == \A g \in Groups : InFrame(sched[g].nodes)

\* No demand is larger than a frame.
DemandsFit == \A d \in Demands : d <= nboTotSlots

\* Empty schedules are sound.
LEMMA EmptyTableOK ==
    /\ TableOK([g \in Groups |-> smInitSchedule])
    /\ TableInFrame([g \in Groups |-> smInitSchedule])
<1>1. smInitSchedule \in SchList /\ Len(smInitSchedule.nodes) = 0
  BY EmptySeq DEF smInitSchedule, SchList
<1>2. ListOK(smInitSchedule) /\ InFrame(smInitSchedule.nodes)
  BY <1>1 DEF ListOK, Ascending, Sized, InFrame
<1> QED
  BY <1>1, <1>2 DEF TableOK, TableInFrame

\* Removing a node keeps every schedule sound.
LEMMA RemoveKeepsTableOK ==
    ASSUME NEW sched, TableOK(sched), NEW addr
    PROVE  /\ TableOK(removeNodeFromSchedule(sched, addr))
           /\ TableInFrame(sched) => TableInFrame(removeNodeFromSchedule(sched, addr))
<1>1. ASSUME NEW g \in Groups
      PROVE  /\ ListOK(smRemoveOneNode(sched[g], addr))
             /\ InFrame(sched[g].nodes) => InFrame(smRemoveOneNode(sched[g], addr).nodes)
  BY RemoveKeepsListOK DEF TableOK
<1>2. removeNodeFromSchedule(sched, addr) \in [Groups -> SchList]
  BY <1>1 DEF removeNodeFromSchedule, ListOK
<1>3. \A g \in Groups : removeNodeFromSchedule(sched, addr)[g] = smRemoveOneNode(sched[g], addr)
  BY DEF removeNodeFromSchedule
<1> QED
  BY <1>1, <1>2, <1>3 DEF TableOK, TableInFrame

\* Scheduling a node keeps every schedule sound.
LEMMA ScheduleKeepsTableOK ==
    ASSUME NEW sched, TableOK(sched), NEW addr \in Addr, NEW demand \in Demands,
           NEW dist \in Nat
    PROVE  /\ TableOK(scheduleNode(sched, addr, demand, dist))
           /\ DemandsFit /\ TableInFrame(sched) =>
                 TableInFrame(scheduleNode(sched, addr, demand, dist))
<1> DEFINE rest   == removeNodeFromSchedule(sched, addr)
           chosen == getIndexOfLowestLoadSch(rest)
           after  == scheduleNode(sched, addr, demand, dist)
<1>1. demand \in Nat /\ demand >= 1
  BY SchedulerAssumption
<1>2. TableOK(rest) /\ (TableInFrame(sched) => TableInFrame(rest))
  BY RemoveKeepsTableOK
<1>3. after = [rest EXCEPT ![chosen] = smScheduleOneNode(@, addr, demand, dist)]
  BY DEF scheduleNode
<1> HIDE DEF rest, chosen, after
<1>4. /\ DOMAIN after = Groups /\ after = [g \in Groups |-> after[g]]
      /\ \A g \in Groups : after[g] = IF g = chosen
                                    THEN smScheduleOneNode(rest[g], addr, demand, dist)
                                    ELSE rest[g]
  BY <1>2, <1>3 DEF TableOK
<1>5. ASSUME NEW g \in Groups
      PROVE  /\ ListOK(after[g])
             /\ (DemandsFit /\ InFrame(rest[g].nodes)) => InFrame(after[g].nodes)
  <2>1. ListOK(rest[g])
    BY <1>2 DEF TableOK
  <2>2. CASE g = chosen
    BY <1>1, <1>4, <2>1, <2>2, ScheduleKeepsListOK DEF DemandsFit
  <2>3. CASE g # chosen
    BY <1>4, <2>1, <2>3
  <2> QED
    BY <2>2, <2>3
<1>6. after \in [Groups -> SchList]
  BY <1>4, <1>5 DEF ListOK
<1> QED
  BY <1>2, <1>5, <1>6 DEF TableOK, TableInFrame, after

\* The table after the nodes at the positions S of the groups were announced.
LEMMA AnnounceKeepsTableOK ==
    ASSUME TableOK(SCHEDULES), NEW S, \A g \in Groups : S[g] \subseteq 1 .. Len(Nodes(g)),
           SCHEDULES' = [g \in Groups |-> smNodesDistributed(SCHEDULES[g], S[g])]
    PROVE  /\ TableOK(SCHEDULES')
           /\ TableInFrame(SCHEDULES) => TableInFrame(SCHEDULES')
<1>1. ASSUME NEW g \in Groups
      PROVE  /\ ListOK(SCHEDULES'[g])
             /\ InFrame(SCHEDULES[g].nodes) => InFrame(SCHEDULES'[g].nodes)
  <2>1. SCHEDULES'[g] = smNodesDistributed(SCHEDULES[g], S[g])
    OBVIOUS
  <2>2. ListOK(SCHEDULES[g]) /\ S[g] \subseteq 1 .. Len(SCHEDULES[g].nodes)
    BY DEF TableOK, Nodes
  <2> QED
    BY <2>1, <2>2, DistributionKeepsListOK
<1>2. SCHEDULES' \in [Groups -> SchList]
  BY <1>1 DEF ListOK
<1> QED
  BY <1>1, <1>2 DEF TableOK, TableInFrame
-----------------------------------------------------------------------------
(* The specification.                                                       *)

IInv == TypeOK /\ TableOK(SCHEDULES)

\* The table starts empty.
LEMMA InitIInv == Init => IInv /\ TableInFrame(SCHEDULES)
<1> SUFFICES ASSUME Init PROVE IInv /\ TableInFrame(SCHEDULES)
  OBVIOUS
<1>1. TableOK(SCHEDULES) /\ TableInFrame(SCHEDULES)
  BY EmptyTableOK DEF Init
<1>2. TypeOK
  BY <1>1, SchedulerAssumption DEF Init, TypeOK, TableOK
<1> QED
  BY <1>1, <1>2 DEF IInv

\* What each kind of step does to the table.
LEMMA NextKeepsTableOK ==
    ASSUME IInv, [Next]_vars
    PROVE  /\ TableOK(SCHEDULES')
           /\ DemandsFit /\ TableInFrame(SCHEDULES) => TableInFrame(SCHEDULES')
<1>1. ASSUME NEW a \in Addr, NEW d \in Demands, ScheduleNode(a, d)
      PROVE  /\ TableOK(SCHEDULES')
             /\ DemandsFit /\ TableInFrame(SCHEDULES) => TableInFrame(SCHEDULES')
  <2>1. NboSchUpdate \in Nat
    BY SchedulerAssumption DEF NboSchUpdate
  <2> QED
    BY <1>1, <2>1, ScheduleKeepsTableOK DEF ScheduleNode, IInv
<1>2. ASSUME NEW a \in Addr, RemoveNode(a)
      PROVE  TableOK(SCHEDULES') /\ (TableInFrame(SCHEDULES) => TableInFrame(SCHEDULES'))
  BY <1>2, RemoveKeepsTableOK DEF RemoveNode, IInv
<1>3. ASSUME SendSm
      PROVE  TableOK(SCHEDULES') /\ (TableInFrame(SCHEDULES) => TableInFrame(SCHEDULES'))
  <2>1. CASE GroupsToDistribute = {}
    BY <1>3, <2>1 DEF SendSm, IInv
  <2>2. CASE GroupsToDistribute # {}
    <3> DEFINE S == [g \in Groups |->
                       IF g = SmGroup THEN SmWalk(g) \cap (1 .. Len(Nodes(g))) ELSE {}]
    <3>1. \A g \in Groups : S[g] \subseteq 1 .. Len(Nodes(g))
      OBVIOUS
    <3>2. Announce(S)
      BY <1>3, <2>2 DEF SendSm
    <3> HIDE DEF S
    <3>3. SCHEDULES' = [g \in Groups |-> smNodesDistributed(SCHEDULES[g], S[g])]
      BY <3>2 DEF Announce
    <3> QED
      BY <3>1, <3>3, AnnounceKeepsTableOK DEF IInv
  <2> QED
    BY <2>1, <2>2
<1>4. ASSUME SendCm
      PROVE  TableOK(SCHEDULES') /\ (TableInFrame(SCHEDULES) => TableInFrame(SCHEDULES'))
  <2> DEFINE S == [g \in Groups |-> UsiWalk(g)]
  <2>1. \A g \in Groups : S[g] \subseteq 1 .. Len(Nodes(g))
    BY DEF UsiWalk, Pending
  <2>2. Announce(S)
    BY <1>4 DEF SendCm
  <2> HIDE DEF S
  <2>3. SCHEDULES' = [g \in Groups |-> smNodesDistributed(SCHEDULES[g], S[g])]
    BY <2>2 DEF Announce
  <2> QED
    BY <2>1, <2>3, AnnounceKeepsTableOK DEF IInv
<1>5. ASSUME StartSd
      PROVE  TableOK(SCHEDULES') /\ TableInFrame(SCHEDULES')
  BY <1>5, EmptyTableOK DEF StartSd
<1>6. ASSUME StartDc \/ UNCHANGED vars
      PROVE  TableOK(SCHEDULES') /\ (TableInFrame(SCHEDULES) => TableInFrame(SCHEDULES'))
  BY <1>6 DEF StartDc, vars, IInv
<1> QED
  BY <1>1, <1>2, <1>3, <1>4, <1>5, <1>6 DEF Next

\* One case for each operation on the table.
LEMMA NextKeepsIInv == IInv /\ [Next]_vars => IInv'
<1> SUFFICES ASSUME IInv, [Next]_vars PROVE IInv'
  OBVIOUS
<1>1. TableOK(SCHEDULES') /\ SCHEDULES' \in [Groups -> SchList]
  BY NextKeepsTableOK DEF TableOK
<1>2. /\ NboSlotsInSch1 \in Nat /\ NboSchUpdate \in Int /\ Addr = Addr
      /\ phase \in {"SD", "DC"} /\ sch1Cnt \in 0 .. NboSlotsInSch1
      /\ owed \in [Addr -> Int]
  BY SchedulerAssumption DEF IInv, TypeOK, NboSchUpdate
<1>3. phase' \in {"SD", "DC"} /\ sch1Cnt' \in 0 .. NboSlotsInSch1
  BY <1>2 DEF Next, vars, ScheduleNode, RemoveNode, SendSm, SendCm, StartSd, StartDc
<1>4. owed' \in [Addr -> Int]
  <2>1. ASSUME NEW S, Announce(S) PROVE owed' \in [Addr -> Int]
    BY <1>2, <2>1 DEF Announce
  <2>2. CASE SendSm
    BY <1>2, <2>1, <2>2 DEF SendSm
  <2>3. CASE SendCm
    BY <2>1, <2>3 DEF SendCm
  <2>4. CASE \E a \in Addr, d \in Demands : ScheduleNode(a, d)
    BY <1>2, <2>4 DEF ScheduleNode
  <2>5. CASE \E a \in Addr : RemoveNode(a)
    BY <1>2, <2>5 DEF RemoveNode
  <2>6. CASE StartSd \/ StartDc \/ UNCHANGED vars
    BY <1>2, <2>6 DEF StartSd, StartDc, vars
  <2> QED
    BY <2>2, <2>3, <2>4, <2>5, <2>6 DEF Next
<1> QED
  BY <1>1, <1>3, <1>4 DEF IInv, TypeOK

(* The types of the scheduler's state hold in every reachable state: in     *)
(* particular every slot handed out is a positive number, never the 0 by    *)
(* which smAssignLsiToNode reports failure.                                 *)
THEOREM TypeCorrect == Spec => []TypeOK
<1>1. Init => IInv
  BY InitIInv
<1>2. IInv /\ [Next]_vars => IInv'
  BY NextKeepsIInv
<1>3. IInv => TypeOK
  BY DEF IInv
<1> QED
  BY <1>1, <1>2, <1>3, PTL DEF Spec

(* The slots of two nodes of a group never overlap, for any demands and any *)
(* order of scheduling, removal, announcement and clearing.                 *)
THEOREM NoCollision == Spec => []SlotsDisjoint
<1>1. Init => IInv
  BY InitIInv
<1>2. IInv /\ [Next]_vars => IInv'
  BY NextKeepsIInv
<1>3. IInv => SlotsDisjoint
  BY DEF IInv, TableOK, ListOK, Ascending, SlotsDisjoint, Nodes
<1> QED
  BY <1>1, <1>2, <1>3, PTL DEF Spec

(* When no demand exceeds the frame, every slot handed out lies in it.  The *)
(* hypothesis is needed: an empty group takes any demand.                   *)
THEOREM NoSlotBeyondFrame == DemandsFit => (Spec => []SlotsInFrame)
<1> SUFFICES ASSUME DemandsFit PROVE Spec => []SlotsInFrame
  OBVIOUS
<1> DEFINE FrameInv == IInv /\ TableInFrame(SCHEDULES)
<1>1. Init => FrameInv
  BY InitIInv
<1>2. FrameInv /\ [Next]_vars => FrameInv'
  BY NextKeepsIInv, NextKeepsTableOK
<1>3. FrameInv => SlotsInFrame
  BY DEF TableInFrame, InFrame, SlotsInFrame, Nodes
<1> HIDE DEF FrameInv
<1> QED
  BY <1>1, <1>2, <1>3, PTL DEF Spec
-----------------------------------------------------------------------------
(* A node owns slots once.                                                  *)

DistinctAddrs(nodes) ==
    \A i, j \in 1 .. Len(nodes) : nodes[i].addr = nodes[j].addr => i = j

OnceIn(sched) ==
    \A g, h \in Groups :
      \A i \in 1 .. Len(sched[g].nodes), j \in 1 .. Len(sched[h].nodes) :
        sched[g].nodes[i].addr = sched[h].nodes[j].addr => g = h /\ i = j

\* Removing a node leaves no entry of it.
LEMMA RemovalDropsAddr ==
    ASSUME NEW list, ListOK(list), DistinctAddrs(list.nodes), NEW addr
    PROVE  /\ DistinctAddrs(smRemoveOneNode(list, addr).nodes)
           /\ \A i \in 1 .. Len(smRemoveOneNode(list, addr).nodes) :
                 /\ smRemoveOneNode(list, addr).nodes[i].addr # addr
                 /\ \E k \in 1 .. Len(list.nodes) :
                       smRemoveOneNode(list, addr).nodes[i].addr = list.nodes[k].addr
<1> DEFINE nodes == list.nodes
           pos   == PositionOf(list, addr)
           rest  == smRemoveOneNode(list, addr).nodes
<1>1. CASE ~ IsScheduledIn(list, addr)
  BY <1>1 DEF smRemoveOneNode, IsScheduledIn
<1>2. CASE IsScheduledIn(list, addr)
  <2>1. ASSUME NEW i \in 1 .. Len(rest)
        PROVE  \E k \in 1 .. Len(nodes) :
                  k = (IF i < pos THEN i ELSE i + 1) /\ rest[i] = nodes[k]
    BY <1>2, ListAfterRemoval
  <2>2. pos \in 1 .. Len(nodes) /\ nodes[pos].addr = addr
    BY <1>2, PositionOfScheduled DEF ListOK
  <2> HIDE DEF rest, pos
  <2>3. ASSUME NEW i \in 1 .. Len(rest)
        PROVE  rest[i].addr # addr /\ \E k \in 1 .. Len(nodes) : rest[i].addr = nodes[k].addr
    <3>1. PICK k \in 1 .. Len(nodes) : k = (IF i < pos THEN i ELSE i + 1) /\ rest[i] = nodes[k]
      BY <2>1
    <3>2. k # pos
      BY <2>2, <3>1
    <3> QED
      BY <2>2, <3>1, <3>2 DEF DistinctAddrs
  <2>4. DistinctAddrs(rest)
    <3> SUFFICES ASSUME NEW i \in 1 .. Len(rest), NEW j \in 1 .. Len(rest),
                        rest[i].addr = rest[j].addr
                 PROVE  i = j
      BY DEF DistinctAddrs
    <3>1. PICK k \in 1 .. Len(nodes) : k = (IF i < pos THEN i ELSE i + 1) /\ rest[i] = nodes[k]
      BY <2>1
    <3>2. PICK l \in 1 .. Len(nodes) : l = (IF j < pos THEN j ELSE j + 1) /\ rest[j] = nodes[l]
      BY <2>1
    <3>3. k = l
      BY <3>1, <3>2 DEF DistinctAddrs
    <3> QED
      BY <2>2, <3>1, <3>2, <3>3
  <2> QED
    BY <2>3, <2>4 DEF rest
<1> QED
  BY <1>1, <1>2

\* Scheduling a node that has no entry gives it at most one.
LEMMA SchedulingAddsAddr ==
    ASSUME NEW list, ListOK(list), DistinctAddrs(list.nodes), NEW addr \in Addr,
           \A i \in 1 .. Len(list.nodes) : list.nodes[i].addr # addr,
           NEW demand \in Nat, demand >= 1, NEW dist \in Nat
    PROVE  /\ DistinctAddrs(smScheduleOneNode(list, addr, demand, dist).nodes)
           /\ \A i \in 1 .. Len(smScheduleOneNode(list, addr, demand, dist).nodes) :
                 \/ smScheduleOneNode(list, addr, demand, dist).nodes[i].addr = addr
                 \/ \E k \in 1 .. Len(list.nodes) :
                       smScheduleOneNode(list, addr, demand, dist).nodes[i].addr
                          = list.nodes[k].addr
<1> DEFINE nodes == list.nodes
           after == smScheduleOneNode(list, addr, demand, dist)
           more  == after.nodes
<1>1. CASE ~ CanSchedule(list, demand)
  BY <1>1 DEF smScheduleOneNode
<1>2. CASE CanSchedule(list, demand)
  <2>1. PICK lsi \in Nat, k \in 0 .. Len(nodes), node \in SchNode :
           Inserted(list, after, addr, demand, lsi, k, node)
    BY <1>2, ListAfterScheduling
  <2>2. /\ node.addr = addr
        /\ \A i \in 1 .. Len(more) :
             \/ /\ i = k + 1 /\ more[i] = node
             \/ /\ i < k + 1 /\ i \in 1 .. Len(nodes)
                /\ more[i] = nodes[i]
             \/ /\ i > k + 1 /\ i - 1 \in 1 .. Len(nodes)
                /\ more[i] = nodes[i - 1]
    BY <2>1 DEF Inserted
  <2>3. \A i \in 1 .. Len(nodes) : nodes[i].addr # addr
    OBVIOUS
  <2>4. \A i, j \in 1 .. Len(nodes) : nodes[i].addr = nodes[j].addr => i = j
    BY DEF DistinctAddrs
  <2> HIDE DEF more, nodes, after
  <2>5. ASSUME NEW i \in 1 .. Len(more), NEW j \in 1 .. Len(more),
               more[i].addr = more[j].addr
        PROVE  i = j
    <3>1. CASE i = k + 1
      BY <2>2, <2>3, <2>5, <3>1
    <3>2. CASE i < k + 1
      <4>1. i \in 1 .. Len(nodes) /\ more[i] = nodes[i]
        BY <2>2, <3>2
      <4>2. j # k + 1
        BY <2>2, <2>3, <2>5, <4>1
      <4>3. CASE j < k + 1
        BY <2>2, <2>4, <2>5, <4>1, <4>3
      <4>4. CASE j > k + 1
        <5>1. j - 1 \in 1 .. Len(nodes) /\ more[j] = nodes[j - 1]
          BY <2>2, <4>4
        <5>2. i = j - 1
          BY <2>4, <2>5, <4>1, <5>1
        <5> QED
          BY <3>2, <4>4, <5>2
      <4> QED
        BY <4>2, <4>3, <4>4
    <3>3. CASE i > k + 1
      <4>1. i - 1 \in 1 .. Len(nodes) /\ more[i] = nodes[i - 1]
        BY <2>2, <3>3
      <4>2. j # k + 1
        BY <2>2, <2>3, <2>5, <4>1
      <4>3. CASE j < k + 1
        <5>1. j \in 1 .. Len(nodes) /\ more[j] = nodes[j]
          BY <2>2, <4>3
        <5>2. i - 1 = j
          BY <2>4, <2>5, <4>1, <5>1
        <5> QED
          BY <3>3, <4>3, <5>2
      <4>4. CASE j > k + 1
        <5>1. j - 1 \in 1 .. Len(nodes) /\ more[j] = nodes[j - 1]
          BY <2>2, <4>4
        <5>2. i - 1 = j - 1
          BY <2>4, <2>5, <4>1, <5>1
        <5> QED
          BY <5>2
      <4> QED
        BY <4>2, <4>3, <4>4
    <3> QED
      BY <3>1, <3>2, <3>3
  <2>6. ASSUME NEW i \in 1 .. Len(more)
        PROVE  more[i].addr = addr \/ \E l \in 1 .. Len(nodes) : more[i].addr = nodes[l].addr
    BY <2>2
  <2> QED
    BY <2>5, <2>6 DEF DistinctAddrs, more, nodes, after
<1> QED
  BY <1>1, <1>2

\* After the removal of a node no group has an entry of it.
LEMMA RemoveKeepsOnce ==
    ASSUME NEW sched, TableOK(sched), OnceIn(sched), NEW addr
    PROVE  /\ OnceIn(removeNodeFromSchedule(sched, addr))
           /\ \A g \in Groups :
                \A i \in 1 .. Len(removeNodeFromSchedule(sched, addr)[g].nodes) :
                   removeNodeFromSchedule(sched, addr)[g].nodes[i].addr # addr
<1> DEFINE rest == removeNodeFromSchedule(sched, addr)
<1>1. ASSUME NEW g \in Groups
      PROVE  /\ DistinctAddrs(rest[g].nodes)
             /\ \A i \in 1 .. Len(rest[g].nodes) :
                   /\ rest[g].nodes[i].addr # addr
                   /\ \E k \in 1 .. Len(sched[g].nodes) :
                         rest[g].nodes[i].addr = sched[g].nodes[k].addr
  <2>1. rest[g] = smRemoveOneNode(sched[g], addr)
    BY DEF removeNodeFromSchedule
  <2>2. ListOK(sched[g]) /\ DistinctAddrs(sched[g].nodes)
    BY DEF TableOK, OnceIn, DistinctAddrs
  <2> HIDE DEF rest
  <2> QED
    BY <2>1, <2>2, RemovalDropsAddr, SMTT(30)
<1> HIDE DEF rest
<1>2. OnceIn(rest)
  <2> SUFFICES ASSUME NEW g \in Groups, NEW h \in Groups,
                      NEW i \in 1 .. Len(rest[g].nodes), NEW j \in 1 .. Len(rest[h].nodes),
                      rest[g].nodes[i].addr = rest[h].nodes[j].addr
               PROVE  g = h /\ i = j
    BY DEF OnceIn
  <2>1. PICK k \in 1 .. Len(sched[g].nodes) : rest[g].nodes[i].addr = sched[g].nodes[k].addr
    BY <1>1
  <2>2. PICK l \in 1 .. Len(sched[h].nodes) : rest[h].nodes[j].addr = sched[h].nodes[l].addr
    BY <1>1
  <2>3. g = h
    <3>1. sched[g].nodes[k].addr = sched[h].nodes[l].addr
      BY <2>1, <2>2
    <3> QED
      BY <3>1 DEF OnceIn
  <2> QED
    BY <1>1, <2>3 DEF DistinctAddrs
<1> QED
  BY <1>1, <1>2 DEF rest

\* A node that is scheduled anew leaves its former slots.
LEMMA ScheduleKeepsOnce ==
    ASSUME NEW sched, TableOK(sched), OnceIn(sched), NEW addr \in Addr,
           NEW demand \in Demands, NEW dist \in Nat
    PROVE  OnceIn(scheduleNode(sched, addr, demand, dist))
<1> DEFINE rest   == removeNodeFromSchedule(sched, addr)
           chosen == getIndexOfLowestLoadSch(rest)
           after  == scheduleNode(sched, addr, demand, dist)
<1>1. demand \in Nat /\ demand >= 1
  BY SchedulerAssumption
<1>2. TableOK(rest)
  BY RemoveKeepsTableOK
<1>3. /\ OnceIn(rest)
      /\ \A g \in Groups : \A i \in 1 .. Len(rest[g].nodes) : rest[g].nodes[i].addr # addr
  BY RemoveKeepsOnce
<1>4. after = [rest EXCEPT ![chosen] = smScheduleOneNode(@, addr, demand, dist)]
  BY DEF scheduleNode
<1> HIDE DEF rest, chosen, after
<1>5. \A g \in Groups : after[g] = IF g = chosen
                                    THEN smScheduleOneNode(rest[g], addr, demand, dist)
                                    ELSE rest[g]
  BY <1>2, <1>4 DEF TableOK
<1>6. ASSUME NEW g \in Groups
      PROVE  /\ DistinctAddrs(after[g].nodes)
             /\ \A i \in 1 .. Len(after[g].nodes) :
                   \/ g = chosen /\ after[g].nodes[i].addr = addr
                   \/ \E k \in 1 .. Len(rest[g].nodes) :
                         after[g].nodes[i].addr = rest[g].nodes[k].addr
  <2>1. ListOK(rest[g]) /\ DistinctAddrs(rest[g].nodes)
    BY <1>2, <1>3 DEF TableOK, OnceIn, DistinctAddrs
  <2>2. CASE g = chosen
    <3>1. after[g] = smScheduleOneNode(rest[g], addr, demand, dist)
      BY <1>5, <2>2
    <3>2. \A i \in 1 .. Len(rest[g].nodes) : rest[g].nodes[i].addr # addr
      BY <1>3
    <3> QED
      BY <1>1, <2>1, <2>2, <3>1, <3>2, SchedulingAddsAddr, SMTT(30)
  <2>3. CASE g # chosen
    BY <1>5, <2>1, <2>3
  <2> QED
    BY <2>2, <2>3
<1>7. OnceIn(after)
  <2> SUFFICES ASSUME NEW g \in Groups, NEW h \in Groups,
                      NEW i \in 1 .. Len(after[g].nodes), NEW j \in 1 .. Len(after[h].nodes),
                      after[g].nodes[i].addr = after[h].nodes[j].addr
               PROVE  g = h /\ i = j
    BY DEF OnceIn
  <2>1. g = h
    <3>1. CASE after[g].nodes[i].addr = addr
      <4>1. ASSUME NEW f \in Groups, NEW k \in 1 .. Len(after[f].nodes), after[f].nodes[k].addr = addr
            PROVE  f = chosen
        <5>1. ~ \E l \in 1 .. Len(rest[f].nodes) : after[f].nodes[k].addr = rest[f].nodes[l].addr
          BY <1>3, <4>1
        <5> QED
          BY <1>6, <5>1
      <4> QED
        BY <3>1, <4>1
    <3>2. CASE after[g].nodes[i].addr # addr
      <4>1. PICK k \in 1 .. Len(rest[g].nodes) :
               after[g].nodes[i].addr = rest[g].nodes[k].addr
        BY <1>6, <3>2
      <4>2. PICK l \in 1 .. Len(rest[h].nodes) :
               after[h].nodes[j].addr = rest[h].nodes[l].addr
        BY <1>6, <3>2
      <4>3. rest[g].nodes[k].addr = rest[h].nodes[l].addr
        BY <4>1, <4>2
      <4> QED
        BY <1>3, <4>3 DEF OnceIn
    <3> QED
      BY <3>1, <3>2
  <2> QED
    BY <1>6, <2>1 DEF DistinctAddrs
<1> QED
  BY <1>7 DEF after

\* Announcing nodes changes no address.
LEMMA AnnounceKeepsOnce ==
    ASSUME TableOK(SCHEDULES), OnceIn(SCHEDULES), NEW S,
           \A g \in Groups : S[g] \subseteq 1 .. Len(Nodes(g)),
           SCHEDULES' = [g \in Groups |-> smNodesDistributed(SCHEDULES[g], S[g])]
    PROVE  OnceIn(SCHEDULES')
<1>1. ASSUME NEW g \in Groups
      PROVE  /\ Len(SCHEDULES'[g].nodes) = Len(SCHEDULES[g].nodes)
             /\ \A i \in 1 .. Len(SCHEDULES[g].nodes) :
                   SCHEDULES'[g].nodes[i].addr = SCHEDULES[g].nodes[i].addr
  <2> DEFINE list  == SCHEDULES[g]
             told(i) == IF i \in S[g] /\ IsPending(list.nodes[i])
                        THEN [list.nodes[i] EXCEPT !.nboSchDist = @ - 1] ELSE list.nodes[i]
             later == [i \in 1 .. Len(list.nodes) |-> told(i)]
  <2>1. list \in SchList /\ list.nodes \in Seq(SchNode) /\ Len(list.nodes) \in Nat
    BY LenProperties DEF TableOK, ListOK, SchList
  <2>2. SCHEDULES'[g].nodes = later
    <3>1. smNodesDistributed(list, S[g]).nodes = later
      BY <2>1 DEF smNodesDistributed, SchList
    <3> QED
      BY <3>1, SMTT(30)
  <2>3. ASSUME NEW i \in 1 .. Len(list.nodes)
        PROVE  told(i) \in SchNode /\ told(i).addr = list.nodes[i].addr
    <3>1. list.nodes[i] \in SchNode
      BY <2>1, ElementOfSeq
    <3> QED
      BY <3>1, SMTT(30) DEF SchNode, IsPending
  <2>4. later \in Seq(SchNode) /\ Len(later) = Len(list.nodes)
    <3>1. later \in [1 .. Len(list.nodes) -> SchNode]
      BY <2>3
    <3> QED
      BY <2>1, <3>1
  <2>5. \A i \in 1 .. Len(list.nodes) : later[i] = told(i)
    OBVIOUS
  <2> HIDE DEF later, told
  <2> QED
    BY <2>2, <2>3, <2>4, <2>5
<1> QED
  BY <1>1 DEF OnceIn

\* Empty schedules hold no node twice.
LEMMA EmptyOnce == OnceIn([g \in Groups |-> smInitSchedule])
<1>1. Len(smInitSchedule.nodes) = 0
  BY EmptySeq DEF smInitSchedule
<1>2. \A g \in Groups : [h \in Groups |-> smInitSchedule][g] = smInitSchedule
  OBVIOUS
<1> QED
  BY <1>1, <1>2 DEF OnceIn

\* One case for each operation on the table.
LEMMA NextKeepsOnce ==
    ASSUME IInv, OnceIn(SCHEDULES), [Next]_vars
    PROVE  OnceIn(SCHEDULES')
<1>1. ASSUME NEW a \in Addr, NEW d \in Demands, ScheduleNode(a, d)
      PROVE  OnceIn(SCHEDULES')
  <2>1. NboSchUpdate \in Nat
    BY SchedulerAssumption DEF NboSchUpdate
  <2> QED
    BY <1>1, <2>1, ScheduleKeepsOnce DEF ScheduleNode, IInv
<1>2. ASSUME NEW a \in Addr, RemoveNode(a)
      PROVE  OnceIn(SCHEDULES')
  BY <1>2, RemoveKeepsOnce DEF RemoveNode, IInv
<1>3. ASSUME SendSm
      PROVE  OnceIn(SCHEDULES')
  <2>1. CASE GroupsToDistribute = {}
    BY <1>3, <2>1 DEF SendSm
  <2>2. CASE GroupsToDistribute # {}
    <3> DEFINE S == [g \in Groups |->
                       IF g = SmGroup THEN SmWalk(g) \cap (1 .. Len(Nodes(g))) ELSE {}]
    <3>1. \A g \in Groups : S[g] \subseteq 1 .. Len(Nodes(g))
      OBVIOUS
    <3>2. Announce(S)
      BY <1>3, <2>2 DEF SendSm
    <3> HIDE DEF S
    <3>3. SCHEDULES' = [g \in Groups |-> smNodesDistributed(SCHEDULES[g], S[g])]
      BY <3>2 DEF Announce
    <3> QED
      BY <3>1, <3>3, AnnounceKeepsOnce DEF IInv
  <2> QED
    BY <2>1, <2>2
<1>4. ASSUME SendCm
      PROVE  OnceIn(SCHEDULES')
  <2> DEFINE S == [g \in Groups |-> UsiWalk(g)]
  <2>1. \A g \in Groups : S[g] \subseteq 1 .. Len(Nodes(g))
    BY DEF UsiWalk, Pending
  <2>2. Announce(S)
    BY <1>4 DEF SendCm
  <2> HIDE DEF S
  <2>3. SCHEDULES' = [g \in Groups |-> smNodesDistributed(SCHEDULES[g], S[g])]
    BY <2>2 DEF Announce
  <2> QED
    BY <2>1, <2>3, AnnounceKeepsOnce DEF IInv
<1>5. ASSUME StartSd
      PROVE  OnceIn(SCHEDULES')
  BY <1>5, EmptyOnce DEF StartSd
<1>6. ASSUME StartDc \/ UNCHANGED vars
      PROVE  OnceIn(SCHEDULES')
  BY <1>6 DEF StartDc, vars
<1> QED
  BY <1>1, <1>2, <1>3, <1>4, <1>5, <1>6 DEF Next

(* A node never owns slots twice, in one group or in two: schedule() takes  *)
(* the old slots back in every group before it looks for new ones.          *)
THEOREM OneScheduleEach == Spec => []ScheduledOnce
<1> DEFINE OnceInv == IInv /\ OnceIn(SCHEDULES)
<1>1. Init => OnceInv
  <2>1. Init => OnceIn(SCHEDULES)
    BY EmptyOnce DEF Init
  <2> QED
    BY <2>1, InitIInv
<1>2. OnceInv /\ [Next]_vars => OnceInv'
  BY NextKeepsIInv, NextKeepsOnce
<1>3. OnceInv => ScheduledOnce
  BY DEF OnceIn, ScheduledOnce, Nodes
<1> HIDE DEF OnceInv
<1> QED
  BY <1>1, <1>2, <1>3, PTL DEF Spec
-----------------------------------------------------------------------------
(* The counters of a list: owned slots and pending nodes.                   *)

\* The positions of a list whose node still has to be announced.
PendingIn(nodes) == {i \in 1 .. Len(nodes) : IsPending(nodes[i])}

\* A map that is one to one and onto keeps the number of elements.
LEMMA SameCardinality ==
    ASSUME NEW S, NEW T, IsFiniteSet(S), NEW f \in [S -> T],
           \A x, y \in S : f[x] = f[y] => x = y,
           \A t \in T : \E x \in S : f[x] = t
    PROVE  IsFiniteSet(T) /\ Cardinality(T) = Cardinality(S)
<1>1. f \in Bijection(S, T)
  BY DEF Bijection, Injection, Surjection, IsInjective
<1>2. ExistsBijection(S, T)
  BY <1>1 DEF ExistsBijection
<1> QED
  BY <1>2, FS_Bijection

\* Pending positions are finitely many.
LEMMA PendingFinite ==
    ASSUME NEW nodes \in Seq(SchNode)
    PROVE  /\ IsFiniteSet(PendingIn(nodes))
           /\ Cardinality(PendingIn(nodes)) \in Nat
           /\ \A i \in PendingIn(nodes) : i \in 1 .. Len(nodes)
<1>1. IsFiniteSet(1 .. Len(nodes))
  BY FS_Interval, LenProperties
<1>2. PendingIn(nodes) \in SUBSET (1 .. Len(nodes))
  BY DEF PendingIn
<1> QED
  BY <1>1, <1>2, FS_Subset, FS_CardinalityType

\* `more' is `nodes' with one entry put in at position p.
OneMore(nodes, more, p) ==
    /\ p \in 1 .. Len(more) /\ Len(more) = Len(nodes) + 1
    /\ \A i \in 1 .. Len(nodes) : i < p => more[i] = nodes[i]
    /\ \A i \in 1 .. Len(nodes) : i >= p => more[i + 1] = nodes[i]

\* The entry more counts when it is to be announced.
LEMMA PendingOneMore ==
    ASSUME NEW nodes \in Seq(SchNode), NEW more \in Seq(SchNode), NEW p,
           OneMore(nodes, more, p)
    PROVE  Cardinality(PendingIn(more)) = Cardinality(PendingIn(nodes))
                                            + (IF IsPending(more[p]) THEN 1 ELSE 0)
<1> DEFINE S == PendingIn(nodes)
           T == PendingIn(more) \ {p}
           f == [i \in S |-> IF i < p THEN i ELSE i + 1]
<1>1. Len(nodes) \in Nat /\ Len(more) \in Nat /\ p \in 1 .. Len(more)
  BY LenProperties DEF OneMore
<1>2. ASSUME NEW i \in S PROVE f[i] \in T
  <2>1. i \in 1 .. Len(nodes) /\ IsPending(nodes[i])
    BY DEF PendingIn
  <2>2. CASE i < p
    <3>1. more[i] = nodes[i] /\ i \in 1 .. Len(more)
      BY <1>1, <2>1, <2>2 DEF OneMore
    <3> QED
      BY <1>1, <2>1, <2>2, <3>1 DEF PendingIn
  <2>3. CASE i >= p
    <3>1. more[i + 1] = nodes[i] /\ i + 1 \in 1 .. Len(more) /\ i + 1 # p
      BY <1>1, <2>1, <2>3 DEF OneMore
    <3> QED
      BY <1>1, <2>1, <2>3, <3>1 DEF PendingIn
  <2> QED
    BY <1>1, <2>1, <2>2, <2>3
<1>3. f \in [S -> T]
  BY <1>2
<1>4. \A x, y \in S : f[x] = f[y] => x = y
  BY <1>1 DEF PendingIn
<1>5. ASSUME NEW t \in T PROVE \E x \in S : f[x] = t
  <2>1. t \in 1 .. Len(more) /\ IsPending(more[t]) /\ t # p
    BY DEF PendingIn
  <2>2. CASE t < p
    <3>1. t \in 1 .. Len(nodes) /\ more[t] = nodes[t]
      BY <1>1, <2>1, <2>2 DEF OneMore
    <3>2. t \in S
      BY <2>1, <3>1 DEF PendingIn
    <3> QED
      BY <2>2, <3>2
  <2>3. CASE t > p
    <3>1. t - 1 \in 1 .. Len(nodes) /\ t - 1 >= p /\ (t - 1) + 1 = t
      BY <1>1, <2>1, <2>3 DEF OneMore
    <3>2. more[t] = nodes[t - 1]
      BY <3>1 DEF OneMore
    <3>3. t - 1 \in S
      BY <2>1, <3>1, <3>2 DEF PendingIn
    <3>4. f[t - 1] = t
      BY <1>1, <3>1, <3>3
    <3> QED
      BY <3>3, <3>4
  <2> QED
    BY <1>1, <2>1, <2>2, <2>3
<1>6. /\ IsFiniteSet(S) /\ Cardinality(S) \in Nat
      /\ IsFiniteSet(PendingIn(more)) /\ Cardinality(PendingIn(more)) \in Nat
  BY PendingFinite
<1>7. p \in PendingIn(more) <=> IsPending(more[p])
  BY <1>1 DEF PendingIn
<1> HIDE DEF S, T, f
<1>8. Cardinality(T) = Cardinality(S)
  BY <1>3, <1>4, <1>5, <1>6, SameCardinality
<1>9. Cardinality(T) = IF p \in PendingIn(more) THEN Cardinality(PendingIn(more)) - 1
                                                ELSE Cardinality(PendingIn(more))
  BY <1>6, FS_RemoveElement DEF T
<1> QED
  BY <1>6, <1>7, <1>8, <1>9 DEF S

\* A list owns finitely many slots.
LEMMA OwnedFinite ==
    ASSUME NEW nodes \in Seq(SchNode), Ascending(nodes), Sized(nodes)
    PROVE  IsFiniteSet(OwnedSlots(nodes)) /\ Cardinality(OwnedSlots(nodes)) \in Nat
<1> DEFINE top == IF nodes = << >> THEN 0 ELSE LastLsi(nodes[Len(nodes)])
<1>1. Len(nodes) \in Nat /\ (nodes # << >> => Len(nodes) \in 1 .. Len(nodes))
  BY LenProperties, EmptySeq
<1>2. top \in Int
  BY <1>1, SchNodeFields
<1>3. ASSUME NEW i \in 1 .. Len(nodes)
      PROVE  nodes[i].startLSI .. LastLsi(nodes[i]) \subseteq 1 .. top
  <2>1. nodes # << >> /\ i <= Len(nodes)
    BY <1>1, EmptySeq
  <2>2. LastLsi(nodes[i]) <= LastLsi(nodes[Len(nodes)])
    BY <1>1, <2>1, StartsGrow
  <2>3. nodes[i].startLSI \in Nat /\ nodes[i].startLSI >= 1 /\ LastLsi(nodes[i]) \in Int
    BY SchNodeFields
  <2>4. top = LastLsi(nodes[Len(nodes)])
    BY <2>1
  <2> QED
    BY <1>2, <2>2, <2>3, <2>4
<1>4. OwnedSlots(nodes) \in SUBSET (1 .. top)
  BY <1>3 DEF OwnedSlots
<1> HIDE DEF top
<1>5. IsFiniteSet(1 .. top)
  BY <1>2, FS_Interval
<1> QED
  BY <1>4, <1>5, FS_Subset, FS_CardinalityType

\* The node more owns its demand in slots more.
LEMMA OwnedOneMore ==
    ASSUME NEW nodes \in Seq(SchNode), NEW more \in Seq(SchNode), NEW p,
           OneMore(nodes, more, p), Ascending(more), Sized(more)
    PROVE  /\ Ascending(nodes) /\ Sized(nodes)
           /\ Cardinality(OwnedSlots(more)) = Cardinality(OwnedSlots(nodes)) + more[p].slotDemand
<1> DEFINE moved(i) == IF i < p THEN i ELSE i + 1
           run == more[p].startLSI .. LastLsi(more[p])
<1>1. Len(nodes) \in Nat /\ Len(more) \in Nat /\ p \in 1 .. Len(more)
  BY LenProperties DEF OneMore
<1>2. ASSUME NEW i \in 1 .. Len(nodes)
      PROVE  moved(i) \in 1 .. Len(more) /\ moved(i) # p /\ more[moved(i)] = nodes[i]
  BY <1>1 DEF OneMore
<1>3. \A i, j \in 1 .. Len(nodes) : i < j => moved(i) < moved(j)
  BY <1>1
<1>4. ASSUME NEW t \in 1 .. Len(more), t # p
      PROVE  \E i \in 1 .. Len(nodes) : more[t] = nodes[i]
  <2>1. CASE t < p
    BY <1>1, <2>1 DEF OneMore
  <2>2. CASE t > p
    <3>1. t - 1 \in 1 .. Len(nodes) /\ t - 1 >= p /\ (t - 1) + 1 = t
      BY <1>1, <2>2 DEF OneMore
    <3> QED
      BY <3>1 DEF OneMore
  <2> QED
    BY <1>1, <1>4, <2>1, <2>2
<1> HIDE DEF moved
<1>5. Ascending(nodes)
  <2> SUFFICES ASSUME NEW i \in 1 .. Len(nodes), NEW j \in 1 .. Len(nodes), i < j
               PROVE  LastLsi(nodes[i]) < nodes[j].startLSI
    BY DEF Ascending
  <2>1. moved(i) < moved(j)
    BY <1>3
  <2> QED
    BY <1>2, <2>1 DEF Ascending
<1>6. Sized(nodes)
  BY <1>2 DEF Sized
<1>7. OwnedSlots(more) = OwnedSlots(nodes) \cup run
  <2>1. ASSUME NEW x \in OwnedSlots(more) PROVE x \in OwnedSlots(nodes) \cup run
    <3>1. PICK t \in 1 .. Len(more) : x \in more[t].startLSI .. LastLsi(more[t])
      BY DEF OwnedSlots
    <3>2. CASE t = p
      BY <3>1, <3>2
    <3>3. CASE t # p
      BY <1>4, <3>1, <3>3 DEF OwnedSlots
    <3> QED
      BY <3>2, <3>3
  <2>2. ASSUME NEW x \in OwnedSlots(nodes) PROVE x \in OwnedSlots(more)
    <3>1. PICK i \in 1 .. Len(nodes) : x \in nodes[i].startLSI .. LastLsi(nodes[i])
      BY DEF OwnedSlots
    <3> QED
      BY <1>2, <3>1 DEF OwnedSlots
  <2>3. run \subseteq OwnedSlots(more)
    BY <1>1 DEF OwnedSlots
  <2> QED
    BY <2>1, <2>2, <2>3
<1>8. OwnedSlots(nodes) \cap run = {}
  <2> SUFFICES ASSUME NEW x \in OwnedSlots(nodes), x \in run PROVE FALSE
    OBVIOUS
  <2>1. PICK i \in 1 .. Len(nodes) : x \in nodes[i].startLSI .. LastLsi(nodes[i])
    BY DEF OwnedSlots
  <2>2. PICK t \in 1 .. Len(more) : t # p /\ x \in more[t].startLSI .. LastLsi(more[t])
    BY <1>2, <2>1
  <2>3. LastLsi(more[t]) < more[p].startLSI \/ LastLsi(more[p]) < more[t].startLSI
    BY <1>1, <2>2 DEF Ascending
  <2>4. more[t].startLSI \in Int /\ LastLsi(more[t]) \in Int
    BY SchNodeFields
  <2>5. more[p].startLSI \in Int /\ LastLsi(more[p]) \in Int
    BY <1>1, SchNodeFields
  <2> QED
    BY <2>2, <2>3, <2>4, <2>5
<1>9. IsFiniteSet(run) /\ Cardinality(run) = more[p].slotDemand
  <2>1. /\ more[p].startLSI \in Nat /\ more[p].slotDemand \in Nat /\ more[p].slotDemand >= 1
        /\ LastLsi(more[p]) = more[p].startLSI + more[p].slotDemand - 1
    BY <1>1, SchNodeFields DEF Sized
  <2>2. LastLsi(more[p]) \in Int /\ more[p].startLSI <= LastLsi(more[p])
    BY <2>1
  <2>3. IsFiniteSet(run) /\ Cardinality(run) = LastLsi(more[p]) - more[p].startLSI + 1
    <3>1. PICK a \in Int : a = more[p].startLSI
      BY <2>1
    <3>2. PICK b \in Int : b = LastLsi(more[p])
      BY <2>2
    <3>3. IsFiniteSet(a .. b) /\ Cardinality(a .. b) = IF a > b THEN 0 ELSE b - a + 1
      BY FS_Interval
    <3>4. ~ (a > b)
      BY <2>2, <3>1, <3>2
    <3> QED
      BY <3>1, <3>2, <3>3, <3>4
  <2> QED
    BY <2>1, <2>3
<1> HIDE DEF run
<1>10. IsFiniteSet(OwnedSlots(nodes)) /\ Cardinality(OwnedSlots(nodes)) \in Nat
  BY <1>5, <1>6, OwnedFinite
<1>11. Cardinality(OwnedSlots(more)) = Cardinality(OwnedSlots(nodes)) + Cardinality(run) - 0
  BY <1>7, <1>8, <1>9, <1>10, FS_Union, FS_EmptySet
<1> QED
  BY <1>1, <1>5, <1>6, <1>9, <1>10, <1>11, SchNodeFields

\* A removal takes one entry out and subtracts it from the counters.
LEMMA RemovalTakesOne ==
    ASSUME NEW list, ListOK(list), NEW addr, IsScheduledIn(list, addr)
    PROVE  LET after == smRemoveOneNode(list, addr)
               p     == PositionOf(list, addr)
           IN  /\ OneMore(after.nodes, list.nodes, p)
               /\ list.nodes[p].addr = addr
               /\ list.nboAsgSlots = after.nboAsgSlots + list.nodes[p].slotDemand
               /\ list.nboDistReq = after.nboDistReq
                                       + (IF IsPending(list.nodes[p]) THEN 1 ELSE 0)
<1> DEFINE nodes == list.nodes
           p     == PositionOf(list, addr)
           rest  == RemoveAt(nodes, p)
           after == smRemoveOneNode(list, addr)
<1>1. /\ nodes \in Seq(SchNode) /\ Len(nodes) \in Nat
      /\ list.nboAsgSlots \in Int /\ list.nboDistReq \in Int
  BY LenProperties DEF ListOK, SchList
<1>2. p \in 1 .. Len(nodes) /\ nodes[p].addr = addr
  BY PositionOfScheduled DEF ListOK
<1>3. /\ rest \in Seq(SchNode)
      /\ Len(rest) = Len(nodes) - 1
      /\ \A i \in 1 .. Len(nodes) - 1 :
            rest[i] = IF i < p THEN nodes[i] ELSE nodes[i + 1]
  BY <1>1, <1>2, RemoveAtProperties
<1>4. nodes[p].slotDemand \in Nat
  BY <1>1, <1>2, SchNodeFields
<1>5. /\ after.nodes = rest
      /\ after.nboAsgSlots = list.nboAsgSlots - nodes[p].slotDemand
      /\ after.nboDistReq = IF IsPending(nodes[p]) THEN list.nboDistReq - 1 ELSE list.nboDistReq
  BY DEF smRemoveOneNode, IsPending
<1> HIDE DEF rest, p, after, nodes
<1>6. OneMore(rest, nodes, p)
  <2>1. p \in 1 .. Len(nodes) /\ Len(nodes) = Len(rest) + 1
    BY <1>1, <1>2, <1>3
  <2>2. \A i \in 1 .. Len(rest) : i < p => nodes[i] = rest[i]
    BY <1>1, <1>3
  <2>3. \A i \in 1 .. Len(rest) : i >= p => nodes[i + 1] = rest[i]
    BY <1>1, <1>2, <1>3
  <2> QED
    BY <2>1, <2>2, <2>3 DEF OneMore
<1>7. /\ list.nboAsgSlots = after.nboAsgSlots + nodes[p].slotDemand
      /\ list.nboDistReq = after.nboDistReq + (IF IsPending(nodes[p]) THEN 1 ELSE 0)
  BY <1>1, <1>4, <1>5
<1> QED
  BY <1>2, <1>5, <1>6, <1>7 DEF p, after, nodes

\* The node that addr, demand and dist make at its place in the new list.
EntryOf(node, addr, demand, dist) ==
    /\ node \in SchNode
    /\ node.addr = addr /\ node.slotDemand = demand /\ node.nboSchDist = dist

\* Scheduling puts one entry in and adds it to the counters.
LEMMA SchedulingPutsOne ==
    ASSUME NEW list, ListOK(list), NEW addr \in Addr,
           NEW demand \in Nat, demand >= 1, NEW dist \in Nat,
           CanSchedule(list, demand)
    PROVE  LET after == smScheduleOneNode(list, addr, demand, dist)
           IN  /\ after.nboAsgSlots = list.nboAsgSlots + demand
               /\ after.nboDistReq = list.nboDistReq + 1
               /\ \E p \in 1 .. Len(after.nodes) :
                     /\ OneMore(list.nodes, after.nodes, p)
                     /\ EntryOf(after.nodes[p], addr, demand, dist)
<1> DEFINE nodes == list.nodes
           lsi   == smAssignLsiToNode(nodes, demand)
           node  == [addr |-> addr, startLSI |-> lsi, slotDemand |-> demand,
                     nboSchDist |-> dist]
           more  == InsertAt(nodes, InsertPosition(nodes, lsi), node)
           after == smScheduleOneNode(list, addr, demand, dist)
<1>1. /\ nodes \in Seq(SchNode) /\ Len(nodes) \in Nat
      /\ Ascending(nodes) /\ Sized(nodes)
  BY LenProperties DEF ListOK, SchList
<1>2. lsi \in Nat /\ lsi >= 1 /\ \E k \in 0 .. Len(nodes) : FitsBehind(nodes, lsi, demand, k)
  <2>1. lsi # 0
    BY DEF CanSchedule
  <2> HIDE DEF nodes
  <2> QED
    BY <1>1, <2>1, AssignFits
<1>3. PICK k \in 0 .. Len(nodes) : FitsBehind(nodes, lsi, demand, k)
  BY <1>2
<1>4. /\ after.nodes = more
      /\ after.nboAsgSlots = list.nboAsgSlots + node.slotDemand
      /\ after.nboDistReq = list.nboDistReq + 1
  BY DEF smScheduleOneNode, smAddNodeToScheduleList
<1> HIDE DEF nodes, lsi, after
<1>5. EntryOf(node, addr, demand, dist) /\ node \in SchNode
  BY <1>2 DEF EntryOf, SchNode
<1> HIDE DEF node
<1>6. PICK p \in 1 .. Len(nodes) + 1 : p = k + 1 /\ p = InsertPosition(nodes, lsi)
  <2>1. InsertPosition(nodes, lsi) = k + 1
    BY <1>1, <1>2, <1>3, InsertPositionOfFit
  <2> QED
    BY <1>1, <2>1
<1>7. /\ more \in Seq(SchNode) /\ Len(more) = Len(nodes) + 1
      /\ \A i \in 1 .. Len(nodes) + 1 :
            more[i] = IF i < p THEN nodes[i]
                      ELSE IF i = p THEN node ELSE nodes[i - 1]
  <2>1. more = InsertAt(nodes, p, node)
    BY <1>6
  <2>2. /\ InsertAt(nodes, p, node) \in Seq(SchNode)
        /\ Len(InsertAt(nodes, p, node)) = Len(nodes) + 1
        /\ \A i \in 1 .. Len(nodes) + 1 :
              InsertAt(nodes, p, node)[i] = IF i < p THEN nodes[i]
                                            ELSE IF i = p THEN node ELSE nodes[i - 1]
    BY <1>1, <1>5, InsertAtProperties
  <2> HIDE DEF more
  <2> QED
    BY <2>1, <2>2
<1> HIDE DEF more
<1>8. OneMore(nodes, more, p) /\ more[p] = node
  <2>1. \A i \in 1 .. Len(nodes) : i < p => more[i] = nodes[i]
    BY <1>1, <1>7
  <2>2. \A i \in 1 .. Len(nodes) : i >= p => more[i + 1] = nodes[i]
    <3> SUFFICES ASSUME NEW i \in 1 .. Len(nodes), i >= p PROVE more[i + 1] = nodes[i]
      OBVIOUS
    <3>1. i + 1 \in 1 .. Len(nodes) + 1 /\ ~ (i + 1 < p) /\ i + 1 # p /\ (i + 1) - 1 = i
      BY <1>1
    <3> QED
      BY <1>7, <3>1
  <2>3. p \in 1 .. Len(more) /\ more[p] = node
    BY <1>1, <1>7
  <2> QED
    BY <1>7, <2>1, <2>2, <2>3 DEF OneMore
<1>9. p \in 1 .. Len(more)
  BY <1>8 DEF OneMore
<1>10. node.slotDemand = demand
  BY <1>5 DEF EntryOf
<1> QED
  BY <1>4, <1>5, <1>8, <1>9, <1>10 DEF after, nodes

\* What a distribution to the nodes at S leaves of the entries and counters.
Distributed(list, S, after) ==
    /\ Len(after.nodes) = Len(list.nodes)
    /\ \A i \in 1 .. Len(list.nodes) :
          /\ after.nodes[i].addr = list.nodes[i].addr
          /\ after.nodes[i].startLSI = list.nodes[i].startLSI
          /\ after.nodes[i].slotDemand = list.nodes[i].slotDemand
          /\ after.nodes[i].nboSchDist =
                IF i \in S /\ IsPending(list.nodes[i])
                THEN list.nodes[i].nboSchDist - 1 ELSE list.nodes[i].nboSchDist
    /\ after.nboAsgSlots = list.nboAsgSlots
    /\ after.nboDistReq = list.nboDistReq
                            - Cardinality({i \in S : list.nodes[i].nboSchDist = 1})

\* A distribution changes nothing but the numbers of announcements owed.
LEMMA DistributionChanges ==
    ASSUME NEW list, ListOK(list), NEW S, S \subseteq 1 .. Len(list.nodes)
    PROVE  Distributed(list, S, smNodesDistributed(list, S))
<1> DEFINE nodes == list.nodes
           told(i) == IF i \in S /\ IsPending(nodes[i])
                      THEN [nodes[i] EXCEPT !.nboSchDist = @ - 1] ELSE nodes[i]
           later == [i \in 1 .. Len(nodes) |-> told(i)]
           last  == {i \in S : nodes[i].nboSchDist = 1}
           after == smNodesDistributed(list, S)
<1>1. /\ nodes \in Seq(SchNode) /\ Len(nodes) \in Nat
      /\ list \in [nodes : Seq(SchNode), nboAsgSlots : Int, nboDistReq : Int]
  BY LenProperties DEF ListOK, SchList
<1>2. /\ after.nodes = later /\ after.nboAsgSlots = list.nboAsgSlots
      /\ after.nboDistReq = list.nboDistReq - Cardinality(last)
  <2> HIDE DEF last
  <2>1. after = [list EXCEPT !.nodes = later, !.nboDistReq = @ - Cardinality(last)]
    BY DEF smNodesDistributed, last
  <2> HIDE DEF later, after
  <2> QED
    BY <1>1, <2>1
<1>3. ASSUME NEW i \in 1 .. Len(nodes)
      PROVE  /\ told(i) \in SchNode
             /\ told(i).addr = nodes[i].addr
             /\ told(i).startLSI = nodes[i].startLSI
             /\ told(i).slotDemand = nodes[i].slotDemand
             /\ told(i).nboSchDist = IF i \in S /\ IsPending(nodes[i])
                                     THEN nodes[i].nboSchDist - 1 ELSE nodes[i].nboSchDist
  <2>1. nodes[i] \in SchNode
    BY <1>1, ElementOfSeq
  <2> QED
    BY <2>1 DEF SchNode, IsPending
<1>4. later \in Seq(SchNode) /\ Len(later) = Len(nodes)
  <2>1. later \in [1 .. Len(nodes) -> SchNode]
    BY <1>3
  <2> QED
    BY <1>1, <2>1
<1>5. \A i \in 1 .. Len(nodes) : later[i] = told(i)
  OBVIOUS
<1> HIDE DEF later, told, after, last
<1> QED
  BY <1>2, <1>3, <1>4, <1>5 DEF after, last, Distributed

\* The counters of a list agree with its nodes.
Counted(list) ==
    /\ list.nboAsgSlots = Cardinality(OwnedSlots(list.nodes))
    /\ list.nboDistReq = Cardinality(PendingIn(list.nodes))

\* Removing a node keeps the counters right.
LEMMA RemoveKeepsCounted ==
    ASSUME NEW list, ListOK(list), Counted(list), NEW addr
    PROVE  Counted(smRemoveOneNode(list, addr))
<1> DEFINE after == smRemoveOneNode(list, addr)
           p     == PositionOf(list, addr)
<1>1. CASE ~ IsScheduledIn(list, addr)
  BY <1>1 DEF smRemoveOneNode
<1>2. CASE IsScheduledIn(list, addr)
  <2>1. ListOK(after)
    BY RemoveKeepsListOK
  <2>2. /\ OneMore(after.nodes, list.nodes, p)
        /\ list.nboAsgSlots = after.nboAsgSlots + list.nodes[p].slotDemand
        /\ list.nboDistReq = after.nboDistReq + (IF IsPending(list.nodes[p]) THEN 1 ELSE 0)
    BY <1>2, RemovalTakesOne
  <2> HIDE DEF after, p
  <2>3. /\ list.nodes \in Seq(SchNode) /\ Ascending(list.nodes) /\ Sized(list.nodes)
        /\ after.nodes \in Seq(SchNode)
        /\ after.nboAsgSlots \in Int /\ after.nboDistReq \in Int
    BY <2>1 DEF ListOK, SchList
  <2>4. Cardinality(OwnedSlots(list.nodes))
          = Cardinality(OwnedSlots(after.nodes)) + list.nodes[p].slotDemand
    BY <2>2, <2>3, OwnedOneMore
  <2>5. Cardinality(PendingIn(list.nodes))
          = Cardinality(PendingIn(after.nodes)) + (IF IsPending(list.nodes[p]) THEN 1 ELSE 0)
    BY <2>2, <2>3, PendingOneMore
  <2>6. /\ Cardinality(OwnedSlots(after.nodes)) \in Nat
        /\ Cardinality(PendingIn(after.nodes)) \in Nat
    BY <2>1, <2>3, OwnedFinite, PendingFinite DEF ListOK
  <2>7. list.nodes[p].slotDemand \in Nat
    <3>1. p \in 1 .. Len(list.nodes)
      BY <2>2 DEF OneMore
    <3> QED
      BY <2>3, <3>1, SchNodeFields
  <2>8. after.nboAsgSlots = Cardinality(OwnedSlots(after.nodes))
    <3>1. Cardinality(OwnedSlots(after.nodes)) + list.nodes[p].slotDemand
            = after.nboAsgSlots + list.nodes[p].slotDemand
      BY <2>2, <2>4 DEF Counted
    <3> QED
      BY <2>3, <2>6, <2>7, <3>1
  <2>9. after.nboDistReq = Cardinality(PendingIn(after.nodes))
    <3>1. \E d \in {0, 1} : Cardinality(PendingIn(after.nodes)) + d = after.nboDistReq + d
      BY <2>2, <2>5 DEF Counted
    <3> QED
      BY <2>3, <2>6, <3>1
  <2> QED
    BY <2>8, <2>9 DEF Counted, after
<1> QED
  BY <1>1, <1>2

\* Scheduling a node that is to be announced keeps the counters right.
LEMMA ScheduleKeepsCounted ==
    ASSUME NEW list, ListOK(list), Counted(list), NEW addr \in Addr,
           NEW demand \in Nat, demand >= 1, NEW dist \in Nat \ {0}
    PROVE  Counted(smScheduleOneNode(list, addr, demand, dist))
<1> DEFINE after == smScheduleOneNode(list, addr, demand, dist)
<1>1. CASE ~ CanSchedule(list, demand)
  BY <1>1 DEF smScheduleOneNode
<1>2. CASE CanSchedule(list, demand)
  <2>1. ListOK(after)
    BY ScheduleKeepsListOK
  <2>2. /\ after.nboAsgSlots = list.nboAsgSlots + demand
        /\ after.nboDistReq = list.nboDistReq + 1
        /\ \E p \in 1 .. Len(after.nodes) :
              OneMore(list.nodes, after.nodes, p) /\ EntryOf(after.nodes[p], addr, demand, dist)
    BY <1>2, SchedulingPutsOne
  <2> HIDE DEF after
  <2>3. PICK p \in 1 .. Len(after.nodes) :
           OneMore(list.nodes, after.nodes, p) /\ EntryOf(after.nodes[p], addr, demand, dist)
    BY <2>2
  <2>4. /\ after.nodes \in Seq(SchNode) /\ Ascending(after.nodes) /\ Sized(after.nodes)
        /\ list.nodes \in Seq(SchNode)
    BY <2>1 DEF ListOK, SchList
  <2>5. Cardinality(OwnedSlots(after.nodes))
          = Cardinality(OwnedSlots(list.nodes)) + after.nodes[p].slotDemand
    BY <2>3, <2>4, OwnedOneMore
  <2>6. Cardinality(PendingIn(after.nodes))
          = Cardinality(PendingIn(list.nodes)) + (IF IsPending(after.nodes[p]) THEN 1 ELSE 0)
    BY <2>3, <2>4, PendingOneMore
  <2>7. after.nodes[p].slotDemand = demand /\ IsPending(after.nodes[p])
    BY <2>3 DEF EntryOf, IsPending
  <2> QED
    BY <2>2, <2>5, <2>6, <2>7 DEF Counted, after
<1> QED
  BY <1>1, <1>2

\* Announcing nodes keeps the counters right.
LEMMA DistributionKeepsCounted ==
    ASSUME NEW list, ListOK(list), Counted(list), NEW S, S \subseteq 1 .. Len(list.nodes)
    PROVE  Counted(smNodesDistributed(list, S))
<1> DEFINE nodes == list.nodes
           last  == {i \in S : nodes[i].nboSchDist = 1}
           after == smNodesDistributed(list, S)
           later == after.nodes
<1>1. /\ Len(later) = Len(nodes)
      /\ \A i \in 1 .. Len(nodes) :
            /\ later[i].startLSI = nodes[i].startLSI
            /\ later[i].slotDemand = nodes[i].slotDemand
            /\ later[i].nboSchDist = IF i \in S /\ IsPending(nodes[i])
                                     THEN nodes[i].nboSchDist - 1 ELSE nodes[i].nboSchDist
      /\ after.nboAsgSlots = list.nboAsgSlots
      /\ after.nboDistReq = list.nboDistReq - Cardinality(last)
  <2>1. Distributed(list, S, after)
    BY DistributionChanges
  <2> HIDE DEF after
  <2> QED
    BY <2>1 DEF Distributed
<1>2. nodes \in Seq(SchNode)
  BY DEF ListOK, SchList
<1> HIDE DEF last, after
<1>3. OwnedSlots(later) = OwnedSlots(nodes)
  BY <1>1 DEF OwnedSlots, LastLsi
<1>4. PendingIn(later) = PendingIn(nodes) \ last
  <2>1. ASSUME NEW i \in 1 .. Len(nodes)
        PROVE  i \in PendingIn(later) <=> i \in PendingIn(nodes) /\ i \notin last
    <3>1. nodes[i].nboSchDist \in Nat
      BY <1>2, SchNodeFields
    <3> QED
      BY <1>1, <3>1 DEF PendingIn, IsPending, last
  <2> QED
    BY <1>1, <2>1 DEF PendingIn
<1>5. last \subseteq PendingIn(nodes)
  <2>1. ASSUME NEW i \in last PROVE i \in PendingIn(nodes)
    <3>1. i \in 1 .. Len(nodes) /\ nodes[i].nboSchDist = 1
      BY DEF last
    <3> QED
      BY <3>1 DEF PendingIn, IsPending
  <2> QED
    BY <2>1
<1>6. Cardinality(PendingIn(nodes) \ last) = Cardinality(PendingIn(nodes)) - Cardinality(last)
  <2>1. /\ IsFiniteSet(PendingIn(nodes)) /\ Cardinality(PendingIn(nodes)) \in Nat
        /\ IsFiniteSet(last) /\ Cardinality(last) \in Nat
        /\ IsFiniteSet(PendingIn(nodes) \ last) /\ Cardinality(PendingIn(nodes) \ last) \in Nat
    <3>1. IsFiniteSet(PendingIn(nodes))
      BY <1>2, PendingFinite
    <3>2. last \in SUBSET PendingIn(nodes) /\ PendingIn(nodes) \ last \in SUBSET PendingIn(nodes)
      BY <1>5
    <3> QED
      BY <3>1, <3>2, FS_Subset, FS_CardinalityType
  <2>2. Cardinality((PendingIn(nodes) \ last) \cup last)
          = Cardinality(PendingIn(nodes) \ last) + Cardinality(last)
            - Cardinality((PendingIn(nodes) \ last) \cap last)
    BY <2>1, FS_Union
  <2>3. /\ (PendingIn(nodes) \ last) \cup last = PendingIn(nodes)
        /\ (PendingIn(nodes) \ last) \cap last = {}
    BY <1>5
  <2>4. Cardinality(PendingIn(nodes))
          = Cardinality(PendingIn(nodes) \ last) + Cardinality(last) - 0
    BY <2>2, <2>3, FS_EmptySet
  <2> QED
    BY <2>1, <2>4
<1> QED
  BY <1>1, <1>3, <1>4, <1>6 DEF Counted, after

-----------------------------------------------------------------------------
(* The entries of the table after each operation.                          *)

\* The entries of the longer list are the new one and those of the shorter.
LEMMA OneMoreEntries ==
    ASSUME NEW nodes \in Seq(SchNode), NEW more \in Seq(SchNode), NEW p,
           OneMore(nodes, more, p)
    PROVE  /\ \A t \in 1 .. Len(more) : t = p \/ \E i \in 1 .. Len(nodes) : more[t] = nodes[i]
           /\ \A i \in 1 .. Len(nodes) : \E t \in 1 .. Len(more) : t # p /\ more[t] = nodes[i]
<1>1. Len(nodes) \in Nat /\ Len(more) = Len(nodes) + 1 /\ p \in 1 .. Len(more)
  BY LenProperties DEF OneMore
<1>2. ASSUME NEW t \in 1 .. Len(more), t # p
      PROVE  \E i \in 1 .. Len(nodes) : more[t] = nodes[i]
  <2>1. CASE t < p
    BY <1>1, <2>1 DEF OneMore
  <2>2. CASE t > p
    <3>1. t - 1 \in 1 .. Len(nodes) /\ t - 1 >= p /\ (t - 1) + 1 = t
      BY <1>1, <2>2
    <3> QED
      BY <3>1 DEF OneMore
  <2> QED
    BY <1>1, <1>2, <2>1, <2>2
<1>3. ASSUME NEW i \in 1 .. Len(nodes)
      PROVE  \E t \in 1 .. Len(more) : t # p /\ more[t] = nodes[i]
  <2>1. CASE i < p
    BY <1>1, <2>1 DEF OneMore
  <2>2. CASE i >= p
    <3>1. i + 1 \in 1 .. Len(more) /\ i + 1 # p
      BY <1>1, <2>2
    <3> QED
      BY <2>2, <3>1 DEF OneMore
  <2> QED
    BY <1>1, <2>1, <2>2
<1> QED
  BY <1>2, <1>3

\* A removal leaves the entries of all other nodes.
LEMMA RemovalKeepsOthers ==
    ASSUME NEW list, ListOK(list), NEW addr,
           NEW k \in 1 .. Len(list.nodes), list.nodes[k].addr # addr
    PROVE  \E i \in 1 .. Len(smRemoveOneNode(list, addr).nodes) :
              smRemoveOneNode(list, addr).nodes[i] = list.nodes[k]
<1> DEFINE after == smRemoveOneNode(list, addr)
           p     == PositionOf(list, addr)
<1>1. CASE ~ IsScheduledIn(list, addr)
  BY <1>1 DEF smRemoveOneNode
<1>2. CASE IsScheduledIn(list, addr)
  <2>1. OneMore(after.nodes, list.nodes, p) /\ list.nodes[p].addr = addr
    BY <1>2, RemovalTakesOne
  <2>2. list.nodes \in Seq(SchNode) /\ after.nodes \in Seq(SchNode)
    BY RemoveKeepsListOK DEF ListOK, SchList
  <2> DEFINE old == list.nodes
             new == after.nodes
  <2>3. /\ old \in Seq(SchNode) /\ new \in Seq(SchNode) /\ OneMore(new, old, p)
        /\ k \in 1 .. Len(old) /\ k # p
    BY <2>1, <2>2
  <2> HIDE DEF after, p, old, new
  <2>4. \E i \in 1 .. Len(new) : old[k] = new[i]
    BY <2>3, OneMoreEntries
  <2> QED
    BY <2>4 DEF after, old, new
<1> QED
  BY <1>1, <1>2

\* A removal brings no entry of another node.
LEMMA RemovalAddsNone ==
    ASSUME NEW list, ListOK(list), NEW addr,
           NEW i \in 1 .. Len(smRemoveOneNode(list, addr).nodes)
    PROVE  \E k \in 1 .. Len(list.nodes) :
              smRemoveOneNode(list, addr).nodes[i] = list.nodes[k]
<1>1. CASE ~ IsScheduledIn(list, addr)
  BY <1>1 DEF smRemoveOneNode
<1>2. CASE IsScheduledIn(list, addr)
  BY <1>2, ListAfterRemoval
<1> QED
  BY <1>1, <1>2

\* Scheduling a node adds its entry, if any, and keeps all others.
LEMMA SchedulingEntries ==
    ASSUME NEW list, ListOK(list), NEW addr \in Addr,
           NEW demand \in Nat, demand >= 1, NEW dist \in Nat
    PROVE  LET after == smScheduleOneNode(list, addr, demand, dist)
           IN  /\ \A i \in 1 .. Len(after.nodes) :
                     \/ EntryOf(after.nodes[i], addr, demand, dist)
                     \/ \E k \in 1 .. Len(list.nodes) : after.nodes[i] = list.nodes[k]
               /\ \A k \in 1 .. Len(list.nodes) :
                     \E i \in 1 .. Len(after.nodes) : after.nodes[i] = list.nodes[k]
<1> DEFINE after == smScheduleOneNode(list, addr, demand, dist)
<1>1. CASE ~ CanSchedule(list, demand)
  BY <1>1 DEF smScheduleOneNode
<1>2. CASE CanSchedule(list, demand)
  <2>1. \E p \in 1 .. Len(after.nodes) :
           OneMore(list.nodes, after.nodes, p) /\ EntryOf(after.nodes[p], addr, demand, dist)
    BY <1>2, SchedulingPutsOne
  <2>2. after.nodes \in Seq(SchNode) /\ list.nodes \in Seq(SchNode)
    BY ScheduleKeepsListOK DEF ListOK, SchList
  <2> DEFINE old == list.nodes
             new == after.nodes
  <2>3. PICK p \in 1 .. Len(new) :
           OneMore(old, new, p) /\ EntryOf(new[p], addr, demand, dist)
    BY <2>1
  <2>4. old \in Seq(SchNode) /\ new \in Seq(SchNode)
    BY <2>2
  <2> HIDE DEF after, old, new
  <2>5. /\ \A t \in 1 .. Len(new) : t = p \/ \E i \in 1 .. Len(old) : new[t] = old[i]
        /\ \A i \in 1 .. Len(old) : \E t \in 1 .. Len(new) : t # p /\ new[t] = old[i]
    BY <2>3, <2>4, OneMoreEntries
  <2> QED
    BY <2>3, <2>5 DEF after, old, new
<1> QED
  BY <1>1, <1>2

\* The table after a node was scheduled: its own entry and all the others.
LEMMA EntriesAfterScheduling ==
    ASSUME NEW sched, TableOK(sched), OnceIn(sched), NEW addr \in Addr,
           NEW demand \in Demands, NEW dist \in Nat, NEW g \in Groups
    PROVE  LET before == sched[g].nodes
               after  == scheduleNode(sched, addr, demand, dist)[g].nodes
           IN  /\ \A i \in 1 .. Len(after) :
                     \/ EntryOf(after[i], addr, demand, dist)
                     \/ after[i].addr # addr /\ \E k \in 1 .. Len(before) : after[i] = before[k]
               /\ \A k \in 1 .. Len(before) :
                     before[k].addr # addr => \E i \in 1 .. Len(after) : after[i] = before[k]
<1> DEFINE rest   == removeNodeFromSchedule(sched, addr)
           chosen == getIndexOfLowestLoadSch(rest)
           after  == scheduleNode(sched, addr, demand, dist)
<1>1. demand \in Nat /\ demand >= 1
  BY SchedulerAssumption
<1>2. TableOK(rest) /\ ListOK(rest[g]) /\ ListOK(sched[g])
  BY RemoveKeepsTableOK DEF TableOK
<1>3. \A i \in 1 .. Len(rest[g].nodes) : rest[g].nodes[i].addr # addr
  BY RemoveKeepsOnce
<1>4. rest[g] = smRemoveOneNode(sched[g], addr)
  BY DEF removeNodeFromSchedule
<1>5. after = [rest EXCEPT ![chosen] = smScheduleOneNode(@, addr, demand, dist)]
  BY DEF scheduleNode
<1> HIDE DEF rest, chosen, after
<1>6. after[g] = IF g = chosen THEN smScheduleOneNode(rest[g], addr, demand, dist) ELSE rest[g]
  BY <1>2, <1>5 DEF TableOK
<1>7. ASSUME NEW k \in 1 .. Len(sched[g].nodes), sched[g].nodes[k].addr # addr
      PROVE  \E i \in 1 .. Len(rest[g].nodes) : rest[g].nodes[i] = sched[g].nodes[k]
  BY <1>2, <1>4, <1>7, RemovalKeepsOthers
<1>8. ASSUME NEW i \in 1 .. Len(rest[g].nodes)
      PROVE  \E k \in 1 .. Len(sched[g].nodes) : rest[g].nodes[i] = sched[g].nodes[k]
  <2>1. i \in 1 .. Len(smRemoveOneNode(sched[g], addr).nodes)
    BY <1>4
  <2>2. \E k \in 1 .. Len(sched[g].nodes) :
           smRemoveOneNode(sched[g], addr).nodes[i] = sched[g].nodes[k]
    BY <1>2, <2>1, RemovalAddsNone
  <2> QED
    BY <1>4, <2>2
<1>9. /\ \A i \in 1 .. Len(after[g].nodes) :
            \/ EntryOf(after[g].nodes[i], addr, demand, dist)
            \/ \E k \in 1 .. Len(rest[g].nodes) : after[g].nodes[i] = rest[g].nodes[k]
      /\ \A k \in 1 .. Len(rest[g].nodes) :
            \E i \in 1 .. Len(after[g].nodes) : after[g].nodes[i] = rest[g].nodes[k]
  <2>1. CASE g = chosen
    <3>1. after[g] = smScheduleOneNode(rest[g], addr, demand, dist)
      BY <1>6, <2>1
    <3> DEFINE list == rest[g]
    <3>2. ListOK(list)
      BY <1>2
    <3> HIDE DEF list
    <3>3. LET new == smScheduleOneNode(list, addr, demand, dist)
          IN  /\ \A i \in 1 .. Len(new.nodes) :
                    \/ EntryOf(new.nodes[i], addr, demand, dist)
                    \/ \E k \in 1 .. Len(list.nodes) : new.nodes[i] = list.nodes[k]
              /\ \A k \in 1 .. Len(list.nodes) :
                    \E i \in 1 .. Len(new.nodes) : new.nodes[i] = list.nodes[k]
      BY <1>1, <3>2, SchedulingEntries
    <3> QED
      BY <3>1, <3>3 DEF list
  <2>2. CASE g # chosen
    <3>1. after[g] = rest[g]
      BY <1>6, <2>2
    <3> QED
      BY <3>1
  <2> QED
    BY <2>1, <2>2
<1>10. ASSUME NEW i \in 1 .. Len(after[g].nodes)
       PROVE  \/ EntryOf(after[g].nodes[i], addr, demand, dist)
              \/ /\ after[g].nodes[i].addr # addr
                 /\ \E k \in 1 .. Len(sched[g].nodes) : after[g].nodes[i] = sched[g].nodes[k]
  <2>1. CASE EntryOf(after[g].nodes[i], addr, demand, dist)
    BY <2>1
  <2>2. CASE ~ EntryOf(after[g].nodes[i], addr, demand, dist)
    <3>1. PICK j \in 1 .. Len(rest[g].nodes) : after[g].nodes[i] = rest[g].nodes[j]
      BY <1>9, <2>2
    <3>2. PICK k \in 1 .. Len(sched[g].nodes) : rest[g].nodes[j] = sched[g].nodes[k]
      BY <1>8
    <3>3. rest[g].nodes[j].addr # addr
      BY <1>3
    <3> QED
      BY <3>1, <3>2, <3>3
  <2> QED
    BY <2>1, <2>2
<1>11. ASSUME NEW k \in 1 .. Len(sched[g].nodes), sched[g].nodes[k].addr # addr
       PROVE  \E i \in 1 .. Len(after[g].nodes) : after[g].nodes[i] = sched[g].nodes[k]
  <2>1. PICK j \in 1 .. Len(rest[g].nodes) : rest[g].nodes[j] = sched[g].nodes[k]
    BY <1>7, <1>11
  <2>2. PICK i \in 1 .. Len(after[g].nodes) : after[g].nodes[i] = rest[g].nodes[j]
    BY <1>9
  <2> QED
    BY <2>1, <2>2
<1> QED
  BY <1>10, <1>11 DEF after

\* The counters of every group agree with its list.
TableCounted(sched) == \A g \in Groups : Counted(sched[g])

\* Scheduling a node keeps the counters of all groups right.
LEMMA ScheduleKeepsTableCounted ==
    ASSUME NEW sched, TableOK(sched), TableCounted(sched), NEW addr \in Addr,
           NEW demand \in Demands, NEW dist \in Nat \ {0}
    PROVE  /\ TableCounted(removeNodeFromSchedule(sched, addr))
           /\ TableCounted(scheduleNode(sched, addr, demand, dist))
<1> DEFINE rest   == removeNodeFromSchedule(sched, addr)
           chosen == getIndexOfLowestLoadSch(rest)
           after  == scheduleNode(sched, addr, demand, dist)
<1>1. demand \in Nat /\ demand >= 1
  BY SchedulerAssumption
<1>2. TableOK(rest)
  BY RemoveKeepsTableOK
<1>3. ASSUME NEW g \in Groups PROVE Counted(rest[g])
  <2>1. rest[g] = smRemoveOneNode(sched[g], addr)
    BY DEF removeNodeFromSchedule
  <2>2. ListOK(sched[g]) /\ Counted(sched[g])
    BY DEF TableOK, TableCounted
  <2> HIDE DEF rest
  <2> QED
    BY <2>1, <2>2, RemoveKeepsCounted
<1>4. after = [rest EXCEPT ![chosen] = smScheduleOneNode(@, addr, demand, dist)]
  BY DEF scheduleNode
<1> HIDE DEF rest, chosen, after
<1>5. ASSUME NEW g \in Groups PROVE Counted(after[g])
  <2>1. ListOK(rest[g]) /\ Counted(rest[g])
    BY <1>2, <1>3 DEF TableOK
  <2>2. after[g] = IF g = chosen THEN smScheduleOneNode(rest[g], addr, demand, dist)
                                 ELSE rest[g]
    BY <1>2, <1>4 DEF TableOK
  <2>3. Counted(smScheduleOneNode(rest[g], addr, demand, dist))
    BY <1>1, <2>1, ScheduleKeepsCounted
  <2> QED
    BY <2>1, <2>2, <2>3
<1> QED
  BY <1>3, <1>5 DEF TableCounted, rest, after

-----------------------------------------------------------------------------
(* The order of announcements in the schedule distribution phase.           *)

\* Nodes are announced in the order of the list.
Rising(nodes) ==
    \A i, j \in 1 .. Len(nodes) : i < j => nodes[i].nboSchDist <= nodes[j].nboSchDist

\* Every node of the list is owed the same number of announcements.
AllOwed(nodes, dist) == \A i \in 1 .. Len(nodes) : nodes[i].nboSchDist = dist

\* In the schedule distribution phase the lists are announced from the front,
\* and as long as nodes are scheduled nothing has been announced.
SdInv(sched, ph, cnt) ==
    ph = "SD" => \A g \in Groups :
                    /\ Rising(sched[g].nodes)
                    /\ cnt = 0 => AllOwed(sched[g].nodes, NboSchUpdateSd)

\* Every node is owed what the history says.
OwedIs(sched, ow) ==
    \A g \in Groups : \A i \in 1 .. Len(sched[g].nodes) :
        sched[g].nodes[i].nboSchDist = ow[sched[g].nodes[i].addr]

\* The groups with a node to announce are those with a pending node.
LEMMA PendingIsCounted ==
    ASSUME NEW list, ListOK(list), Counted(list), list.nboDistReq > 0
    PROVE  /\ PendingIn(list.nodes) # {} /\ PendingIn(list.nodes) \subseteq Nat
           /\ Min(PendingIn(list.nodes)) \in PendingIn(list.nodes)
           /\ \A i \in PendingIn(list.nodes) : Min(PendingIn(list.nodes)) <= i
<1>1. list.nodes \in Seq(SchNode) /\ list.nboDistReq = Cardinality(PendingIn(list.nodes))
  BY DEF ListOK, SchList, Counted
<1>2. PendingIn(list.nodes) # {}
  <2>1. CASE PendingIn(list.nodes) = {}
    <3>1. list.nboDistReq = 0
      BY <1>1, <2>1, FS_EmptySet
    <3> QED
      BY <3>1
  <2> QED
    BY <2>1
<1>3. PendingIn(list.nodes) \subseteq Nat
  BY DEF PendingIn
<1> QED
  BY <1>2, <1>3, MinOfNats

\* In a rising list the pending nodes are the last ones.
LEMMA PendingAreLast ==
    ASSUME NEW list, ListOK(list), Counted(list), list.nboDistReq > 0, Rising(list.nodes)
    PROVE  /\ PendingIn(list.nodes) = Min(PendingIn(list.nodes)) .. Len(list.nodes)
           /\ list.nboDistReq = Len(list.nodes) - Min(PendingIn(list.nodes)) + 1
<1> DEFINE nodes == list.nodes
           first == Min(PendingIn(nodes))
<1>1. nodes \in Seq(SchNode) /\ Len(nodes) \in Nat
      /\ list.nboDistReq = Cardinality(PendingIn(nodes))
  BY LenProperties DEF ListOK, SchList, Counted
<1>2. first \in PendingIn(nodes) /\ \A i \in PendingIn(nodes) : first <= i
  BY PendingIsCounted
<1> HIDE DEF first
<1>3. first \in 1 .. Len(nodes) /\ nodes[first].nboSchDist > 0
  BY <1>2 DEF PendingIn, IsPending
<1>4. ASSUME NEW i \in 1 .. Len(nodes), i >= first
      PROVE  i \in PendingIn(nodes)
  <2>1. nodes[i].nboSchDist \in Nat /\ nodes[first].nboSchDist \in Nat
    BY <1>1, <1>3, SchNodeFields
  <2>2. nodes[first].nboSchDist <= nodes[i].nboSchDist
    <3>1. CASE i = first
      BY <2>1, <3>1
    <3>2. CASE first < i
      BY <1>3, <3>2 DEF Rising
    <3> QED
      BY <1>1, <1>3, <1>4, <3>1, <3>2
  <2> QED
    BY <1>3, <2>1, <2>2 DEF PendingIn, IsPending
<1>5. PendingIn(nodes) = first .. Len(nodes)
  <2>1. ASSUME NEW i \in PendingIn(nodes) PROVE i \in first .. Len(nodes)
    <3>1. i \in 1 .. Len(nodes) /\ first <= i
      BY <1>2 DEF PendingIn
    <3> QED
      BY <1>1, <1>3, <3>1
  <2>2. ASSUME NEW i \in first .. Len(nodes) PROVE i \in PendingIn(nodes)
    <3>1. i \in 1 .. Len(nodes) /\ i >= first
      BY <1>1, <1>3
    <3> QED
      BY <1>4, <3>1
  <2> QED
    BY <2>1, <2>2
<1>6. Cardinality(first .. Len(nodes)) = Len(nodes) - first + 1
  <2>1. first \in Int /\ Len(nodes) \in Int /\ ~ (first > Len(nodes))
    BY <1>1, <1>3
  <2>2. Cardinality(first .. Len(nodes))
          = IF first > Len(nodes) THEN 0 ELSE Len(nodes) - first + 1
    BY <2>1, FS_Interval
  <2> QED
    BY <2>1, <2>2
<1> QED
  BY <1>1, <1>5, <1>6 DEF first

\* The walk of a schedule message meets pending nodes only, from the first on.
LEMMA SmWalkOfRising ==
    ASSUME NEW g \in Groups, TableOK(SCHEDULES), TableCounted(SCHEDULES),
           SCHEDULES[g].nboDistReq > 0, Rising(Nodes(g))
    PROVE  /\ SmWalk(g) # {} /\ SmWalk(g) \subseteq Pending(g)
           /\ \E first, last \in 1 .. Len(Nodes(g)) :
                 /\ SmWalk(g) = first .. last
                 /\ Pending(g) = first .. Len(Nodes(g))
<1> DEFINE list  == SCHEDULES[g]
           first == Min(Pending(g))
           size  == MinOf(list.nboDistReq, MaxNodesInSm)
           last  == first + size - 1
<1>1. ListOK(list) /\ Counted(list) /\ list.nboDistReq > 0 /\ Rising(list.nodes)
      /\ Len(list.nodes) \in Nat
  BY LenProperties DEF TableOK, TableCounted, Nodes, ListOK, SchList
<1>2. Pending(g) = PendingIn(list.nodes)
  BY DEF Pending, PendingIn, Nodes
<1>3. /\ Pending(g) = first .. Len(list.nodes) /\ Pending(g) # {} /\ first \in Pending(g)
      /\ list.nboDistReq = Len(list.nodes) - first + 1
  BY <1>1, <1>2, PendingAreLast, PendingIsCounted
<1>4. first \in 1 .. Len(list.nodes)
  BY <1>3 DEF Pending, Nodes
<1>5. SmWalk(g) = first .. last
  BY <1>3 DEF SmWalk
<1> HIDE DEF first
<1>6. MaxNodesInSm \in Nat /\ MaxNodesInSm >= 1
  BY SchedulerAssumption
<1>7. size \in Nat /\ size >= 1 /\ size <= Len(list.nodes) - first + 1
  BY <1>1, <1>3, <1>4, <1>6 DEF MinOf
<1> HIDE DEF size
<1>8. last \in 1 .. Len(list.nodes) /\ first <= last
  BY <1>1, <1>4, <1>7
<1> HIDE DEF last
<1>9. first .. last # {} /\ first .. last \subseteq first .. Len(list.nodes)
  BY <1>1, <1>4, <1>8
<1> QED
  BY <1>3, <1>4, <1>5, <1>8, <1>9 DEF Nodes

\* A list stays rising when its first pending nodes are announced.
LEMMA AnnounceKeepsRising ==
    ASSUME NEW list, ListOK(list), Rising(list.nodes), NEW after,
           NEW first \in 1 .. Len(list.nodes), NEW last \in 1 .. Len(list.nodes),
           PendingIn(list.nodes) = first .. Len(list.nodes),
           Distributed(list, first .. last, after)
    PROVE  Rising(after.nodes)
<1> DEFINE nodes == list.nodes
           later == after.nodes
<1>1. nodes \in Seq(SchNode) /\ Len(nodes) \in Nat
  BY LenProperties DEF ListOK, SchList
<1>2. /\ Len(later) = Len(nodes)
      /\ \A i \in 1 .. Len(nodes) :
            later[i].nboSchDist = IF i \in first .. last /\ IsPending(nodes[i])
                                  THEN nodes[i].nboSchDist - 1 ELSE nodes[i].nboSchDist
  BY DEF Distributed
<1>3. ASSUME NEW i \in 1 .. Len(nodes)
      PROVE  IsPending(nodes[i]) <=> i >= first
  <2>1. IsPending(nodes[i]) <=> i \in first .. Len(nodes)
    BY DEF PendingIn
  <2> QED
    BY <1>1, <2>1
<1> HIDE DEF nodes, later
<1> SUFFICES ASSUME NEW i \in 1 .. Len(nodes), NEW j \in 1 .. Len(nodes), i < j
             PROVE  later[i].nboSchDist <= later[j].nboSchDist
  BY <1>2 DEF Rising, later
<1> DEFINE a == nodes[i].nboSchDist
           b == nodes[j].nboSchDist
<1>4. a \in Nat /\ b \in Nat /\ a <= b
  BY <1>1, SchNodeFields DEF Rising, nodes
<1>5. (a > 0 <=> i >= first) /\ (b > 0 <=> j >= first)
  BY <1>3 DEF IsPending
<1>6. /\ later[i].nboSchDist = IF i \in first .. last /\ a > 0 THEN a - 1 ELSE a
      /\ later[j].nboSchDist = IF j \in first .. last /\ b > 0 THEN b - 1 ELSE b
  BY <1>2 DEF IsPending
<1> HIDE DEF a, b
<1> QED
  BY <1>1, <1>4, <1>5, <1>6

\* What an announcement of pending nodes does to the numbers owed.
LEMMA AnnounceKeepsOwed ==
    ASSUME IInv, OnceIn(SCHEDULES), OwedIs(SCHEDULES, owed), NEW S,
           \A g \in Groups : S[g] \subseteq Pending(g), Announce(S)
    PROVE  OwedIs(SCHEDULES', owed')
<1>1. ASSUME NEW g \in Groups
      PROVE  Distributed(SCHEDULES[g], S[g], SCHEDULES'[g])
  <2>1. SCHEDULES'[g] = smNodesDistributed(SCHEDULES[g], S[g])
    BY DEF Announce
  <2>2. ListOK(SCHEDULES[g]) /\ S[g] \subseteq 1 .. Len(SCHEDULES[g].nodes)
    BY DEF IInv, TableOK, Pending, Nodes
  <2> QED
    BY <2>1, <2>2, DistributionChanges
<1> SUFFICES ASSUME NEW g \in Groups, NEW i \in 1 .. Len(SCHEDULES'[g].nodes)
             PROVE  SCHEDULES'[g].nodes[i].nboSchDist = owed'[SCHEDULES'[g].nodes[i].addr]
  BY DEF OwedIs
<1> DEFINE n == SCHEDULES[g].nodes[i]
           m == SCHEDULES'[g].nodes[i]
<1>2. /\ i \in 1 .. Len(SCHEDULES[g].nodes) /\ m.addr = n.addr
      /\ m.nboSchDist = IF i \in S[g] /\ IsPending(n) THEN n.nboSchDist - 1 ELSE n.nboSchDist
  BY <1>1 DEF Distributed
<1>3. n.addr \in Addr /\ n.nboSchDist = owed[n.addr]
  <2>1. SCHEDULES[g].nodes \in Seq(SchNode)
    BY DEF IInv, TableOK, ListOK, SchList
  <2> QED
    BY <1>2, <2>1, SchNodeFields DEF OwedIs
<1>4. owed'[n.addr] = IF \E h \in Groups : \E j \in S[h] : Nodes(h)[j].addr = n.addr
                      THEN owed[n.addr] - 1 ELSE owed[n.addr]
  BY <1>3 DEF Announce
<1>5. CASE i \in S[g]
  <2>1. IsPending(n)
    BY <1>5 DEF Pending, Nodes
  <2>2. owed'[n.addr] = owed[n.addr] - 1
    BY <1>4, <1>5 DEF Nodes
  <2> QED
    BY <1>2, <1>3, <1>5, <2>1, <2>2
<1>6. CASE i \notin S[g]
  <2>1. ASSUME NEW h \in Groups, NEW j \in S[h], Nodes(h)[j].addr = n.addr
        PROVE  FALSE
    <3>1. j \in 1 .. Len(SCHEDULES[h].nodes) /\ SCHEDULES[h].nodes[j].addr = n.addr
      BY <2>1 DEF Pending, Nodes
    <3>2. h = g /\ j = i
      BY <1>2, <3>1 DEF OnceIn
    <3> QED
      BY <1>6, <3>2
  <2>2. owed'[n.addr] = owed[n.addr]
    BY <1>4, <2>1
  <2> QED
    BY <1>2, <1>3, <1>6, <2>2
<1> QED
  BY <1>5, <1>6

-----------------------------------------------------------------------------
(* The table is sound.                                                      *)

SoundInv ==
    /\ IInv /\ OnceIn(SCHEDULES)
    /\ TableCounted(SCHEDULES)
    /\ SdInv(SCHEDULES, phase, sch1Cnt)
    /\ OwedIs(SCHEDULES, owed)

\* The group of a schedule message has a node to announce.
LEMMA SmGroupDistributes ==
    ASSUME GroupsToDistribute # {}
    PROVE  SmGroup \in Groups /\ SCHEDULES[SmGroup].nboDistReq > 0
<1>1. GroupsToDistribute \subseteq Nat
  BY SchedulerAssumption DEF GroupsToDistribute, Groups
<1>2. SmGroup \in GroupsToDistribute
  BY <1>1, MinOfNats DEF SmGroup
<1> QED
  BY <1>2 DEF GroupsToDistribute

\* Empty lists are counted, and nobody is owed anything.
LEMMA EmptySound ==
    ASSUME NEW sched, sched = [g \in Groups |-> smInitSchedule], NEW ph, NEW cnt, NEW ow
    PROVE  TableCounted(sched) /\ SdInv(sched, ph, cnt) /\ OwedIs(sched, ow)
<1>1. ASSUME NEW g \in Groups
      PROVE  /\ Len(sched[g].nodes) = 0 /\ sched[g].nboAsgSlots = 0 /\ sched[g].nboDistReq = 0
  BY EmptySeq DEF smInitSchedule
<1>2. TableCounted(sched)
  <2> SUFFICES ASSUME NEW g \in Groups PROVE Counted(sched[g])
    BY DEF TableCounted
  <2>1. OwnedSlots(sched[g].nodes) = {} /\ PendingIn(sched[g].nodes) = {}
    BY <1>1 DEF OwnedSlots, PendingIn
  <2> QED
    BY <1>1, <2>1, FS_EmptySet DEF Counted
<1> QED
  BY <1>1, <1>2 DEF SdInv, OwedIs, Rising, AllOwed

\* Announcements keep the counters of all groups right.
LEMMA AnnounceKeepsCounted ==
    ASSUME IInv, TableCounted(SCHEDULES), NEW S,
           \A g \in Groups : S[g] \subseteq Pending(g), Announce(S)
    PROVE  TableCounted(SCHEDULES')
<1> SUFFICES ASSUME NEW g \in Groups PROVE Counted(SCHEDULES'[g])
  BY DEF TableCounted
<1>1. SCHEDULES'[g] = smNodesDistributed(SCHEDULES[g], S[g])
  BY DEF Announce
<1>2. /\ ListOK(SCHEDULES[g]) /\ Counted(SCHEDULES[g])
      /\ S[g] \subseteq 1 .. Len(SCHEDULES[g].nodes)
  BY DEF IInv, TableOK, TableCounted, Pending, Nodes
<1> QED
  BY <1>1, <1>2, DistributionKeepsCounted

\* Scheduling a node.
LEMMA ScheduleNodeKeepsSound ==
    ASSUME SoundInv, NEW a \in Addr, NEW d \in Demands, ScheduleNode(a, d)
    PROVE  /\ TableCounted(SCHEDULES')
           /\ SdInv(SCHEDULES', phase', sch1Cnt')
           /\ OwedIs(SCHEDULES', owed')
<1> DEFINE dist  == NboSchUpdate
           after == scheduleNode(SCHEDULES, a, d, dist)
<1>1. TableOK(SCHEDULES) /\ OnceIn(SCHEDULES) /\ TableCounted(SCHEDULES)
  BY DEF SoundInv, IInv
<1>2. dist \in Nat \ {0} /\ (phase = "SD" => dist = NboSchUpdateSd)
  BY SchedulerAssumption DEF NboSchUpdate
<1>3. SCHEDULES' = after
  BY DEF ScheduleNode
<1> HIDE DEF dist
<1>4. ASSUME NEW g \in Groups, NEW i \in 1 .. Len(after[g].nodes)
      PROVE  \/ EntryOf(after[g].nodes[i], a, d, dist)
             \/ /\ after[g].nodes[i].addr # a
                /\ \E k \in 1 .. Len(SCHEDULES[g].nodes) :
                      after[g].nodes[i] = SCHEDULES[g].nodes[k]
  BY <1>1, <1>2, EntriesAfterScheduling
<1>5. TableCounted(after)
  BY <1>1, <1>2, ScheduleKeepsTableCounted
<1> HIDE DEF after
<1>6. SdInv(SCHEDULES', phase', sch1Cnt')
  <2> SUFFICES ASSUME phase' = "SD", NEW g \in Groups
               PROVE  AllOwed(after[g].nodes, NboSchUpdateSd) /\ Rising(after[g].nodes)
    BY <1>3 DEF SdInv
  <2>1. phase = "SD" /\ sch1Cnt = 0
    BY DEF ScheduleNode
  <2>2. AllOwed(SCHEDULES[g].nodes, NboSchUpdateSd)
    BY <2>1 DEF SoundInv, SdInv
  <2>3. ASSUME NEW i \in 1 .. Len(after[g].nodes)
        PROVE  after[g].nodes[i].nboSchDist = NboSchUpdateSd
    <3>1. CASE EntryOf(after[g].nodes[i], a, d, dist)
      BY <1>2, <2>1, <3>1 DEF EntryOf
    <3>2. CASE ~ EntryOf(after[g].nodes[i], a, d, dist)
      <4>1. PICK k \in 1 .. Len(SCHEDULES[g].nodes) : after[g].nodes[i] = SCHEDULES[g].nodes[k]
        BY <1>4, <3>2
      <4> QED
        BY <2>2, <4>1 DEF AllOwed
    <3> QED
      BY <3>1, <3>2
  <2>4. NboSchUpdateSd \in Nat
    BY SchedulerAssumption
  <2> QED
    BY <2>3, <2>4 DEF AllOwed, Rising
<1>7. OwedIs(SCHEDULES', owed')
  <2> SUFFICES ASSUME NEW g \in Groups, NEW i \in 1 .. Len(after[g].nodes)
               PROVE  after[g].nodes[i].nboSchDist = owed'[after[g].nodes[i].addr]
    BY <1>3 DEF OwedIs
  <2>1. owed \in [Addr -> Int]
    BY DEF SoundInv, IInv, TypeOK
  <2>2. owed' = [owed EXCEPT ![a] = IF IsScheduled(SCHEDULES', a) THEN dist ELSE 0]
    BY DEF ScheduleNode, dist
  <2>3. CASE EntryOf(after[g].nodes[i], a, d, dist)
    <3>1. after[g].nodes[i].addr = a /\ after[g].nodes[i].nboSchDist = dist
      BY <2>3 DEF EntryOf
    <3>2. IsScheduled(SCHEDULES', a)
      BY <1>3, <3>1 DEF IsScheduled, IsScheduledIn
    <3> QED
      BY <2>1, <2>2, <3>1, <3>2
  <2>4. CASE ~ EntryOf(after[g].nodes[i], a, d, dist)
    <3>1. PICK k \in 1 .. Len(SCHEDULES[g].nodes) : after[g].nodes[i] = SCHEDULES[g].nodes[k]
      BY <1>4, <2>4
    <3>2. SCHEDULES[g].nodes[k].addr # a
      BY <1>4, <2>4, <3>1
    <3>3. SCHEDULES[g].nodes[k].nboSchDist = owed[SCHEDULES[g].nodes[k].addr]
      BY DEF SoundInv, OwedIs
    <3>4. SCHEDULES[g].nodes[k].addr \in Addr
      <4>1. SCHEDULES[g].nodes \in Seq(SchNode)
        BY <1>1 DEF TableOK, ListOK, SchList
      <4> QED
        BY <4>1, SchNodeFields
    <3> QED
      BY <2>1, <2>2, <3>1, <3>2, <3>3, <3>4
  <2> QED
    BY <2>3, <2>4
<1> QED
  BY <1>3, <1>5, <1>6, <1>7

\* Removing a node, which happens in data collection only.
LEMMA RemoveNodeKeepsSound ==
    ASSUME SoundInv, NEW a \in Addr, RemoveNode(a)
    PROVE  /\ TableCounted(SCHEDULES')
           /\ SdInv(SCHEDULES', phase', sch1Cnt')
           /\ OwedIs(SCHEDULES', owed')
<1> DEFINE after == removeNodeFromSchedule(SCHEDULES, a)
<1>1. TableOK(SCHEDULES) /\ OnceIn(SCHEDULES) /\ TableCounted(SCHEDULES)
  BY DEF SoundInv, IInv
<1>2. SCHEDULES' = after /\ phase' = "DC"
  BY DEF RemoveNode
<1>3. \A g \in Groups : after[g] = smRemoveOneNode(SCHEDULES[g], a)
  BY DEF removeNodeFromSchedule
<1>4. \A g \in Groups : \A i \in 1 .. Len(after[g].nodes) : after[g].nodes[i].addr # a
  BY <1>1, RemoveKeepsOnce
<1> HIDE DEF after
<1>5. TableCounted(SCHEDULES')
  <2> SUFFICES ASSUME NEW g \in Groups PROVE Counted(smRemoveOneNode(SCHEDULES[g], a))
    BY <1>2, <1>3 DEF TableCounted
  <2> QED
    BY <1>1, RemoveKeepsCounted DEF TableOK, TableCounted
<1>6. OwedIs(SCHEDULES', owed')
  <2> SUFFICES ASSUME NEW g \in Groups, NEW i \in 1 .. Len(after[g].nodes)
               PROVE  after[g].nodes[i].nboSchDist = owed'[after[g].nodes[i].addr]
    BY <1>2 DEF OwedIs
  <2>1. \E k \in 1 .. Len(SCHEDULES[g].nodes) : after[g].nodes[i] = SCHEDULES[g].nodes[k]
    <3>1. i \in 1 .. Len(smRemoveOneNode(SCHEDULES[g], a).nodes) /\ ListOK(SCHEDULES[g])
      BY <1>1, <1>3 DEF TableOK
    <3>2. \E k \in 1 .. Len(SCHEDULES[g].nodes) :
             smRemoveOneNode(SCHEDULES[g], a).nodes[i] = SCHEDULES[g].nodes[k]
      BY <3>1, RemovalAddsNone
    <3> QED
      BY <1>3, <3>2
  <2>2. PICK k \in 1 .. Len(SCHEDULES[g].nodes) : after[g].nodes[i] = SCHEDULES[g].nodes[k]
    BY <2>1
  <2>3. owed \in [Addr -> Int] /\ owed' = [owed EXCEPT ![a] = 0]
    BY DEF RemoveNode, SoundInv, IInv, TypeOK
  <2>4. SCHEDULES[g].nodes[k].nboSchDist = owed[SCHEDULES[g].nodes[k].addr]
    BY DEF SoundInv, OwedIs
  <2>5. SCHEDULES[g].nodes[k].addr # a
    BY <1>4, <2>2
  <2> QED
    BY <2>2, <2>3, <2>4, <2>5
<1> QED
  BY <1>2, <1>5, <1>6 DEF SdInv

\* Sending a schedule message.
LEMMA SendSmKeepsSound ==
    ASSUME SoundInv, SendSm
    PROVE  /\ TableCounted(SCHEDULES')
           /\ SdInv(SCHEDULES', phase', sch1Cnt')
           /\ OwedIs(SCHEDULES', owed')
<1>1. /\ phase = "SD" /\ phase' = "SD" /\ sch1Cnt' # 0
      /\ IInv /\ TableOK(SCHEDULES) /\ TableCounted(SCHEDULES) /\ OnceIn(SCHEDULES)
      /\ OwedIs(SCHEDULES, owed)
      /\ \A g \in Groups : Rising(SCHEDULES[g].nodes)
  <2>1. sch1Cnt \in Nat /\ sch1Cnt' = sch1Cnt + 1
    BY SchedulerAssumption DEF SoundInv, IInv, TypeOK, SendSm
  <2>2. sch1Cnt' # 0
    BY <2>1
  <2> QED
    BY <2>2 DEF SoundInv, IInv, SdInv, SendSm
<1>2. CASE GroupsToDistribute = {}
  <2>1. SCHEDULES' = SCHEDULES /\ owed' = owed
    BY <1>2 DEF SendSm
  <2> QED
    BY <1>1, <2>1 DEF SdInv, OwedIs, TableCounted
<1>3. CASE GroupsToDistribute # {}
  <2> DEFINE S == [g \in Groups |->
                     IF g = SmGroup THEN SmWalk(g) \cap (1 .. Len(Nodes(g))) ELSE {}]
  <2>1. SmGroup \in Groups /\ SCHEDULES[SmGroup].nboDistReq > 0
    BY <1>3, SmGroupDistributes
  <2>2. /\ SmWalk(SmGroup) \subseteq Pending(SmGroup)
        /\ \E first, last \in 1 .. Len(Nodes(SmGroup)) :
              /\ SmWalk(SmGroup) = first .. last
              /\ Pending(SmGroup) = first .. Len(Nodes(SmGroup))
    BY <1>1, <2>1, SmWalkOfRising DEF Nodes
  <2>3. Announce(S)
    BY <1>3 DEF SendSm
  <2>4. \A g \in Groups : S[g] = IF g = SmGroup THEN SmWalk(g) ELSE {}
    BY <2>2 DEF Pending
  <2> HIDE DEF S
  <2>5. \A g \in Groups : S[g] \subseteq Pending(g)
    BY <2>2, <2>4
  <2>6. TableCounted(SCHEDULES') /\ OwedIs(SCHEDULES', owed')
    BY <1>1, <2>3, <2>5, AnnounceKeepsCounted, AnnounceKeepsOwed
  <2>7. ASSUME NEW g \in Groups PROVE Rising(SCHEDULES'[g].nodes)
    <3>1. ListOK(SCHEDULES[g]) /\ S[g] \subseteq 1 .. Len(SCHEDULES[g].nodes)
      BY <1>1, <2>5 DEF TableOK, Pending, Nodes
    <3>2. Distributed(SCHEDULES[g], S[g], SCHEDULES'[g])
      <4>1. SCHEDULES'[g] = smNodesDistributed(SCHEDULES[g], S[g])
        BY <2>3 DEF Announce
      <4> QED
        BY <3>1, <4>1, DistributionChanges
    <3>3. CASE g = SmGroup
      <4>1. PICK first \in 1 .. Len(Nodes(SmGroup)), last \in 1 .. Len(Nodes(SmGroup)) :
               /\ SmWalk(SmGroup) = first .. last
               /\ Pending(SmGroup) = first .. Len(Nodes(SmGroup))
        BY <2>2
      <4>2. /\ Distributed(SCHEDULES[g], first .. last, SCHEDULES'[g])
            /\ PendingIn(SCHEDULES[g].nodes) = first .. Len(SCHEDULES[g].nodes)
            /\ first \in 1 .. Len(SCHEDULES[g].nodes) /\ last \in 1 .. Len(SCHEDULES[g].nodes)
        BY <2>4, <3>2, <3>3, <4>1 DEF Pending, PendingIn, Nodes
      <4> QED
        BY <1>1, <3>1, <4>2, AnnounceKeepsRising
    <3>4. CASE g # SmGroup
      <4>1. /\ Len(SCHEDULES'[g].nodes) = Len(SCHEDULES[g].nodes)
            /\ \A i \in 1 .. Len(SCHEDULES[g].nodes) :
                  SCHEDULES'[g].nodes[i].nboSchDist = SCHEDULES[g].nodes[i].nboSchDist
        BY <2>4, <3>2, <3>4 DEF Distributed
      <4> QED
        BY <1>1, <4>1 DEF Rising
    <3> QED
      BY <3>3, <3>4
  <2> QED
    BY <1>1, <2>6, <2>7 DEF SdInv
<1> QED
  BY <1>2, <1>3

\* One case for each operation of the scheduler.
LEMMA NextKeepsSound == SoundInv /\ [Next]_vars => SoundInv'
<1> SUFFICES ASSUME SoundInv, [Next]_vars PROVE SoundInv'
  OBVIOUS
<1>1. IInv' /\ OnceIn(SCHEDULES')
  BY NextKeepsIInv, NextKeepsOnce DEF SoundInv
<1> SUFFICES /\ TableCounted(SCHEDULES')
             /\ SdInv(SCHEDULES', phase', sch1Cnt')
             /\ OwedIs(SCHEDULES', owed')
  BY <1>1 DEF SoundInv
<1>2. CASE \E a \in Addr, d \in Demands : ScheduleNode(a, d)
  BY <1>2, ScheduleNodeKeepsSound
<1>3. CASE \E a \in Addr : RemoveNode(a)
  BY <1>3, RemoveNodeKeepsSound
<1>4. CASE SendSm
  BY <1>4, SendSmKeepsSound
<1>5. CASE SendCm
  <2> DEFINE S == [g \in Groups |-> UsiWalk(g)]
  <2>1. \A g \in Groups : S[g] \subseteq Pending(g)
    BY DEF UsiWalk
  <2>2. Announce(S) /\ phase' = "DC"
    BY <1>5 DEF SendCm
  <2> HIDE DEF S
  <2> QED
    BY <2>1, <2>2, AnnounceKeepsCounted, AnnounceKeepsOwed DEF SoundInv, SdInv
<1>6. CASE StartSd
  <2>1. SCHEDULES' = [g \in Groups |-> smInitSchedule]
    BY <1>6 DEF StartSd
  <2> QED
    BY <2>1, EmptySound
<1>7. CASE StartDc
  BY <1>7 DEF StartDc, SoundInv, SdInv, OwedIs, TableCounted
<1>8. CASE UNCHANGED vars
  BY <1>8 DEF vars, SoundInv, SdInv, OwedIs, TableCounted
<1> QED
  BY <1>2, <1>3, <1>4, <1>5, <1>6, <1>7, <1>8 DEF Next

\* Everything is sound in the beginning.
LEMMA InitSound == Init => SoundInv
<1> SUFFICES ASSUME Init PROVE SoundInv
  OBVIOUS
<1>1. IInv /\ OnceIn(SCHEDULES)
  BY InitIInv, EmptyOnce DEF Init
<1>2. SCHEDULES = [g \in Groups |-> smInitSchedule]
  BY DEF Init
<1> QED
  BY <1>1, <1>2, EmptySound DEF SoundInv

\* What the runs check follows from the invariant.
LEMMA SoundInvGives ==
    ASSUME SoundInv
    PROVE  CountersExact /\ SmWalkMeetsPendingNodes /\ DistributionOwed
<1>1. CountersExact
  BY DEF SoundInv, TableCounted, Counted, CountersExact, Pending, PendingIn, Nodes
<1>2. SmWalkMeetsPendingNodes
  <2> SUFFICES ASSUME phase = "SD", GroupsToDistribute # {}
               PROVE  SmWalk(SmGroup) # {} /\ SmWalk(SmGroup) \subseteq Pending(SmGroup)
    BY DEF SmWalkMeetsPendingNodes
  <2>1. SmGroup \in Groups /\ SCHEDULES[SmGroup].nboDistReq > 0
    BY SmGroupDistributes
  <2>2. TableOK(SCHEDULES) /\ TableCounted(SCHEDULES) /\ Rising(Nodes(SmGroup))
    BY <2>1 DEF SoundInv, IInv, SdInv, Nodes
  <2> QED
    BY <2>1, <2>2, SmWalkOfRising
<1>3. DistributionOwed
  BY DEF SoundInv, OwedIs, DistributionOwed, Nodes
<1> QED
  BY <1>1, <1>2, <1>3

\* A run of slots that nobody owns lies behind a gap that is large enough,
\* or the list begins behind it.
LEMMA FreeRunLiesBehindGap ==
    ASSUME NEW nodes \in Seq(SchNode), Ascending(nodes), Sized(nodes), nodes # << >>,
           NEW demand \in Nat, demand >= 1, ~ (nodes[1].startLSI > demand),
           NEW x \in Nat, x >= 1, x + demand - 1 <= nboTotSlots,
           \A i \in 1 .. Len(nodes) :
              LastLsi(nodes[i]) < x \/ nodes[i].startLSI > x + demand - 1
    PROVE  \E k \in GapsAfter(nodes, demand) : LastLsi(nodes[k]) < x
<1> DEFINE T == {i \in 1 .. Len(nodes) : nodes[i].startLSI > x + demand - 1}
           k == IF T = {} THEN Len(nodes) ELSE Min(T) - 1
<1>1. Len(nodes) \in Nat /\ 1 \in 1 .. Len(nodes) /\ nboTotSlots \in Nat
  BY LenProperties, EmptySeq, TotSlotsAssumption
<1>2. ASSUME NEW i \in 1 .. Len(nodes)
      PROVE  /\ nodes[i].startLSI \in Nat /\ nodes[i].slotDemand \in Nat
             /\ nodes[i].slotDemand >= 1 /\ LastLsi(nodes[i]) \in Int
             /\ LastLsi(nodes[i]) = nodes[i].startLSI + nodes[i].slotDemand - 1
  BY SchNodeFields DEF Sized
<1>3. 1 \notin T
  <2>1. nodes[1].startLSI \in Nat
    BY <1>1, <1>2
  <2> QED
    BY <2>1
<1>4. T # {} => Min(T) \in T /\ \A y \in T : Min(T) <= y
  <2>1. T \subseteq Nat
    BY <1>1
  <2> QED
    BY <2>1, MinOfNats
<1>5. /\ k \in 1 .. Len(nodes) /\ k \notin T
      /\ k # Len(nodes) => k + 1 \in T
  <2>1. CASE T = {}
    BY <1>1, <2>1
  <2>2. CASE T # {}
    <3> DEFINE m == Min(T)
    <3>1. m \in T /\ m \in 1 .. Len(nodes) /\ m # 1 /\ \A y \in T : m <= y
      BY <1>3, <1>4, <2>2
    <3>2. k = m - 1
      BY <2>2
    <3> HIDE DEF m, T, k
    <3>3. m \in 1 .. Len(nodes) /\ m # 1 /\ Len(nodes) \in Nat
      BY <1>1, <3>1
    <3>4. k \in 1 .. Len(nodes) /\ k + 1 = m /\ ~ (m <= k)
      BY <3>2, <3>3
    <3> QED
      BY <3>1, <3>4
  <2> QED
    BY <2>1, <2>2
<1> HIDE DEF k
<1>6. LastLsi(nodes[k]) < x
  BY <1>5
<1>7. k \in GapsAfter(nodes, demand)
  <2>1. LastLsi(nodes[k]) \in Int
    BY <1>2, <1>5
  <2>2. CASE k = Len(nodes)
    <3>1. nboTotSlots - LastLsi(nodes[k]) >= demand
      BY <1>1, <1>6, <2>1
    <3> QED
      BY <1>5, <2>2, <3>1 DEF GapsAfter
  <2>3. CASE k # Len(nodes)
    <3>1. k + 1 \in 1 .. Len(nodes) /\ nodes[k + 1].startLSI > x + demand - 1
      BY <1>5, <2>3
    <3>2. nodes[k + 1].startLSI \in Nat
      BY <1>2, <3>1
    <3>3. nodes[k + 1].startLSI - LastLsi(nodes[k]) > demand
      BY <1>6, <2>1, <3>1, <3>2
    <3> QED
      BY <1>5, <2>3, <3>3 DEF GapsAfter
  <2> QED
    BY <2>2, <2>3
<1> QED
  BY <1>6, <1>7

\* The run that smAssignLsiToNode hands out is free.
LEMMA AssignedIsFree ==
    ASSUME NEW g \in Groups, ListOK(SCHEDULES[g]), InFrame(Nodes(g)),
           NEW d \in Nat, d >= 1, d <= nboTotSlots, smAssignLsiToNode(Nodes(g), d) # 0
    PROVE  /\ smAssignLsiToNode(Nodes(g), d) \in 1 .. nboTotSlots
           /\ FreeAt(g, smAssignLsiToNode(Nodes(g), d), d)
<1> DEFINE nodes == Nodes(g)
           lsi   == smAssignLsiToNode(nodes, d)
<1>1. nodes \in Seq(SchNode) /\ Ascending(nodes) /\ Sized(nodes) /\ Len(nodes) \in Nat
  BY LenProperties DEF ListOK, SchList, Nodes
<1> HIDE DEF nodes
<1>2. /\ lsi \in Nat /\ lsi >= 1
      /\ \E k \in 0 .. Len(nodes) : FitsBehind(nodes, lsi, d, k)
      /\ InFrame(nodes) /\ d <= nboTotSlots => lsi + d - 1 <= nboTotSlots
  BY <1>1, AssignFits DEF nodes
<1> HIDE DEF lsi
<1>3. lsi + d - 1 <= nboTotSlots
  BY <1>2 DEF nodes
<1>4. PICK k \in 0 .. Len(nodes) : FitsBehind(nodes, lsi, d, k)
  BY <1>2
<1>5. ASSUME NEW i \in 1 .. Len(nodes)
      PROVE  LastLsi(nodes[i]) < lsi \/ nodes[i].startLSI > lsi + d - 1
  <2>1. nodes[i].startLSI \in Nat
    BY <1>1, SchNodeFields
  <2>2. i <= k \/ i > k
    BY <1>1
  <2> QED
    BY <1>2, <1>4, <2>1, <2>2 DEF FitsBehind
<1>6. FreeAt(g, lsi, d)
  BY <1>3, <1>5 DEF FreeAt, nodes
<1>7. lsi \in 1 .. nboTotSlots
  BY <1>2, <1>3, TotSlotsAssumption
<1> QED
  BY <1>6, <1>7 DEF lsi, nodes

\* No free run begins before the one that smAssignLsiToNode hands out.
LEMMA AssignedIsFirst ==
    ASSUME NEW g \in Groups, ListOK(SCHEDULES[g]),
           NEW d \in Nat, d >= 1, NEW x \in 1 .. nboTotSlots, FreeAt(g, x, d)
    PROVE  /\ smAssignLsiToNode(Nodes(g), d) # 0
           /\ smAssignLsiToNode(Nodes(g), d) <= x
<1> DEFINE nodes == Nodes(g)
           gaps  == GapsAfter(nodes, d)
<1>1. nodes \in Seq(SchNode) /\ Ascending(nodes) /\ Sized(nodes) /\ Len(nodes) \in Nat
  BY LenProperties DEF ListOK, SchList, Nodes
<1>2. /\ x \in Nat /\ x >= 1 /\ x + d - 1 <= nboTotSlots
      /\ \A i \in 1 .. Len(nodes) : LastLsi(nodes[i]) < x \/ nodes[i].startLSI > x + d - 1
  BY TotSlotsAssumption DEF FreeAt
<1> HIDE DEF nodes
<1> SUFFICES smAssignLsiToNode(nodes, d) # 0 /\ smAssignLsiToNode(nodes, d) <= x
  BY DEF nodes
<1>3. CASE nodes = << >> \/ nodes[1].startLSI > d
  <2>1. smAssignLsiToNode(nodes, d) = 1
    BY <1>3 DEF smAssignLsiToNode
  <2> QED
    BY <1>2, <2>1
<1>4. CASE nodes # << >> /\ ~ (nodes[1].startLSI > d)
  <2>1. PICK k \in gaps : LastLsi(nodes[k]) < x
    BY <1>1, <1>2, <1>4, FreeRunLiesBehindGap
  <2>2. gaps # {} /\ gaps \subseteq Nat /\ gaps \subseteq 1 .. Len(nodes)
    BY <1>1, <2>1 DEF GapsAfter
  <2>3. smAssignLsiToNode(nodes, d) = LastLsi(nodes[Min(gaps)]) + 1
    BY <1>4, <2>2 DEF smAssignLsiToNode
  <2> HIDE DEF gaps
  <2>4. Min(gaps) \in 1 .. Len(nodes) /\ Min(gaps) <= k /\ k \in 1 .. Len(nodes)
    BY <2>2, MinOfNats
  <2> DEFINE g0 == Min(gaps)
  <2>5. g0 \in 1 .. Len(nodes) /\ g0 <= k
    BY <2>4
  <2>6. smAssignLsiToNode(nodes, d) = LastLsi(nodes[g0]) + 1
    BY <2>3
  <2> HIDE DEF g0
  <2>7. LastLsi(nodes[g0]) <= LastLsi(nodes[k])
    BY <1>1, <2>4, <2>5, StartsGrow
  <2>8. /\ nodes[g0].startLSI \in Nat /\ nodes[g0].startLSI >= 1
        /\ nodes[g0].slotDemand \in Nat /\ nodes[g0].slotDemand >= 1
        /\ LastLsi(nodes[g0]) \in Int
        /\ LastLsi(nodes[g0]) = nodes[g0].startLSI + nodes[g0].slotDemand - 1
    BY <1>1, <2>5, SchNodeFields DEF Sized
  <2>9. LastLsi(nodes[k]) \in Int
    BY <1>1, <2>4, SchNodeFields
  <2>10. LastLsi(nodes[g0]) >= 1
    BY <2>8
  <2>11. LastLsi(nodes[g0]) + 1 # 0 /\ LastLsi(nodes[g0]) + 1 <= x
    BY <1>2, <2>1, <2>7, <2>8, <2>9, <2>10
  <2> QED
    BY <2>6, <2>11
<1> QED
  BY <1>3, <1>4

\* The allocator computes first fit.
LEMMA FirstFit ==
    ASSUME TableOK(SCHEDULES), TableInFrame(SCHEDULES), DemandsFit
    PROVE  AssignIsFirstFit
<1> SUFFICES ASSUME NEW g \in Groups, NEW d \in Demands
             PROVE  LET free == {lsi \in 1 .. nboTotSlots : FreeAt(g, lsi, d)}
                    IN  smAssignLsiToNode(Nodes(g), d) = IF free = {} THEN 0 ELSE Min(free)
  BY DEF AssignIsFirstFit
<1> DEFINE free == {lsi \in 1 .. nboTotSlots : FreeAt(g, lsi, d)}
           lsi  == smAssignLsiToNode(Nodes(g), d)
<1>1. d \in Nat /\ d >= 1 /\ d <= nboTotSlots /\ ListOK(SCHEDULES[g]) /\ InFrame(Nodes(g))
  BY SchedulerAssumption DEF DemandsFit, TableOK, TableInFrame, Nodes
<1>2. lsi # 0 => lsi \in free
  BY <1>1, AssignedIsFree
<1>3. \A x \in free : lsi # 0 /\ lsi <= x
  BY <1>1, AssignedIsFirst
<1>4. free \subseteq Nat
  BY TotSlotsAssumption
<1> HIDE DEF free, lsi
<1>5. ASSUME free = {} PROVE lsi = 0
  BY <1>2, <1>5
<1>6. ASSUME free # {} PROVE lsi = Min(free)
  <2>1. Min(free) \in free /\ \A y \in free : Min(free) <= y
    BY <1>4, <1>6, MinOfNats
  <2>2. lsi \in free /\ Min(free) <= lsi /\ lsi <= Min(free)
    BY <1>2, <1>3, <2>1
  <2>3. lsi \in Nat /\ Min(free) \in Nat
    BY <1>4, <2>1, <2>2
  <2> QED
    BY <1>6, <2>2, <2>3
<1>7. lsi = IF free = {} THEN 0 ELSE Min(free)
  BY <1>5, <1>6
<1> QED
  BY <1>7 DEF free, lsi

(* The table of schedules is sound in every reachable state, for any number *)
(* of nodes, groups, slots and announcements: slots inside the frame,       *)
(* counters that agree with the lists, a schedule message that never walks  *)
(* beyond a list, every announcement accounted for, and a first-fit         *)
(* allocator.  It needs demands that fit the frame, as above.               *)
THEOREM TableSound == DemandsFit => (Spec => []SchedulesSound)
<1> SUFFICES ASSUME DemandsFit PROVE Spec => []SchedulesSound
  OBVIOUS
<1> DEFINE Inv == SoundInv /\ TableInFrame(SCHEDULES)
<1>1. Init => Inv
  BY InitSound, InitIInv
<1>2. Inv /\ [Next]_vars => Inv'
  BY NextKeepsSound, NextKeepsTableOK DEF SoundInv
<1>3. Inv => SchedulesSound
  <2> SUFFICES ASSUME Inv PROVE SchedulesSound
    OBVIOUS
  <2>1. TypeOK /\ TableOK(SCHEDULES)
    BY DEF SoundInv, IInv
  <2>2. SlotsInFrame
    BY DEF TableInFrame, InFrame, SlotsInFrame, Nodes
  <2>3. AssignIsFirstFit
    BY <2>1, FirstFit
  <2> QED
    BY <2>1, <2>2, <2>3, SoundInvGives DEF SchedulesSound
<1> HIDE DEF Inv
<1> QED
  BY <1>1, <1>2, <1>3, PTL DEF Spec
-----------------------------------------------------------------------------
(* A node keeps its slots.                                                  *)

\* Announcements move nobody.
LEMMA AnnounceKeepsSlots ==
    ASSUME IInv, NEW S, \A g \in Groups : S[g] \subseteq 1 .. Len(Nodes(g)), Announce(S)
    PROVE  KeepsSlots
<1> SUFFICES ASSUME NEW g \in Groups, NEW i \in 1 .. Len(Nodes(g))
             PROVE  \E j \in 1 .. Len(Nodes(g)') :
                       /\ Nodes(g)'[j].addr = Nodes(g)[i].addr
                       /\ Nodes(g)'[j].startLSI = Nodes(g)[i].startLSI
                       /\ Nodes(g)'[j].slotDemand = Nodes(g)[i].slotDemand
  BY DEF KeepsSlots
<1>1. Distributed(SCHEDULES[g], S[g], SCHEDULES'[g])
  <2>1. SCHEDULES'[g] = smNodesDistributed(SCHEDULES[g], S[g])
    BY DEF Announce
  <2>2. ListOK(SCHEDULES[g]) /\ S[g] \subseteq 1 .. Len(SCHEDULES[g].nodes)
    BY DEF IInv, TableOK, Nodes
  <2> QED
    BY <2>1, <2>2, DistributionChanges
<1> QED
  BY <1>1 DEF Distributed, Nodes

\* A step that keeps a node's entry keeps its slots.
LEMMA SameEntryKeepsSlots ==
    ASSUME \A g \in Groups : \A i \in 1 .. Len(SCHEDULES[g].nodes) :
              \/ \E d \in Demands : ScheduleNode(SCHEDULES[g].nodes[i].addr, d)
              \/ RemoveNode(SCHEDULES[g].nodes[i].addr)
              \/ \E j \in 1 .. Len(SCHEDULES'[g].nodes) :
                    SCHEDULES'[g].nodes[j] = SCHEDULES[g].nodes[i]
    PROVE  KeepsSlots
BY DEF KeepsSlots, Nodes

(* A node keeps its slots for as long as it is scheduled: nothing moves it  *)
(* but scheduling or removing the node itself, or a new schedule            *)
(* distribution phase.                                                      *)
THEOREM SlotsStay == Spec => SlotsKept
<1> DEFINE Inv == IInv /\ OnceIn(SCHEDULES)
<1>1. Init => Inv
  BY InitIInv, EmptyOnce DEF Init
<1>2. Inv /\ [Next]_vars => Inv'
  BY NextKeepsIInv, NextKeepsOnce
<1>3. Inv /\ [Next]_vars => [KeepsSlots]_vars
  <2> SUFFICES ASSUME IInv, OnceIn(SCHEDULES), Next PROVE KeepsSlots
    OBVIOUS
  <2>1. CASE \E a \in Addr, d \in Demands : ScheduleNode(a, d)
    <3>1. PICK a \in Addr, d \in Demands : ScheduleNode(a, d)
      BY <2>1
    <3>2. SCHEDULES' = scheduleNode(SCHEDULES, a, d, NboSchUpdate) /\ NboSchUpdate \in Nat
      BY <3>1, SchedulerAssumption DEF ScheduleNode, NboSchUpdate
    <3>3. ASSUME NEW g \in Groups, NEW i \in 1 .. Len(SCHEDULES[g].nodes),
                 SCHEDULES[g].nodes[i].addr # a
          PROVE  \E j \in 1 .. Len(SCHEDULES'[g].nodes) :
                    SCHEDULES'[g].nodes[j] = SCHEDULES[g].nodes[i]
      <4> DEFINE before == SCHEDULES[g].nodes
                 after  == scheduleNode(SCHEDULES, a, d, NboSchUpdate)[g].nodes
      <4>1. \A k \in 1 .. Len(before) :
               before[k].addr # a => \E j \in 1 .. Len(after) : after[j] = before[k]
        <5>1. TableOK(SCHEDULES) /\ OnceIn(SCHEDULES) /\ NboSchUpdate \in Nat
          BY <3>2 DEF IInv
        <5> QED
          BY <5>1, EntriesAfterScheduling
      <4>2. SCHEDULES'[g].nodes = after
        BY <3>2
      <4> HIDE DEF after
      <4> QED
        BY <3>3, <4>1, <4>2
    <3> QED
      BY <3>1, <3>3, SameEntryKeepsSlots
  <2>2. CASE \E a \in Addr : RemoveNode(a)
    <3>1. PICK a \in Addr : RemoveNode(a)
      BY <2>2
    <3>2. \A g \in Groups : SCHEDULES'[g] = smRemoveOneNode(SCHEDULES[g], a)
      BY <3>1 DEF RemoveNode, removeNodeFromSchedule
    <3>3. ASSUME NEW g \in Groups, NEW i \in 1 .. Len(SCHEDULES[g].nodes),
                 SCHEDULES[g].nodes[i].addr # a
          PROVE  \E j \in 1 .. Len(SCHEDULES'[g].nodes) :
                    SCHEDULES'[g].nodes[j] = SCHEDULES[g].nodes[i]
      <4>1. ListOK(SCHEDULES[g])
        BY DEF IInv, TableOK
      <4>2. \E j \in 1 .. Len(smRemoveOneNode(SCHEDULES[g], a).nodes) :
               smRemoveOneNode(SCHEDULES[g], a).nodes[j] = SCHEDULES[g].nodes[i]
        BY <3>3, <4>1, RemovalKeepsOthers
      <4> QED
        BY <3>2, <4>2
    <3> QED
      BY <3>1, <3>3, SameEntryKeepsSlots
  <2>3. CASE SendSm
    <3>1. CASE GroupsToDistribute = {}
      <4>1. SCHEDULES' = SCHEDULES
        BY <2>3, <3>1 DEF SendSm
      <4> QED
        BY <4>1, SameEntryKeepsSlots
    <3>2. CASE GroupsToDistribute # {}
      <4> DEFINE S == [g \in Groups |->
                         IF g = SmGroup THEN SmWalk(g) \cap (1 .. Len(Nodes(g))) ELSE {}]
      <4>1. \A g \in Groups : S[g] \subseteq 1 .. Len(Nodes(g))
        OBVIOUS
      <4>2. Announce(S)
        BY <2>3, <3>2 DEF SendSm
      <4> HIDE DEF S
      <4> QED
        BY <4>1, <4>2, AnnounceKeepsSlots
    <3> QED
      BY <3>1, <3>2
  <2>4. CASE SendCm
    <3> DEFINE S == [g \in Groups |-> UsiWalk(g)]
    <3>1. \A g \in Groups : S[g] \subseteq 1 .. Len(Nodes(g))
      BY DEF UsiWalk, Pending
    <3>2. Announce(S)
      BY <2>4 DEF SendCm
    <3> HIDE DEF S
    <3> QED
      BY <3>1, <3>2, AnnounceKeepsSlots
  <2>5. CASE StartSd
    BY <2>5 DEF KeepsSlots
  <2>6. CASE StartDc
    <3>1. SCHEDULES' = SCHEDULES
      BY <2>6 DEF StartDc
    <3> QED
      BY <3>1, SameEntryKeepsSlots
  <2> QED
    BY <2>1, <2>2, <2>3, <2>4, <2>5, <2>6 DEF Next
<1> HIDE DEF Inv
<1> QED
  BY <1>1, <1>2, <1>3, PTL DEF Spec, SlotsKept
=============================================================================
