--------------------------- MODULE RtLoraMacProofs ---------------------------
(***************************************************************************)
(* Theorems about RtLoraMac, for any number of nodes, any registrations    *)
(* and any demands.  The lemmas about the operations on a node list come   *)
(* first; each says what an operation does to the addresses in the list.   *)
(***************************************************************************)
EXTENDS RtLoraMac, FiniteSetTheorems, SequenceTheorems, WellFoundedInduction, TLAPS

-----------------------------------------------------------------------------
(* Sets of numbers and sequences.                                           *)

\* A non-empty set of natural numbers has a least element, which is its Min.
LEMMA MinOfNats ==
    ASSUME NEW S, S \subseteq Nat, S # {}
    PROVE  Min(S) \in S /\ \A y \in S : Min(S) <= y
<1>1. PICK x \in S : \A y \in S : ~ (<<y, x>> \in OpToRel(<, Nat))
  BY NatLessThanWellFounded, WFMin
<1>2. \A y \in S : y < x => <<y, x>> \in OpToRel(<, Nat)
  BY DEF OpToRel
<1>3. \A y \in S : ~ (y < x)
  BY <1>1, <1>2, Zenon
<1>4. \A y \in S : x <= y
  BY <1>3
<1> QED
  BY <1>4 DEF Min

\* What removing position p leaves at position i.
LEMMA RemoveAtProperties ==
    ASSUME NEW S, NEW seq \in Seq(S), NEW p \in 1 .. Len(seq)
    PROVE  /\ RemoveAt(seq, p) \in Seq(S)
           /\ Len(RemoveAt(seq, p)) = Len(seq) - 1
           /\ \A i \in 1 .. Len(seq) - 1 :
                 RemoveAt(seq, p)[i] = IF i < p THEN seq[i] ELSE seq[i + 1]
<1> DEFINE front == SubSeq(seq, 1, p - 1)
           back  == SubSeq(seq, p + 1, Len(seq))
<1>1. /\ Len(seq) \in Nat /\ p \in Int
      /\ \A i \in 1 .. Len(seq) : seq[i] \in S
  BY LenProperties, ElementOfSeq
<1>2. /\ front \in Seq(S) /\ Len(front) = p - 1
      /\ \A i \in 1 .. p - 1 : front[i] = seq[i]
  <2>1. \A i \in 1 .. p - 1 : seq[i] \in S
    BY <1>1
  <2> QED
    BY <1>1, <2>1, SubSeqProperties
<1>3. /\ back \in Seq(S) /\ Len(back) = Len(seq) - p
      /\ \A i \in 1 .. Len(seq) - p : back[i] = seq[p + i]
  <2>1. \A i \in p + 1 .. Len(seq) : seq[i] \in S
    BY <1>1
  <2> QED
    BY <1>1, <2>1, SubSeqProperties
<1> HIDE DEF front, back
<1>4. /\ front \o back \in Seq(S)
      /\ Len(front \o back) = Len(front) + Len(back)
      /\ \A i \in 1 .. Len(front) + Len(back) :
            (front \o back)[i] = IF i <= Len(front) THEN front[i] ELSE back[i - Len(front)]
  BY <1>2, <1>3, ConcatProperties
<1>5. RemoveAt(seq, p) = front \o back
  BY DEF RemoveAt, front, back
<1>6. ASSUME NEW i \in 1 .. Len(seq) - 1
      PROVE  (front \o back)[i] = IF i < p THEN seq[i] ELSE seq[i + 1]
  <2>1. i \in 1 .. Len(front) + Len(back)
    BY <1>1, <1>2, <1>3
  <2>2. CASE i < p
    BY <1>1, <1>2, <1>4, <2>1, <2>2
  <2>3. CASE ~ (i < p)
    <3>1. (front \o back)[i] = back[i - (p - 1)]
      BY <1>1, <1>2, <1>4, <2>1, <2>3, SMTT(30)
    <3>2. i - (p - 1) \in 1 .. Len(seq) - p
      BY <1>1, <2>3
    <3>3. back[i - (p - 1)] = seq[p + (i - (p - 1))]
      BY <1>3, <3>2
    <3>4. p + (i - (p - 1)) = i + 1
      BY <1>1
    <3> QED
      BY <2>3, <3>1, <3>3, <3>4
  <2> QED
    BY <2>2, <2>3
<1>7. Len(front \o back) = Len(seq) - 1
  BY <1>1, <1>2, <1>3, <1>4
<1> QED
  BY <1>4, <1>5, <1>6, <1>7

\* What inserting e at position p makes of position i.
LEMMA InsertAtProperties ==
    ASSUME NEW S, NEW seq \in Seq(S), NEW p \in 1 .. Len(seq) + 1, NEW e \in S
    PROVE  /\ InsertAt(seq, p, e) \in Seq(S)
           /\ Len(InsertAt(seq, p, e)) = Len(seq) + 1
           /\ \A i \in 1 .. Len(seq) + 1 :
                 InsertAt(seq, p, e)[i] = IF i < p THEN seq[i]
                                          ELSE IF i = p THEN e ELSE seq[i - 1]
<1> DEFINE front == SubSeq(seq, 1, p - 1)
           back  == SubSeq(seq, p, Len(seq))
           mid   == front \o <<e>>
<1>1. /\ Len(seq) \in Nat /\ p \in Int
      /\ \A i \in 1 .. Len(seq) : seq[i] \in S
  BY LenProperties, ElementOfSeq
<1>2. /\ front \in Seq(S) /\ Len(front) = p - 1
      /\ \A i \in 1 .. p - 1 : front[i] = seq[i]
  <2>1. \A i \in 1 .. p - 1 : seq[i] \in S
    BY <1>1
  <2> QED
    BY <1>1, <2>1, SubSeqProperties
<1>3. /\ back \in Seq(S) /\ Len(back) = Len(seq) - p + 1
      /\ \A i \in 1 .. Len(seq) - p + 1 : back[i] = seq[p + i - 1]
  <2>1. \A i \in p .. Len(seq) : seq[i] \in S
    BY <1>1
  <2> QED
    BY <1>1, <2>1, SubSeqProperties
<1>4. <<e>> \in Seq(S) /\ Len(<<e>>) = 1 /\ <<e>>[1] = e
  OBVIOUS
<1>5. /\ mid \in Seq(S) /\ Len(mid) = p
      /\ \A i \in 1 .. p : mid[i] = IF i < p THEN seq[i] ELSE e
  <2>1. /\ mid \in Seq(S) /\ Len(mid) = Len(front) + Len(<<e>>)
        /\ \A i \in 1 .. Len(front) + Len(<<e>>) :
              mid[i] = IF i <= Len(front) THEN front[i] ELSE <<e>>[i - Len(front)]
    BY <1>2, <1>4, ConcatProperties
  <2> HIDE DEF mid, front
  <2> QED
    BY <1>1, <1>2, <1>4, <2>1, SMTT(30)
<1> HIDE DEF front, back, mid
<1>6. /\ mid \o back \in Seq(S)
      /\ Len(mid \o back) = Len(mid) + Len(back)
      /\ \A i \in 1 .. Len(mid) + Len(back) :
            (mid \o back)[i] = IF i <= Len(mid) THEN mid[i] ELSE back[i - Len(mid)]
  BY <1>3, <1>5, ConcatProperties
<1>7. InsertAt(seq, p, e) = mid \o back
  BY DEF InsertAt, mid, front, back
<1>8. \A i \in 1 .. Len(seq) + 1 :
         (mid \o back)[i] = IF i < p THEN seq[i] ELSE IF i = p THEN e ELSE seq[i - 1]
  BY <1>1, <1>3, <1>5, <1>6
<1> QED
  BY <1>1, <1>3, <1>5, <1>6, <1>7, <1>8

\* What replacing the element at position p leaves at position i.
LEMMA ReplaceAtProperties ==
    ASSUME NEW S, NEW seq \in Seq(S), NEW p \in 1 .. Len(seq), NEW e \in S
    PROVE  /\ ReplaceAt(seq, p, e) \in Seq(S)
           /\ Len(ReplaceAt(seq, p, e)) = Len(seq)
           /\ \A i \in 1 .. Len(seq) :
                 ReplaceAt(seq, p, e)[i] = IF i = p THEN e ELSE seq[i]
  BY ExceptSeq DEF ReplaceAt

-----------------------------------------------------------------------------
(* Node lists.                                                              *)

Addrs(lst) == {lst[i].addr : i \in 1 .. Len(lst)}

Unique(lst) == \A i, j \in 1 .. Len(lst) : lst[i].addr = lst[j].addr => i = j

ListOK(lst) == lst \in Seq(MngtNode) /\ Unique(lst)

\* The address of a known node is found where the node is.
LEMMA IndexOfKnown ==
    ASSUME NEW lst \in Seq(MngtNode), NEW addr, isNodeExisted(lst, addr)
    PROVE  IndexOf(lst, addr) \in 1 .. Len(lst) /\ lst[IndexOf(lst, addr)].addr = addr
<1> DEFINE S == {i \in 1 .. Len(lst) : lst[i].addr = addr}
<1>1. Len(lst) \in Nat
  BY LenProperties
<1>2. S \subseteq Nat /\ S # {}
  BY <1>1 DEF isNodeExisted
<1>3. Min(S) \in S
  BY <1>2, MinOfNats
<1> QED
  BY <1>3 DEF IndexOf

\* A new node is put at a place of the list or behind it.
LEMMA PushPositionInList ==
    ASSUME NEW lst \in Seq(MngtNode), NEW node, NEW sort
    PROVE  PushPosition(lst, node, sort) \in 1 .. Len(lst) + 1
<1> DEFINE S == {i \in 1 .. Len(lst) : sort /\ lst[i].slotDmn < node.slotDmn}
<1>1. Len(lst) \in Nat
  BY LenProperties
<1>2. CASE S = {}
  BY <1>1, <1>2 DEF PushPosition
<1>3. CASE S # {}
  <2>1. S \subseteq Nat
    BY <1>1
  <2>2. Min(S) \in S
    BY <1>3, <2>1, MinOfNats
  <2>3. PushPosition(lst, node, sort) = Min(S)
    BY <1>3 DEF PushPosition
  <2> QED
    BY <1>1, <2>2, <2>3
<1> QED
  BY <1>2, <1>3

\* A node that is put into a list is in it once, and no other node is lost or
\* changed.
LEMMA PushKeepsList ==
    ASSUME NEW lst, ListOK(lst), NEW node \in MngtNode, NEW sort
    PROVE  /\ ListOK(pushNode(lst, node, sort))
           /\ Addrs(pushNode(lst, node, sort)) = Addrs(lst) \cup {node.addr}
           /\ \A i \in 1 .. Len(pushNode(lst, node, sort)) :
                 \/ pushNode(lst, node, sort)[i] = node
                 \/ \E k \in 1 .. Len(lst) : pushNode(lst, node, sort)[i] = lst[k]
           /\ \E i \in 1 .. Len(pushNode(lst, node, sort)) : pushNode(lst, node, sort)[i] = node
<1> DEFINE after == pushNode(lst, node, sort)
<1>1. lst \in Seq(MngtNode) /\ Len(lst) \in Nat /\ Unique(lst)
  BY LenProperties DEF ListOK
<1>2. CASE isNodeExisted(lst, node.addr)
  <2>1. PICK p : p = IndexOf(lst, node.addr)
    OBVIOUS
  <2>2. p \in 1 .. Len(lst) /\ lst[p].addr = node.addr
    BY <1>1, <1>2, <2>1, IndexOfKnown
  <2>3. after = ReplaceAt(lst, p, node)
    BY <1>2, <2>1 DEF pushNode
  <2>4. /\ after \in Seq(MngtNode) /\ Len(after) = Len(lst)
        /\ \A i \in 1 .. Len(lst) : after[i] = IF i = p THEN node ELSE lst[i]
    <3> HIDE DEF after
    <3>1. /\ ReplaceAt(lst, p, node) \in Seq(MngtNode)
          /\ Len(ReplaceAt(lst, p, node)) = Len(lst)
          /\ \A i \in 1 .. Len(lst) :
                ReplaceAt(lst, p, node)[i] = IF i = p THEN node ELSE lst[i]
      BY <1>1, <2>2, ReplaceAtProperties
    <3> QED
      BY <2>3, <3>1
  <2> HIDE DEF after
  <2>5. \A i \in 1 .. Len(lst) : after[i].addr = lst[i].addr
    BY <2>2, <2>4
  <2>6. Unique(after)
    BY <1>1, <2>4, <2>5 DEF Unique
  <2>7. Addrs(after) = Addrs(lst)
    BY <2>4, <2>5 DEF Addrs
  <2>8. node.addr \in Addrs(lst)
    BY <2>2 DEF Addrs
  <2>9. Addrs(after) = Addrs(lst) \cup {node.addr}
    BY <2>7, <2>8
  <2>10. \A i \in 1 .. Len(after) : after[i] = node \/ \E k \in 1 .. Len(lst) : after[i] = lst[k]
    BY <2>4
  <2>11. ListOK(after)
    BY <2>4, <2>6 DEF ListOK
  <2>12. p \in 1 .. Len(after) /\ after[p] = node
    BY <2>2, <2>4
  <2> QED
    BY <2>9, <2>10, <2>11, <2>12 DEF after
<1>3. CASE ~ isNodeExisted(lst, node.addr)
  <2>1. PICK p : p = PushPosition(lst, node, sort)
    OBVIOUS
  <2>2. p \in 1 .. Len(lst) + 1
    BY <1>1, <2>1, PushPositionInList
  <2>3. after = InsertAt(lst, p, node)
    BY <1>3, <2>1 DEF pushNode
  <2>4. /\ after \in Seq(MngtNode) /\ Len(after) = Len(lst) + 1
        /\ \A i \in 1 .. Len(lst) + 1 :
              after[i] = IF i < p THEN lst[i] ELSE IF i = p THEN node ELSE lst[i - 1]
    <3> HIDE DEF after
    <3>1. /\ InsertAt(lst, p, node) \in Seq(MngtNode)
          /\ Len(InsertAt(lst, p, node)) = Len(lst) + 1
          /\ \A i \in 1 .. Len(lst) + 1 :
                InsertAt(lst, p, node)[i] =
                   IF i < p THEN lst[i] ELSE IF i = p THEN node ELSE lst[i - 1]
      BY <1>1, <2>2, InsertAtProperties
    <3> QED
      BY <2>3, <3>1
  <2> HIDE DEF after
  <2>5. \A i \in 1 .. Len(lst) : lst[i].addr # node.addr
    BY <1>3 DEF isNodeExisted
  <2>6. ASSUME NEW i \in 1 .. Len(after), i # p
        PROVE  \E k \in 1 .. Len(lst) : after[i] = lst[k] /\ k = IF i < p THEN i ELSE i - 1
    <3>1. CASE i < p
      BY <1>1, <2>2, <2>4, <2>6, <3>1
    <3>2. CASE i > p
      <4>1. i - 1 \in 1 .. Len(lst) /\ after[i] = lst[i - 1]
        BY <1>1, <2>2, <2>4, <3>2
      <4> QED
        BY <1>1, <2>2, <2>4, <3>2, <4>1
    <3> QED
      BY <1>1, <2>2, <2>4, <2>6, <3>1, <3>2
  <2>7. p \in 1 .. Len(after) /\ after[p] = node
    BY <1>1, <2>2, <2>4
  <2>8. ASSUME NEW i \in 1 .. Len(after), NEW j \in 1 .. Len(after),
               after[i].addr = after[j].addr
        PROVE  i = j
    <3>1. CASE i = p \/ j = p
      BY <2>5, <2>6, <2>7, <2>8, <3>1
    <3>2. CASE i # p /\ j # p
      <4>1. PICK k \in 1 .. Len(lst) : after[i] = lst[k] /\ k = IF i < p THEN i ELSE i - 1
        BY <2>6, <3>2
      <4>2. PICK m \in 1 .. Len(lst) : after[j] = lst[m] /\ m = IF j < p THEN j ELSE j - 1
        BY <2>6, <3>2
      <4>3. k = m
        BY <1>1, <2>8, <4>1, <4>2 DEF Unique
      <4> QED
        BY <1>1, <2>2, <2>4, <3>2, <4>1, <4>2, <4>3
    <3> QED
      BY <3>1, <3>2
  <2>9. Addrs(after) \subseteq Addrs(lst) \cup {node.addr}
    BY <2>6, <2>7 DEF Addrs
  <2>10. ASSUME NEW k \in 1 .. Len(lst)
         PROVE  lst[k].addr \in Addrs(after)
    <3>1. CASE k < p
      <4>1. k \in 1 .. Len(after) /\ after[k] = lst[k]
        BY <1>1, <2>2, <2>4, <3>1
      <4> QED
        BY <4>1 DEF Addrs
    <3>2. CASE ~ (k < p)
      <4>1. PICK q : q = k + 1
        OBVIOUS
      <4>2. q \in 1 .. Len(after) /\ q - 1 = k /\ ~ (q < p) /\ q # p
        BY <1>1, <2>2, <2>4, <3>2, <4>1
      <4>3. after[q] = lst[k]
        BY <2>4, <4>2
      <4> QED
        BY <4>2, <4>3 DEF Addrs
    <3> QED
      BY <3>1, <3>2
  <2>11. node.addr \in Addrs(after)
    BY <2>7 DEF Addrs
  <2>12. Addrs(lst) \subseteq Addrs(after)
    BY <2>10 DEF Addrs
  <2>13. Addrs(after) = Addrs(lst) \cup {node.addr}
    BY <2>9, <2>11, <2>12
  <2>14. ListOK(after)
    BY <2>4, <2>8 DEF ListOK, Unique
  <2>15. \A i \in 1 .. Len(after) : after[i] = node \/ \E k \in 1 .. Len(lst) : after[i] = lst[k]
    BY <2>6, <2>7
  <2> QED
    BY <2>7, <2>13, <2>14, <2>15 DEF after
<1> QED
  BY <1>2, <1>3

\* What a push does to the addresses of a list.
LEMMA PushAddsAddress ==
    ASSUME NEW lst, ListOK(lst), NEW node \in MngtNode, NEW sort
    PROVE  /\ ListOK(pushNode(lst, node, sort))
           /\ Addrs(pushNode(lst, node, sort)) = Addrs(lst) \cup {node.addr}
  BY PushKeepsList

\* Every node of a list has its children among the addresses A.
ChildrenIn(lst, A) == \A i \in 1 .. Len(lst) : ChildAddrs(lst[i]) \subseteq A

\* A node that is put into a list brings no child from outside A.
LEMMA PushKeepsChildrenIn ==
    ASSUME NEW lst, ListOK(lst), NEW node \in MngtNode, NEW sort, NEW A,
           ChildrenIn(lst, A), ChildAddrs(node) \subseteq A
    PROVE  ChildrenIn(pushNode(lst, node, sort), A)
<1> SUFFICES ASSUME NEW i \in 1 .. Len(pushNode(lst, node, sort))
             PROVE  ChildAddrs(pushNode(lst, node, sort)[i]) \subseteq A
  BY DEF ChildrenIn
<1>1. \/ pushNode(lst, node, sort)[i] = node
      \/ \E k \in 1 .. Len(lst) : pushNode(lst, node, sort)[i] = lst[k]
  BY PushKeepsList
<1> QED
  BY <1>1, Zenon DEF ChildrenIn

\* A node that is taken out of a list is gone, and no other node is.
LEMMA PopKeepsList ==
    ASSUME NEW lst, ListOK(lst), NEW addr, isNodeExisted(lst, addr)
    PROVE  /\ ListOK(popNodeByAddress(lst, addr))
           /\ Addrs(popNodeByAddress(lst, addr)) = Addrs(lst) \ {addr}
           /\ \A A : ChildrenIn(lst, A) => ChildrenIn(popNodeByAddress(lst, addr), A)
           /\ \A i \in 1 .. Len(popNodeByAddress(lst, addr)) :
                 \E k \in 1 .. Len(lst) : popNodeByAddress(lst, addr)[i] = lst[k]
<1> DEFINE after == popNodeByAddress(lst, addr)
<1>1. lst \in Seq(MngtNode) /\ Len(lst) \in Nat /\ Unique(lst)
  BY LenProperties DEF ListOK
<1>2. PICK p : p = IndexOf(lst, addr)
  OBVIOUS
<1>3. p \in 1 .. Len(lst) /\ lst[p].addr = addr
  BY <1>1, <1>2, IndexOfKnown
<1>4. after = RemoveAt(lst, p)
  BY <1>2 DEF popNodeByAddress
<1> HIDE DEF after
<1>5. /\ after \in Seq(MngtNode) /\ Len(after) = Len(lst) - 1
      /\ \A i \in 1 .. Len(lst) - 1 : after[i] = IF i < p THEN lst[i] ELSE lst[i + 1]
  <2>1. /\ RemoveAt(lst, p) \in Seq(MngtNode) /\ Len(RemoveAt(lst, p)) = Len(lst) - 1
        /\ \A i \in 1 .. Len(lst) - 1 :
              RemoveAt(lst, p)[i] = IF i < p THEN lst[i] ELSE lst[i + 1]
    BY <1>1, <1>3, RemoveAtProperties
  <2> QED
    BY <1>4, <2>1
<1>6. ASSUME NEW i \in 1 .. Len(after)
      PROVE  \E k \in 1 .. Len(lst) : /\ after[i] = lst[k]
                                      /\ k = IF i < p THEN i ELSE i + 1
  <2>1. CASE i < p
    BY <1>1, <1>3, <1>5, <2>1
  <2>2. CASE ~ (i < p)
    <3>1. i + 1 \in 1 .. Len(lst) /\ after[i] = lst[i + 1]
      BY <1>1, <1>3, <1>5, <2>2
    <3> QED
      BY <2>2, <3>1
  <2> QED
    BY <2>1, <2>2
<1>7. ASSUME NEW i \in 1 .. Len(after), NEW j \in 1 .. Len(after),
             after[i].addr = after[j].addr
      PROVE  i = j
  <2>1. PICK k \in 1 .. Len(lst) : after[i] = lst[k] /\ k = IF i < p THEN i ELSE i + 1
    BY <1>6
  <2>2. PICK m \in 1 .. Len(lst) : after[j] = lst[m] /\ m = IF j < p THEN j ELSE j + 1
    BY <1>6
  <2>3. k = m
    BY <1>1, <1>7, <2>1, <2>2 DEF Unique
  <2> QED
    BY <1>1, <1>3, <1>5, <2>1, <2>2, <2>3
<1>8. ASSUME NEW i \in 1 .. Len(after)
      PROVE  after[i].addr \in Addrs(lst) \ {addr}
  <2>1. PICK k \in 1 .. Len(lst) : after[i] = lst[k] /\ k = IF i < p THEN i ELSE i + 1
    BY <1>6
  <2>2. k # p
    BY <1>1, <1>3, <1>5, <2>1
  <2>3. lst[k].addr # lst[p].addr
    BY <1>1, <1>3, <2>2 DEF Unique
  <2> QED
    BY <1>3, <2>1, <2>3 DEF Addrs
<1>9. ASSUME NEW k \in 1 .. Len(lst), lst[k].addr # addr
      PROVE  lst[k].addr \in Addrs(after)
  <2>1. k # p
    BY <1>3, <1>9
  <2>2. PICK i : i = IF k < p THEN k ELSE k - 1
    OBVIOUS
  <2>3. i \in 1 .. Len(after) /\ k = IF i < p THEN i ELSE i + 1
    BY <1>1, <1>3, <1>5, <2>1, <2>2
  <2>4. after[i] = lst[k]
    BY <1>1, <1>5, <2>3
  <2> QED
    BY <2>3, <2>4 DEF Addrs
<1>10. Addrs(after) = Addrs(lst) \ {addr}
  <2>1. Addrs(after) \subseteq Addrs(lst) \ {addr}
    BY <1>8 DEF Addrs
  <2>2. Addrs(lst) \ {addr} \subseteq Addrs(after)
    BY <1>9 DEF Addrs
  <2> QED
    BY <2>1, <2>2
<1>11. ListOK(after)
  BY <1>5, <1>7 DEF ListOK, Unique
<1>12. ASSUME NEW A, ChildrenIn(lst, A)
       PROVE  ChildrenIn(after, A)
  <2> SUFFICES ASSUME NEW i \in 1 .. Len(after)
               PROVE  ChildAddrs(after[i]) \subseteq A
    BY DEF ChildrenIn
  <2>1. PICK k \in 1 .. Len(lst) : after[i] = lst[k]
    BY <1>6
  <2> QED
    BY <1>12, <2>1, Zenon DEF ChildrenIn
<1> QED
  BY <1>6, <1>10, <1>11, <1>12 DEF after

-----------------------------------------------------------------------------
(* Marks: operations that leave every node where it is, with its children.  *)

SameNodes(a, b) ==
    /\ Len(a) = Len(b)
    /\ \A i \in 1 .. Len(b) :
          /\ a[i].addr = b[i].addr /\ a[i].class = b[i].class
          /\ a[i].children = b[i].children /\ ChildAddrs(a[i]) = ChildAddrs(b[i])
          /\ a[i].type = b[i].type /\ a[i].slotDmn = b[i].slotDmn

SameFlags(a, b) == \A i \in 1 .. Len(b) : a[i].schFlag = b[i].schFlag

\* A list whose nodes differ in their marks only is as good as before.
LEMMA SameNodesKeep ==
    ASSUME NEW lst, ListOK(lst), NEW after \in Seq(MngtNode), SameNodes(after, lst)
    PROVE  /\ ListOK(after)
           /\ Addrs(after) = Addrs(lst)
           /\ \A A : ChildrenIn(lst, A) => ChildrenIn(after, A)
<1>1. Unique(after)
  BY DEF Unique, SameNodes, ListOK
<1>2. Addrs(after) = Addrs(lst)
  BY DEF Addrs, SameNodes
<1>3. ASSUME NEW A, ChildrenIn(lst, A) PROVE ChildrenIn(after, A)
  BY <1>3 DEF ChildrenIn, SameNodes
<1> QED
  BY <1>1, <1>2, <1>3 DEF ListOK

\* Marking children as connected or not changes nothing else.
LEMMA ConnStatusKeepsNodes ==
    ASSUME NEW lst \in Seq(MngtNode), NEW node, NEW status \in BOOLEAN
    PROVE  /\ dmSetChildConnStatus(lst, node, status) \in Seq(MngtNode)
           /\ SameNodes(dmSetChildConnStatus(lst, node, status), lst)
           /\ SameFlags(dmSetChildConnStatus(lst, node, status), lst)
<1> DEFINE after == dmSetChildConnStatus(lst, node, status)
           mark(n) == [n EXCEPT !.isConnected = status]
<1>1. Len(lst) \in Nat /\ \A i \in 1 .. Len(lst) : lst[i] \in MngtNode
  BY LenProperties, ElementOfSeq
<1>2. ASSUME NEW n \in MngtNode
      PROVE  /\ mark(n) \in MngtNode /\ mark(n).addr = n.addr /\ mark(n).children = n.children
             /\ mark(n).class = n.class
             /\ mark(n).type = n.type /\ mark(n).slotDmn = n.slotDmn
             /\ mark(n).schFlag = n.schFlag
  BY DEF MngtNode
<1>3. after = [i \in 1 .. Len(lst) |-> IF lst[i].addr \in ChildAddrs(node)
                                       THEN mark(lst[i]) ELSE lst[i]]
  BY DEF dmSetChildConnStatus
<1> HIDE DEF after, mark
<1>4. after \in Seq(MngtNode) /\ Len(after) = Len(lst)
  <2>1. \A i \in 1 .. Len(lst) :
           (IF lst[i].addr \in ChildAddrs(node) THEN mark(lst[i]) ELSE lst[i]) \in MngtNode
    BY <1>1, <1>2
  <2>2. after \in [1 .. Len(lst) -> MngtNode]
    BY <1>3, <2>1
  <2> QED
    BY <1>1, <2>2, SeqDef, LenProperties
<1>5. \A i \in 1 .. Len(lst) :
         /\ after[i].addr = lst[i].addr /\ after[i].children = lst[i].children
         /\ after[i].class = lst[i].class
         /\ after[i].type = lst[i].type /\ after[i].slotDmn = lst[i].slotDmn
         /\ after[i].schFlag = lst[i].schFlag
  BY <1>1, <1>2, <1>3
<1>6. SameNodes(after, lst) /\ SameFlags(after, lst)
  BY <1>4, <1>5 DEF SameNodes, SameFlags, ChildAddrs
<1> QED
  BY <1>4, <1>6 DEF after

\* Marking all nodes as scheduled or not changes nothing else.
LEMMA SchFlagKeepsNodes ==
    ASSUME NEW lst \in Seq(MngtNode), NEW val \in BOOLEAN
    PROVE  /\ dmSetSchFlagAll(lst, val) \in Seq(MngtNode)
           /\ SameNodes(dmSetSchFlagAll(lst, val), lst)
           /\ \A i \in 1 .. Len(lst) : dmSetSchFlagAll(lst, val)[i].schFlag = val
<1> DEFINE after == dmSetSchFlagAll(lst, val)
           mark(n) == [n EXCEPT !.schFlag = val]
<1>1. Len(lst) \in Nat /\ \A i \in 1 .. Len(lst) : lst[i] \in MngtNode
  BY LenProperties, ElementOfSeq
<1>2. ASSUME NEW n \in MngtNode
      PROVE  /\ mark(n) \in MngtNode /\ mark(n).addr = n.addr /\ mark(n).children = n.children
             /\ mark(n).class = n.class
             /\ mark(n).type = n.type /\ mark(n).slotDmn = n.slotDmn /\ mark(n).schFlag = val
  BY DEF MngtNode
<1>3. after = [i \in 1 .. Len(lst) |-> mark(lst[i])]
  BY DEF dmSetSchFlagAll
<1> HIDE DEF after, mark
<1>4. after \in Seq(MngtNode) /\ Len(after) = Len(lst)
  <2>1. after \in [1 .. Len(lst) -> MngtNode]
    BY <1>1, <1>2, <1>3
  <2> QED
    BY <1>1, <2>1, SeqDef, LenProperties
<1>5. \A i \in 1 .. Len(lst) :
         /\ after[i].addr = lst[i].addr /\ after[i].children = lst[i].children
         /\ after[i].class = lst[i].class
         /\ after[i].type = lst[i].type /\ after[i].slotDmn = lst[i].slotDmn
         /\ after[i].schFlag = val
  BY <1>1, <1>2, <1>3
<1>6. SameNodes(after, lst)
  BY <1>4, <1>5 DEF SameNodes, ChildAddrs
<1> QED
  BY <1>4, <1>5, <1>6 DEF after

-----------------------------------------------------------------------------
(* Taking a registration over into NODES.                                   *)

\* A node that was created for a registration request and not changed since.
Fresh(node) == node \in MngtNode /\ node.children = << >> /\ ~ node.schFlag

\* A node made from a registration has no children and a demand of its class.
LEMMA NodeIsFresh ==
    ASSUME NEW addr \in Addr, NEW class \in Class, NEW type \in NodeType,
           NEW parrent \in Addr \cup {NoAddr}
    PROVE  Fresh(createNewNode(addr, class, type, parrent))
<1>1. slotDemandCalculation(class) \in 0 .. Uint8 - 1
  BY DemandAssumption
<1> HIDE DEF slotDemandCalculation
<1>2. << >> \in Seq(Child)
  BY EmptySeq
<1> QED
  BY <1>1, <1>2 DEF createNewNode, MngtNode, Fresh

\* A new node brings no children.
LEMMA FreshHasNoChildren == ASSUME NEW node, Fresh(node) PROVE ChildAddrs(node) = {}
<1>1. Len(node.children) = 0
  BY EmptySeq DEF Fresh
<1> QED
  BY <1>1 DEF ChildAddrs

\* Listing a child gives the parent that child and no other.
LEMMA AddChildKeepsNode ==
    ASSUME NEW parent \in MngtNode, NEW child \in MngtNode
    PROVE  /\ dmAddChildToNode(parent, child) \in MngtNode
           /\ dmAddChildToNode(parent, child).addr = parent.addr
           /\ ChildAddrs(dmAddChildToNode(parent, child))
                 \subseteq ChildAddrs(parent) \cup {child.addr}
<1> DEFINE entry == [addr |-> child.addr, slotDemand |-> child.slotDmn]
           known == IsChildOf(parent, child.addr)
           pos   == ChildIndex(parent, child.addr)
           old   == IF known THEN parent.children[pos].slotDemand ELSE 0
           dmn   == (parent.slotDmn - 2 * old + 2 * child.slotDmn) % Uint8
           lst   == IF known THEN ReplaceAt(parent.children, pos, entry)
                    ELSE Append(parent.children, entry)
           after == dmAddChildToNode(parent, child)
<1>1. PICK chs : chs = parent.children
  OBVIOUS
<1>2. /\ chs \in Seq(Child) /\ Len(chs) \in Nat
      /\ parent.slotDmn \in 0 .. Uint8 - 1 /\ child.slotDmn \in 0 .. Uint8 - 1
      /\ child.addr \in Addr
  BY <1>1, LenProperties DEF MngtNode
<1>3. entry \in Child /\ entry.addr = child.addr
  BY <1>2 DEF Child
<1>4. ASSUME known PROVE pos \in 1 .. Len(chs) /\ chs[pos].slotDemand \in 0 .. Uint8 - 1
  <2> DEFINE S == {i \in 1 .. Len(chs) : chs[i].addr = child.addr}
  <2>1. S \subseteq Nat /\ S # {}
    BY <1>1, <1>2, <1>4 DEF IsChildOf, ChildAddrs
  <2>2. Min(S) \in S
    BY <2>1, MinOfNats
  <2>3. pos = Min(S)
    BY <1>1 DEF ChildIndex
  <2>4. pos \in 1 .. Len(chs)
    BY <2>2, <2>3
  <2> HIDE DEF pos
  <2>5. chs[pos] \in Child
    BY <1>2, <2>4, ElementOfSeq, SMTT(30)
  <2> QED
    BY <2>4, <2>5 DEF Child
<1>5. old \in 0 .. Uint8 - 1
  BY <1>1, <1>4 DEF Uint8
<1>6. dmn \in 0 .. Uint8 - 1
  <2> HIDE DEF old
  <2>1. PICK x : x = parent.slotDmn - 2 * old + 2 * child.slotDmn
    OBVIOUS
  <2>2. x \in Int
    BY <1>2, <1>5, <2>1 DEF Uint8
  <2>3. x % 256 \in 0 .. 255
    BY <2>2
  <2> QED
    BY <2>1, <2>3 DEF Uint8
<1>7. after = [parent EXCEPT !.slotDmn = dmn, !.children = lst]
  BY DEF dmAddChildToNode
<1>8. /\ lst \in Seq(Child)
      /\ \A i \in 1 .. Len(lst) : lst[i].addr \in ChildAddrs(parent) \cup {child.addr}
  <2> HIDE DEF entry, pos
  <2>1. \A i \in 1 .. Len(chs) : chs[i].addr \in ChildAddrs(parent)
    BY <1>1 DEF ChildAddrs
  <2>2. CASE known
    <3>1. lst = ReplaceAt(chs, pos, entry)
      BY <1>1, <2>2
    <3>2. /\ ReplaceAt(chs, pos, entry) \in Seq(Child)
          /\ Len(ReplaceAt(chs, pos, entry)) = Len(chs)
          /\ \A i \in 1 .. Len(chs) :
                ReplaceAt(chs, pos, entry)[i] = IF i = pos THEN entry ELSE chs[i]
      <4>1. pos \in 1 .. Len(chs)
        BY <1>4, <2>2
      <4> HIDE DEF known
      <4>2. chs \in Seq(Child)
        BY <1>2
      <4>3. entry \in Child
        BY <1>3
      <4> QED
        BY <4>1, <4>2, <4>3, ExceptSeq, SMTT(30) DEF ReplaceAt
    <3> HIDE DEF lst
    <3> QED
      BY <1>3, <2>1, <3>1, <3>2
  <2>3. CASE ~ known
    <3>1. lst = Append(chs, entry)
      BY <1>1, <2>3
    <3>2. /\ Append(chs, entry) \in Seq(Child) /\ Len(Append(chs, entry)) = Len(chs) + 1
          /\ \A i \in 1 .. Len(chs) : Append(chs, entry)[i] = chs[i]
          /\ Append(chs, entry)[Len(chs) + 1] = entry
      BY <1>2, <1>3, AppendProperties
    <3> HIDE DEF lst
    <3>3. \A i \in 1 .. Len(chs) + 1 : i \in 1 .. Len(chs) \/ i = Len(chs) + 1
      BY <1>2
    <3> QED
      BY <1>3, <2>1, <3>1, <3>2, <3>3
  <2> QED
    BY <2>2, <2>3
<1> HIDE DEF dmn, lst, after
<1>9. /\ after \in MngtNode /\ after.addr = parent.addr /\ after.children = lst
  BY <1>6, <1>7, <1>8 DEF MngtNode
<1>10. ChildAddrs(after) \subseteq ChildAddrs(parent) \cup {child.addr}
  BY <1>8, <1>9 DEF ChildAddrs
<1> QED
  BY <1>9, <1>10 DEF after

\* A list in which every node is once and has its children in the list.
Closed(lst) == ListOK(lst) /\ ChildrenIn(lst, Addrs(lst))

\* The look-up finds exactly the addresses of the list.
LEMMA KnownIsInAddrs ==
    ASSUME NEW lst, NEW addr
    PROVE  isNodeExisted(lst, addr) <=> addr \in Addrs(lst)
  BY DEF isNodeExisted, Addrs

\* More addresses do no harm.
LEMMA ChildrenInMore ==
    ASSUME NEW lst, NEW A, NEW B, ChildrenIn(lst, A), A \subseteq B
    PROVE  ChildrenIn(lst, B)
  BY DEF ChildrenIn

\* A one-hop node, new or registering again, leaves no child unknown.
LEMMA AddOnehopKeepsClosed ==
    ASSUME NEW lst, Closed(lst), NEW node, Fresh(node)
    PROVE  Closed(AddOnehopNode(lst, node))
<1> DEFINE parent == NodeAt(lst, node.addr)
           rest   == IF isNodeExisted(lst, node.addr)
                     THEN dmSetChildConnStatus(lst, parent, FALSE) ELSE lst
           A      == Addrs(lst) \cup {node.addr}
<1>1. ListOK(rest) /\ Addrs(rest) = Addrs(lst) /\ ChildrenIn(rest, Addrs(lst))
  <2>1. CASE isNodeExisted(lst, node.addr)
    <3>1. /\ dmSetChildConnStatus(lst, parent, FALSE) \in Seq(MngtNode)
          /\ SameNodes(dmSetChildConnStatus(lst, parent, FALSE), lst)
      BY ConnStatusKeepsNodes DEF Closed, ListOK
    <3> HIDE DEF parent
    <3> QED
      BY <2>1, <3>1, SameNodesKeep DEF Closed
  <2>2. CASE ~ isNodeExisted(lst, node.addr)
    BY <2>2 DEF Closed
  <2> QED
    BY <2>1, <2>2
<1>2. AddOnehopNode(lst, node) = pushNode(rest, node, TRUE)
  BY DEF AddOnehopNode
<1> HIDE DEF rest
<1>3. node \in MngtNode /\ ChildAddrs(node) \subseteq A
  BY FreshHasNoChildren DEF Fresh
<1>4. ChildrenIn(rest, A)
  BY <1>1, ChildrenInMore
<1>5. ListOK(pushNode(rest, node, TRUE)) /\ Addrs(pushNode(rest, node, TRUE)) = A
  <2>1. /\ ListOK(pushNode(rest, node, TRUE))
        /\ Addrs(pushNode(rest, node, TRUE)) = Addrs(rest) \cup {node.addr}
    BY <1>1, <1>3, PushKeepsList
  <2> QED
    BY <1>1, <2>1
<1>6. ChildrenIn(pushNode(rest, node, TRUE), A)
  BY <1>1, <1>3, <1>4, PushKeepsChildrenIn
<1> QED
  BY <1>2, <1>5, <1>6 DEF Closed

\* Taking the parent out and putting it back loses neither it nor a child.
LEMMA AddTwohopKeepsClosed ==
    ASSUME NEW lst, Closed(lst), NEW node, Fresh(node)
    PROVE  Closed(AddTwohopNode(lst, node))
<1>1. CASE ~ isNodeExisted(lst, node.parrentAddr)
  BY <1>1 DEF AddTwohopNode
<1>2. CASE isNodeExisted(lst, node.parrentAddr)
  <2> DEFINE parent == NodeAt(lst, node.parrentAddr)
             others == popNodeByAddress(lst, parent.addr)
             grown  == [dmAddChildToNode(parent, node) EXCEPT !.schFlag = FALSE]
             A      == Addrs(lst) \cup {node.addr}
  <2>1. node \in MngtNode /\ ChildAddrs(node) = {}
    BY FreshHasNoChildren DEF Fresh
  <2>2. /\ parent \in MngtNode /\ parent.addr \in Addrs(lst)
        /\ ChildAddrs(parent) \subseteq Addrs(lst)
    <3>1. PICK p : p = IndexOf(lst, node.parrentAddr)
      OBVIOUS
    <3>2. p \in 1 .. Len(lst)
      BY <1>2, <3>1, IndexOfKnown DEF Closed, ListOK
    <3>3. parent = lst[p]
      BY <3>1 DEF NodeAt
    <3> HIDE DEF parent
    <3>4. lst[p] \in MngtNode
      BY <3>2, ElementOfSeq DEF Closed, ListOK
    <3> QED
      BY <3>2, <3>3, <3>4 DEF Addrs, ChildrenIn, Closed
  <2>3. isNodeExisted(lst, parent.addr)
    BY <2>2, KnownIsInAddrs
  <2>4. AddTwohopNode(lst, node) =
           IF HasRoomFor(parent, node.addr)
           THEN pushNode(pushNode(others, grown, TRUE), node, TRUE)
           ELSE pushNode(others, parent, TRUE)
    BY <1>2 DEF AddTwohopNode
  <2> HIDE DEF parent
  <2>5. /\ ListOK(others) /\ Addrs(others) = Addrs(lst) \ {parent.addr}
        /\ ChildrenIn(others, Addrs(lst))
    BY <2>3, PopKeepsList DEF Closed
  <2> HIDE DEF others
  <2>6. CASE HasRoomFor(parent, node.addr)
    <3>1. grown \in MngtNode /\ grown.addr = parent.addr /\ ChildAddrs(grown) \subseteq A
      <4>1. PICK c : c = dmAddChildToNode(parent, node)
        OBVIOUS
      <4>2. c \in MngtNode /\ c.addr = parent.addr
            /\ ChildAddrs(c) \subseteq ChildAddrs(parent) \cup {node.addr}
        BY <2>1, <2>2, <4>1, AddChildKeepsNode
      <4>3. grown = [c EXCEPT !.schFlag = FALSE]
        BY <4>1
      <4> HIDE DEF grown
      <4>4. grown \in MngtNode /\ grown.addr = c.addr /\ grown.children = c.children
        BY <4>2, <4>3 DEF MngtNode
      <4> QED
        BY <2>2, <4>2, <4>4 DEF ChildAddrs
    <3> HIDE DEF grown
    <3>2. PICK once : once = pushNode(others, grown, TRUE)
      OBVIOUS
    <3>3. ListOK(once) /\ Addrs(once) = Addrs(lst)
      <4>1. /\ ListOK(pushNode(others, grown, TRUE))
            /\ Addrs(pushNode(others, grown, TRUE)) = Addrs(others) \cup {grown.addr}
        BY <2>5, <3>1, PushAddsAddress
      <4>2. Addrs(once) = (Addrs(lst) \ {parent.addr}) \cup {parent.addr}
        BY <2>5, <3>1, <3>2, <4>1
      <4> QED
        BY <2>2, <3>2, <4>1, <4>2
    <3>4. ChildrenIn(once, A)
      <4>1. ChildrenIn(others, A)
        BY <2>5, ChildrenInMore
      <4> QED
        BY <2>5, <3>1, <3>2, <4>1, PushKeepsChildrenIn
    <3> HIDE DEF A
    <3>5. ListOK(pushNode(once, node, TRUE)) /\ Addrs(pushNode(once, node, TRUE)) = A
      <4>1. /\ ListOK(pushNode(once, node, TRUE))
            /\ Addrs(pushNode(once, node, TRUE)) = Addrs(once) \cup {node.addr}
        BY <2>1, <3>3, PushAddsAddress
      <4> QED
        BY <3>3, <4>1 DEF A
    <3>6. ChildrenIn(pushNode(once, node, TRUE), A)
      <4>1. ChildAddrs(node) \subseteq A
        BY <2>1
      <4> QED
        BY <2>1, <3>3, <3>4, <4>1, PushKeepsChildrenIn
    <3> QED
      BY <2>4, <2>6, <3>2, <3>5, <3>6 DEF Closed
  <2>7. CASE ~ HasRoomFor(parent, node.addr)
    <3>1. PICK back : back = pushNode(others, parent, TRUE)
      OBVIOUS
    <3>2. ListOK(back) /\ Addrs(back) = Addrs(lst)
      <4>1. Addrs(back) = (Addrs(lst) \ {parent.addr}) \cup {parent.addr}
        BY <2>2, <2>5, <3>1, PushAddsAddress
      <4> QED
        BY <2>2, <2>5, <3>1, <4>1, PushAddsAddress
    <3>3. ChildrenIn(back, Addrs(lst))
      BY <2>2, <2>5, <3>1, PushKeepsChildrenIn
    <3> QED
      BY <2>4, <2>7, <3>1, <3>2, <3>3 DEF Closed
  <2> QED
    BY <2>6, <2>7
<1> QED
  BY <1>1, <1>2

-----------------------------------------------------------------------------
(* No step makes NODES shorter: the position of the scheduling loop in it   *)
(* stays one.                                                               *)

\* Pushing a node adds at most one entry.
LEMMA PushLength ==
    ASSUME NEW lst, ListOK(lst), NEW node \in MngtNode, NEW sort
    PROVE  /\ Len(pushNode(lst, node, sort)) \in Nat
           /\ Len(pushNode(lst, node, sort)) >= Len(lst)
           /\ node.addr \notin Addrs(lst) => Len(pushNode(lst, node, sort)) = Len(lst) + 1
<1>1. lst \in Seq(MngtNode) /\ Len(lst) \in Nat
  BY LenProperties DEF ListOK
<1>2. CASE isNodeExisted(lst, node.addr)
  <2>1. PICK p : p = IndexOf(lst, node.addr)
    OBVIOUS
  <2>2. p \in 1 .. Len(lst)
    BY <1>1, <1>2, <2>1, IndexOfKnown
  <2>3. Len(ReplaceAt(lst, p, node)) = Len(lst)
    BY <1>1, <2>2, ReplaceAtProperties
  <2>4. pushNode(lst, node, sort) = ReplaceAt(lst, p, node)
    BY <1>2, <2>1 DEF pushNode
  <2> QED
    BY <1>1, <1>2, <2>3, <2>4, KnownIsInAddrs
<1>3. CASE ~ isNodeExisted(lst, node.addr)
  <2>1. PICK p : p = PushPosition(lst, node, sort)
    OBVIOUS
  <2>2. p \in 1 .. Len(lst) + 1
    BY <1>1, <2>1, PushPositionInList
  <2>3. Len(InsertAt(lst, p, node)) = Len(lst) + 1
    BY <1>1, <2>2, InsertAtProperties
  <2>4. pushNode(lst, node, sort) = InsertAt(lst, p, node)
    BY <1>3, <2>1 DEF pushNode
  <2> QED
    BY <1>1, <2>3, <2>4
<1> QED
  BY <1>2, <1>3

\* A node that is not in the list adds one.
LEMMA PushNewLength ==
    ASSUME NEW lst, ListOK(lst), NEW node \in MngtNode, NEW sort, node.addr \notin Addrs(lst)
    PROVE  Len(pushNode(lst, node, sort)) = Len(lst) + 1
  BY PushLength

\* Taking a node out removes one entry.
LEMMA PopLength ==
    ASSUME NEW lst, ListOK(lst), NEW addr, isNodeExisted(lst, addr)
    PROVE  Len(popNodeByAddress(lst, addr)) = Len(lst) - 1
<1>1. PICK p : p = IndexOf(lst, addr)
  OBVIOUS
<1>2. p \in 1 .. Len(lst)
  BY <1>1, IndexOfKnown DEF ListOK
<1>3. Len(RemoveAt(lst, p)) = Len(lst) - 1
  BY <1>2, RemoveAtProperties DEF ListOK
<1> QED
  BY <1>1, <1>3 DEF popNodeByAddress

\* A one-hop registration never shortens the list.
LEMMA AddOnehopLength ==
    ASSUME NEW lst, Closed(lst), NEW node, Fresh(node)
    PROVE  Len(AddOnehopNode(lst, node)) >= Len(lst)
<1> DEFINE parent == NodeAt(lst, node.addr)
           rest   == IF isNodeExisted(lst, node.addr)
                     THEN dmSetChildConnStatus(lst, parent, FALSE) ELSE lst
<1>1. ListOK(rest) /\ Len(rest) = Len(lst)
  <2>1. CASE isNodeExisted(lst, node.addr)
    <3>1. /\ dmSetChildConnStatus(lst, parent, FALSE) \in Seq(MngtNode)
          /\ SameNodes(dmSetChildConnStatus(lst, parent, FALSE), lst)
      BY ConnStatusKeepsNodes DEF Closed, ListOK
    <3> HIDE DEF parent
    <3>2. ListOK(dmSetChildConnStatus(lst, parent, FALSE))
      BY <3>1, SameNodesKeep DEF Closed
    <3> QED
      BY <2>1, <3>1, <3>2 DEF SameNodes
  <2>2. CASE ~ isNodeExisted(lst, node.addr)
    BY <2>2 DEF Closed
  <2> QED
    BY <2>1, <2>2
<1>2. AddOnehopNode(lst, node) = pushNode(rest, node, TRUE)
  BY DEF AddOnehopNode
<1> HIDE DEF rest
<1> QED
  BY <1>1, <1>2, PushLength DEF Fresh

\* A two-hop registration never shortens the list.
LEMMA AddTwohopLength ==
    ASSUME NEW lst, Closed(lst), NEW node, Fresh(node)
    PROVE  Len(AddTwohopNode(lst, node)) >= Len(lst)
<1>0. Len(lst) \in Nat
  BY LenProperties DEF Closed, ListOK
<1>1. CASE ~ isNodeExisted(lst, node.parrentAddr)
  BY <1>0, <1>1 DEF AddTwohopNode
<1>2. CASE isNodeExisted(lst, node.parrentAddr)
  <2> DEFINE parent == NodeAt(lst, node.parrentAddr)
             others == popNodeByAddress(lst, parent.addr)
             grown  == [dmAddChildToNode(parent, node) EXCEPT !.schFlag = FALSE]
  <2>1. node \in MngtNode
    BY DEF Fresh
  <2>2. parent \in MngtNode /\ parent.addr \in Addrs(lst)
    <3>1. PICK p : p = IndexOf(lst, node.parrentAddr)
      OBVIOUS
    <3>2. p \in 1 .. Len(lst)
      BY <1>2, <3>1, IndexOfKnown DEF Closed, ListOK
    <3>3. parent = lst[p]
      BY <3>1 DEF NodeAt
    <3> HIDE DEF parent
    <3>4. lst[p] \in MngtNode
      BY <3>2, ElementOfSeq DEF Closed, ListOK
    <3> QED
      BY <3>2, <3>3, <3>4 DEF Addrs
  <2>3. isNodeExisted(lst, parent.addr)
    BY <2>2, KnownIsInAddrs
  <2>4. AddTwohopNode(lst, node) =
           IF HasRoomFor(parent, node.addr)
           THEN pushNode(pushNode(others, grown, TRUE), node, TRUE)
           ELSE pushNode(others, parent, TRUE)
    BY <1>2 DEF AddTwohopNode
  <2> HIDE DEF parent
  <2>5. ListOK(others) /\ parent.addr \notin Addrs(others) /\ Len(others) + 1 = Len(lst)
    <3>1. ListOK(others) /\ Addrs(others) = Addrs(lst) \ {parent.addr}
      BY <2>3, PopKeepsList DEF Closed
    <3>2. Len(others) = Len(lst) - 1
      BY <2>3, PopLength DEF Closed
    <3>3. Len(others) + 1 = Len(lst)
      BY <1>0, <3>2
    <3> QED
      BY <3>1, <3>3
  <2> HIDE DEF others
  <2>6. CASE HasRoomFor(parent, node.addr)
    <3>1. grown \in MngtNode /\ grown.addr = parent.addr
      <4>1. PICK c : c = dmAddChildToNode(parent, node)
        OBVIOUS
      <4>2. c \in MngtNode /\ c.addr = parent.addr
        BY <2>1, <2>2, <4>1, AddChildKeepsNode
      <4>3. grown = [c EXCEPT !.schFlag = FALSE]
        BY <4>1
      <4> HIDE DEF grown
      <4> QED
        BY <4>2, <4>3 DEF MngtNode
    <3> HIDE DEF grown
    <3>2. PICK once : once = pushNode(others, grown, TRUE)
      OBVIOUS
    <3>3. ListOK(once) /\ Len(once) = Len(lst)
      <4>1. ListOK(pushNode(others, grown, TRUE))
        BY <2>5, <3>1, PushKeepsList
      <4>2. Len(pushNode(others, grown, TRUE)) = Len(others) + 1
        <5>1. grown.addr \notin Addrs(others)
          BY <2>5, <3>1
        <5> QED
          BY <2>5, <3>1, <5>1, PushNewLength
      <4> QED
        BY <2>5, <3>2, <4>1, <4>2
    <3>4. Len(pushNode(once, node, TRUE)) >= Len(once)
      BY <2>1, <3>3, PushLength
    <3> QED
      BY <2>4, <2>6, <3>2, <3>3, <3>4
  <2>7. CASE ~ HasRoomFor(parent, node.addr)
    <3>1. Len(pushNode(others, parent, TRUE)) = Len(others) + 1
      BY <2>2, <2>5, PushNewLength
    <3>2. Len(pushNode(others, parent, TRUE)) = Len(lst)
      BY <2>5, <3>1
    <3> QED
      <4>1. AddTwohopNode(lst, node) = pushNode(others, parent, TRUE)
        BY <2>4, <2>7
      <4>2. Len(AddTwohopNode(lst, node)) = Len(lst)
        BY <3>2, <4>1
      <4>3. PICK n \in Nat : n = Len(lst)
        BY <1>0
      <4>4. n >= n
        OBVIOUS
      <4> QED
        BY <4>2, <4>3, <4>4
  <2> QED
    BY <2>6, <2>7
<1> QED
  BY <1>1, <1>2

-----------------------------------------------------------------------------
(* The inductive invariant.  A registration that waits must be fresh: it    *)
(* overwrites the node it is about, and children it brought along might not *)
(* be in NODES.                                                             *)

AllFresh(lst) == \A i \in 1 .. Len(lst) : Fresh(lst[i])

IInv ==
    /\ TypeOK
    /\ ListOK(RNL) /\ AllFresh(RNL)
    /\ AllFresh(handling)
    /\ Closed(NODES)

\* All lists start empty.
LEMMA InitIInv == Init => IInv
<1> SUFFICES ASSUME Init PROVE IInv
  OBVIOUS
<1>1. << >> \in Seq(MngtNode) /\ Len(<< >>) = 0
  BY EmptySeq
<1>2. ListOK(<< >>) /\ AllFresh(<< >>) /\ Closed(<< >>)
  BY <1>1 DEF ListOK, Unique, AllFresh, Closed, ChildrenIn
<1>3. TypeOK
  <2>1. RNL = << >> /\ NODES = << >> /\ handling = << >>
    BY DEF Init
  <2>2. cursor \in 0 .. Len(NODES) /\ rrs \in 0 .. MaxRrs /\ phaseTransCount \in 0 .. PhaseTransPeriod
    BY <1>1, <2>1, MacAssumption DEF Init
  <2>3. pc \in {"frame", "collect", "schedule", "send"} /\ phaseTransRequest \in BOOLEAN
    BY DEF Init
  <2> QED
    BY <1>1, <2>1, <2>2, <2>3 DEF TypeOK
<1> QED
  BY <1>2, <1>3 DEF Init, IInv

\* What is left of a list of fresh nodes without its first.
LEMMA TailOfFresh ==
    ASSUME NEW lst \in Seq(MngtNode), lst # << >>, AllFresh(lst)
    PROVE  /\ Fresh(Head(lst))
           /\ Tail(lst) \in Seq(MngtNode) /\ AllFresh(Tail(lst))
           /\ Unique(lst) => Unique(Tail(lst))
<1>1. Len(lst) \in Nat \ {0}
  BY LenProperties, EmptySeq
<1>2. Head(lst) = lst[1] /\ 1 \in 1 .. Len(lst)
  BY <1>1
<1>3. /\ Tail(lst) \in Seq(MngtNode) /\ Len(Tail(lst)) = Len(lst) - 1
      /\ \A i \in 1 .. Len(Tail(lst)) : Tail(lst)[i] = lst[i + 1]
  BY HeadTailProperties
<1>4. \A i \in 1 .. Len(Tail(lst)) : i + 1 \in 1 .. Len(lst)
  BY <1>1, <1>3
<1>5. AllFresh(Tail(lst))
  BY <1>3, <1>4 DEF AllFresh
<1>6. ASSUME Unique(lst), NEW i \in 1 .. Len(Tail(lst)), NEW j \in 1 .. Len(Tail(lst)),
             Tail(lst)[i].addr = Tail(lst)[j].addr
      PROVE  i = j
  <2>1. lst[i + 1].addr = lst[j + 1].addr
    BY <1>3, <1>6
  <2>2. i + 1 = j + 1
    BY <1>4, <1>6, <2>1 DEF Unique
  <2> QED
    BY <1>1, <1>3, <2>2
<1> QED
  BY <1>2, <1>3, <1>5, <1>6 DEF AllFresh, Unique

\* A request puts a new node at the end of the RNL.
LEMMA ReceiveRrKeeps ==
    ASSUME IInv, NEW rr \in RegistrationRequests, ReceiveRr(rr)
    PROVE  handling' \in Seq(MngtNode) /\ AllFresh(handling')
<1> DEFINE nodes == rr.nodes
<1>1. /\ rr.src \in Addr /\ nodes \in Seq([addr : Addr, class : Class])
      /\ Len(nodes) \in Nat
  BY MacAssumption, LenProperties DEF RegistrationRequest
<1>2. ASSUME NEW i \in 1 .. Len(nodes)
      PROVE  Fresh(NodeOf(rr, nodes[i]))
  <2>1. nodes[i].addr \in Addr /\ nodes[i].class \in Class
    <3>1. nodes[i] \in [addr : Addr, class : Class]
      BY <1>1, ElementOfSeq
    <3> QED
      BY <3>1
  <2>2. Fresh(createNewNode(nodes[i].addr, nodes[i].class, "Onehop", NoAddr))
    BY <2>1, NodeIsFresh DEF NodeType
  <2>3. Fresh(createNewNode(nodes[i].addr, nodes[i].class, "Twohop", rr.src))
    BY <1>1, <2>1, NodeIsFresh DEF NodeType
  <2> QED
    BY <2>2, <2>3 DEF NodeOf
<1>3. handling' = [i \in 1 .. Len(nodes) |-> NodeOf(rr, nodes[i])]
  BY DEF ReceiveRr
<1> HIDE DEF nodes
<1>4. handling' \in [1 .. Len(nodes) -> MngtNode]
  BY <1>2, <1>3 DEF Fresh
<1>5. handling' \in Seq(MngtNode) /\ Len(handling') = Len(nodes)
  BY <1>1, <1>4, SeqDef, LenProperties
<1> QED
  BY <1>2, <1>3, <1>5 DEF AllFresh

\* A node goes from the RNL to the list being handled.
LEMMA RegisterNodeKeeps ==
    ASSUME IInv, RegisterNode
    PROVE  /\ ListOK(RNL') /\ AllFresh(RNL')
           /\ handling' \in Seq(MngtNode) /\ AllFresh(handling')
<1>1. PICK node : node = Head(handling)
  OBVIOUS
<1>2. /\ Fresh(node) /\ node \in MngtNode
      /\ handling' \in Seq(MngtNode) /\ AllFresh(handling')
  BY <1>1, TailOfFresh DEF IInv, TypeOK, RegisterNode, Fresh
<1>3. PICK sort : RNL' = pushNode(RNL, node, sort)
  BY <1>1 DEF RegisterNode
<1>4. ListOK(pushNode(RNL, node, sort))
      /\ \A i \in 1 .. Len(pushNode(RNL, node, sort)) :
            \/ pushNode(RNL, node, sort)[i] = node
            \/ \E k \in 1 .. Len(RNL) : pushNode(RNL, node, sort)[i] = RNL[k]
  <2>1. ListOK(RNL)
    BY DEF IInv
  <2> QED
    BY <1>2, <2>1, PushKeepsList
<1>5. AllFresh(RNL')
  BY <1>2, <1>3, <1>4 DEF AllFresh, IInv
<1> QED
  BY <1>2, <1>3, <1>4, <1>5

\* A collected node is entered in NODES.
LEMMA CollectNodeKeeps ==
    ASSUME IInv, CollectNode
    PROVE  /\ Closed(NODES') /\ Len(NODES') >= Len(NODES)
           /\ ListOK(RNL') /\ AllFresh(RNL')
<1>1. PICK node : node = Head(RNL)
  OBVIOUS
<1>2. Fresh(node) /\ ListOK(RNL') /\ AllFresh(RNL')
  BY <1>1, TailOfFresh DEF IInv, ListOK, CollectNode
<1>3. NODES' = AddOnehopNode(NODES, node) \/ NODES' = AddTwohopNode(NODES, node)
  BY <1>1 DEF CollectNode
<1>4. Closed(NODES)
  BY DEF IInv
<1> QED
  BY <1>2, <1>3, <1>4, AddOnehopKeepsClosed, AddTwohopKeepsClosed, AddOnehopLength,
     AddTwohopLength

\* Marks leave the list closed.
LEMMA SameNodesClosed ==
    ASSUME NEW lst, Closed(lst), NEW after \in Seq(MngtNode), SameNodes(after, lst)
    PROVE  Closed(after) /\ Len(after) = Len(lst)
<1>1. ListOK(after) /\ Addrs(after) = Addrs(lst) /\ ChildrenIn(after, Addrs(lst))
  BY SameNodesKeep DEF Closed
<1> QED
  BY <1>1 DEF Closed, SameNodes

\* The scheduling loop's position stays within the list although a node is moved.
LEMMA ScheduleNextKeeps ==
    ASSUME IInv, ScheduleNext
    PROVE  /\ Closed(NODES') /\ Len(NODES') = Len(NODES)
           /\ NODES' = NODES \/ SameNodes(NODES', NODES)
           /\ cursor' \in 0 .. Len(NODES)
<1>1. PICK i : i = Min(Unscheduled)
  OBVIOUS
<1>2. Closed(NODES) /\ NODES \in Seq(MngtNode) /\ Len(NODES) \in Nat /\ cursor \in Nat
  BY LenProperties DEF IInv, TypeOK
<1>3. i \in 1 .. Len(NODES) /\ cursor' = i
  <2>1. Unscheduled \subseteq Nat /\ Unscheduled # {}
    BY <1>2 DEF ScheduleNext, Unscheduled
  <2>2. i \in Unscheduled
    BY <1>1, <2>1, MinOfNats
  <2>3. i \in 1 .. Len(NODES)
    BY <1>2, <2>2 DEF Unscheduled
  <2> QED
    BY <1>1, <2>3 DEF ScheduleNext
<1>4. PICK marked : marked = [NODES EXCEPT ![i].schFlag = TRUE, ![i].isConnected = TRUE]
  OBVIOUS
<1>5. marked \in Seq(MngtNode) /\ SameNodes(marked, NODES)
  <2>1. PICK n : n = [NODES[i] EXCEPT !.schFlag = TRUE, !.isConnected = TRUE]
    OBVIOUS
  <2>2. NODES[i] \in MngtNode
    BY <1>2, <1>3, ElementOfSeq
  <2>3. n \in MngtNode /\ n.addr = NODES[i].addr /\ n.children = NODES[i].children
        /\ n.type = NODES[i].type /\ n.slotDmn = NODES[i].slotDmn /\ n.class = NODES[i].class
    BY <2>1, <2>2 DEF MngtNode
  <2>4. marked = [NODES EXCEPT ![i] = n]
    BY <1>4, <2>1
  <2>5. /\ marked \in Seq(MngtNode) /\ Len(marked) = Len(NODES)
        /\ \A j \in 1 .. Len(NODES) : marked[j] = IF j = i THEN n ELSE NODES[j]
    BY <1>2, <1>3, <2>3, <2>4, ExceptSeq
  <2> QED
    BY <2>3, <2>5 DEF SameNodes, ChildAddrs
<1>6. Closed(marked) /\ Len(marked) = Len(NODES)
  BY <1>2, <1>5, SameNodesClosed
<1>7. PICK connected : connected = dmSetChildConnStatus(marked, NODES[i], TRUE)
  OBVIOUS
<1>8. connected \in Seq(MngtNode) /\ SameNodes(connected, marked)
  BY <1>5, <1>7, ConnStatusKeepsNodes
<1>9. Closed(connected) /\ Len(connected) = Len(NODES)
  BY <1>6, <1>8, SameNodesClosed
<1>10. NODES' = NODES \/ NODES' = connected
  BY <1>1, <1>4, <1>7 DEF ScheduleNext
<1>11. SameNodes(connected, NODES)
  BY <1>5, <1>8 DEF SameNodes
<1> QED
  BY <1>2, <1>3, <1>9, <1>10, <1>11

\* One case for each step of the two threads.
LEMMA NextKeepsIInv == IInv /\ [Next]_vars => IInv'
<1> SUFFICES ASSUME IInv, [Next]_vars PROVE IInv'
  OBVIOUS
<1> USE DEF IInv, inputVars
<1>0. Len(NODES) \in Nat
  BY LenProperties DEF TypeOK
<1>1. CASE BeginFrame
  BY <1>1, MacAssumption DEF BeginFrame, TypeOK, Closed
<1>2. CASE BeginScheduleDist
  <2>1. /\ dmSetSchFlagAll(NODES, FALSE) \in Seq(MngtNode)
        /\ SameNodes(dmSetSchFlagAll(NODES, FALSE), NODES)
    BY SchFlagKeepsNodes DEF TypeOK
  <2>2. NODES' \in Seq(MngtNode) /\ Closed(NODES') /\ Len(NODES') = Len(NODES)
    BY <1>2, <2>1, SameNodesClosed DEF BeginScheduleDist
  <2> QED
    <3>1. cursor' \in 0 .. Len(NODES') /\ phaseTransRequest' \in BOOLEAN /\ pc' = "schedule"
      <4>1. cursor' = 0 /\ phaseTransRequest' = FALSE /\ pc' = "schedule"
        BY <1>2 DEF BeginScheduleDist
      <4>2. Len(NODES') \in Nat
        BY <1>0, <2>2
      <4>3. 0 \in 0 .. Len(NODES')
        BY <4>2
      <4> QED
        BY <4>1, <4>3
    <3>2. UNCHANGED <<RNL, phaseTransCount, handling, rrs>>
      BY <1>2 DEF BeginScheduleDist
    <3> QED
      BY <2>2, <3>1, <3>2 DEF TypeOK
<1>3. CASE CollectNode
  <2>1. /\ Closed(NODES') /\ Len(NODES') >= Len(NODES) /\ ListOK(RNL') /\ AllFresh(RNL')
    BY <1>3, CollectNodeKeeps
  <2>2. NODES' \in Seq(MngtNode) /\ RNL' \in Seq(MngtNode) /\ Len(NODES') \in Nat
    BY <2>1, LenProperties DEF Closed, ListOK
  <2>3. UNCHANGED <<phaseTransRequest, phaseTransCount, pc, cursor, handling, rrs>>
    BY <1>3 DEF CollectNode
  <2> QED
    BY <1>0, <2>1, <2>2, <2>3 DEF TypeOK
<1>4. CASE EndCollect
  BY <1>0, <1>4 DEF EndCollect, TypeOK
<1>5. CASE ScheduleNext
  <2>1. Closed(NODES') /\ Len(NODES') = Len(NODES) /\ cursor' \in 0 .. Len(NODES)
    BY <1>5, ScheduleNextKeeps
  <2>2. NODES' \in Seq(MngtNode)
    BY <2>1 DEF Closed, ListOK
  <2>3. UNCHANGED <<RNL, phaseTransRequest, phaseTransCount, pc, handling, rrs>>
    BY <1>5 DEF ScheduleNext
  <2> QED
    BY <2>1, <2>2, <2>3 DEF TypeOK
<1>6. CASE EndSchedule
  BY <1>6 DEF EndSchedule, TypeOK
<1>7. CASE SendCm
  BY <1>7 DEF SendCm, TypeOK
<1>8. CASE SendSm
  BY <1>8 DEF SendSm, TypeOK
<1>9. CASE BeginDataCollection
  BY <1>9, MacAssumption DEF BeginDataCollection, TypeOK
<1>10. CASE RegisterNode
  <2>1. /\ ListOK(RNL') /\ AllFresh(RNL')
        /\ handling' \in Seq(MngtNode) /\ AllFresh(handling')
    BY <1>10, RegisterNodeKeeps
  <2>2. UNCHANGED <<NODES, phaseTransRequest, phaseTransCount, pc, cursor, rrs>>
    BY <1>10 DEF RegisterNode
  <2> QED
    BY <2>1, <2>2 DEF TypeOK, ListOK
<1>11. CASE \E rr \in RegistrationRequests : ReceiveRr(rr)
  <2>1. PICK rr \in RegistrationRequests : ReceiveRr(rr)
    BY <1>11
  <2>2. handling' \in Seq(MngtNode) /\ AllFresh(handling')
    BY <2>1, ReceiveRrKeeps
  <2>3. /\ UNCHANGED <<RNL, NODES, phaseTransRequest, phaseTransCount, pc, cursor>>
        /\ rrs < MaxRrs /\ rrs' = rrs + 1
    BY <2>1 DEF ReceiveRr
  <2> QED
    BY <2>2, <2>3, MacAssumption DEF TypeOK
<1>12. CASE RequestPhaseTrans
  BY <1>12 DEF RequestPhaseTrans, TypeOK
<1>13. CASE UNCHANGED vars
  BY <1>13 DEF vars, TypeOK
<1> QED
  BY <1>1, <1>2, <1>3, <1>4, <1>5, <1>6, <1>7, <1>8, <1>9, <1>10, <1>11, <1>12, <1>13
     DEF Next, phaseHandlerThread, inputMsgHandlerThread

(* The types of the MAC's state hold in every reachable state: in           *)
(* particular the position of the scheduling loop is one of the list,       *)
(* although nodes are taken out of it and put back.                         *)
THEOREM TypeCorrect == Spec => []TypeOK
<1>1. IInv => TypeOK
  BY DEF IInv
<1> QED
  BY <1>1, InitIInv, NextKeepsIInv, PTL DEF Spec

(* A node is one entry of NODES, for any registrations in any order.        *)
THEOREM OneEntryEach == Spec => []NodesUnique
<1>1. IInv => NodesUnique
  BY DEF IInv, Closed, ListOK, Unique, NodesUnique
<1> QED
  BY <1>1, InitIInv, NextKeepsIInv, PTL DEF Spec

(* The look-up of a listed child, whose result the code uses unchecked,     *)
(* always finds it.                                                         *)
THEOREM ChildrenFound == Spec => []ChildrenKnown
<1>1. IInv => ChildrenKnown
  BY KnownIsInAddrs DEF IInv, Closed, ChildrenIn, ChildrenKnown, Known
<1> QED
  BY <1>1, InitIInv, NextKeepsIInv, PTL DEF Spec

-----------------------------------------------------------------------------
(* The table of schedules, as far as the nodes have to fit to it: who owns  *)
(* how many slots.  Where the slots are is the scheduler's business.        *)

Entry == [addr : Addr, startLSI : Int, slotDemand : Nat, nboSchDist : Int]

\* Every group has its list, in which a node is at most once.
TableOK(t) ==
    /\ DOMAIN t = Sched!Groups
    /\ \A g \in Sched!Groups : t[g].nodes \in Seq(Entry) /\ Unique(t[g].nodes)

In(s, e) == \E k \in 1 .. Len(s) : s[k] = e

\* The list has lost the node addr, or gained the entry e, and is the same
\* in all else but its order.
Without(before, after, addr) ==
    /\ after \in Seq(Entry) /\ Unique(after)
    /\ \A x : In(after, x) <=> In(before, x) /\ x.addr # addr

WithNew(before, after, e) ==
    /\ after \in Seq(Entry) /\ Unique(after)
    /\ \A x : In(after, x) <=> In(before, x) \/ x = e

\* The library's operators are the same ones in the scheduler.
LEMMA SameMin == ASSUME NEW S PROVE Sched!Min(S) = Min(S)
  BY DEF Sched!Min, Min

LEMMA SameLibrary ==
    ASSUME NEW s, NEW p, NEW e
    PROVE  Sched!RemoveAt(s, p) = RemoveAt(s, p) /\ Sched!InsertAt(s, p, e) = InsertAt(s, p, e)
  BY DEF Sched!RemoveAt, RemoveAt, Sched!InsertAt, InsertAt

\* Removing a position loses the node there.
LEMMA RemovedIsWithout ==
    ASSUME NEW s \in Seq(Entry), Unique(s), NEW p \in 1 .. Len(s)
    PROVE  Without(s, RemoveAt(s, p), s[p].addr)
<1> DEFINE after == RemoveAt(s, p)
<1>1. /\ Len(s) \in Nat /\ p \in Nat
      /\ after \in Seq(Entry) /\ Len(after) = Len(s) - 1
      /\ \A i \in 1 .. Len(s) - 1 : after[i] = IF i < p THEN s[i] ELSE s[i + 1]
  BY LenProperties, RemoveAtProperties
<1> HIDE DEF after
<1>2. ASSUME NEW i \in 1 .. Len(after)
      PROVE  \E k \in 1 .. Len(s) : /\ after[i] = s[k] /\ k # p
                                    /\ k = IF i < p THEN i ELSE i + 1
  <2>1. CASE i < p
    BY <1>1, <2>1
  <2>2. CASE ~ (i < p)
    <3>1. i + 1 \in 1 .. Len(s) /\ after[i] = s[i + 1] /\ i + 1 # p
      BY <1>1, <2>2
    <3> QED
      BY <2>2, <3>1
  <2> QED
    BY <2>1, <2>2
<1>3. ASSUME NEW i \in 1 .. Len(after), NEW j \in 1 .. Len(after),
             after[i].addr = after[j].addr
      PROVE  i = j
  <2>1. PICK k \in 1 .. Len(s) : after[i] = s[k] /\ k = IF i < p THEN i ELSE i + 1
    BY <1>2
  <2>2. PICK m \in 1 .. Len(s) : after[j] = s[m] /\ m = IF j < p THEN j ELSE j + 1
    BY <1>2
  <2>3. k = m
    BY <1>3, <2>1, <2>2 DEF Unique
  <2> QED
    BY <1>1, <2>1, <2>2, <2>3
<1>4. ASSUME NEW k \in 1 .. Len(s), s[k].addr # s[p].addr
      PROVE  In(after, s[k])
  <2>1. k # p
    BY <1>4
  <2>2. PICK i : i = IF k < p THEN k ELSE k - 1
    OBVIOUS
  <2>3. i \in 1 .. Len(after) /\ k = IF i < p THEN i ELSE i + 1
    BY <1>1, <2>1, <2>2
  <2>4. after[i] = s[k]
    BY <1>1, <2>3
  <2> QED
    BY <2>3, <2>4 DEF In
<1>5. ASSUME NEW x, In(after, x)
      PROVE  In(s, x) /\ x.addr # s[p].addr
  <2>1. PICK i \in 1 .. Len(after) : after[i] = x
    BY <1>5 DEF In
  <2>2. PICK k \in 1 .. Len(s) : after[i] = s[k] /\ k # p
    BY <1>2
  <2>3. s[k].addr # s[p].addr
    BY <2>2 DEF Unique
  <2> QED
    BY <2>1, <2>2, <2>3 DEF In
<1>6. ASSUME NEW x, In(s, x), x.addr # s[p].addr
      PROVE  In(after, x)
  BY <1>4, <1>6 DEF In
<1>7. Unique(after)
  BY <1>3 DEF Unique
<1> QED
  BY <1>1, <1>5, <1>6, <1>7 DEF Without, after

\* Inserting an entry of a node that is not in the list.
LEMMA InsertedIsNew ==
    ASSUME NEW s \in Seq(Entry), Unique(s), NEW p \in 1 .. Len(s) + 1, NEW e \in Entry,
           \A x : In(s, x) => x.addr # e.addr
    PROVE  WithNew(s, InsertAt(s, p, e), e)
<1> DEFINE after == InsertAt(s, p, e)
<1>1. /\ Len(s) \in Nat /\ p \in Nat
      /\ after \in Seq(Entry) /\ Len(after) = Len(s) + 1
      /\ \A i \in 1 .. Len(s) + 1 :
            after[i] = IF i < p THEN s[i] ELSE IF i = p THEN e ELSE s[i - 1]
  <2>1. Len(s) \in Nat /\ p \in Nat
    BY LenProperties
  <2>2. /\ InsertAt(s, p, e) \in Seq(Entry)
        /\ Len(InsertAt(s, p, e)) = Len(s) + 1
        /\ \A i \in 1 .. Len(s) + 1 :
              InsertAt(s, p, e)[i] = IF i < p THEN s[i] ELSE IF i = p THEN e ELSE s[i - 1]
    BY InsertAtProperties
  <2> HIDE DEF after
  <2> QED
    BY <2>1, <2>2 DEF after
<1> HIDE DEF after
<1>2. ASSUME NEW i \in 1 .. Len(after), i # p
      PROVE  \E k \in 1 .. Len(s) : /\ after[i] = s[k]
                                    /\ k = IF i < p THEN i ELSE i - 1
  <2>1. CASE i < p
    BY <1>1, <2>1
  <2>2. CASE i > p
    <3>1. i - 1 \in 1 .. Len(s) /\ after[i] = s[i - 1]
      BY <1>1, <2>2
    <3> QED
      BY <1>1, <2>2, <3>1
  <2> QED
    BY <1>1, <1>2, <2>1, <2>2
<1>3. p \in 1 .. Len(after) /\ after[p] = e
  BY <1>1
<1>4. \A k \in 1 .. Len(s) : s[k].addr # e.addr
  BY DEF In
<1>5. ASSUME NEW i \in 1 .. Len(after), NEW j \in 1 .. Len(after),
             after[i].addr = after[j].addr
      PROVE  i = j
  <2>1. CASE i = p \/ j = p
    BY <1>2, <1>3, <1>4, <1>5, <2>1
  <2>2. CASE i # p /\ j # p
    <3>1. PICK k \in 1 .. Len(s) : after[i] = s[k] /\ k = IF i < p THEN i ELSE i - 1
      BY <1>2, <2>2
    <3>2. PICK m \in 1 .. Len(s) : after[j] = s[m] /\ m = IF j < p THEN j ELSE j - 1
      BY <1>2, <2>2
    <3>3. k = m
      BY <1>5, <3>1, <3>2 DEF Unique
    <3> QED
      BY <1>1, <2>2, <3>1, <3>2, <3>3
  <2> QED
    BY <2>1, <2>2
<1>6. ASSUME NEW k \in 1 .. Len(s)
      PROVE  In(after, s[k])
  <2>1. PICK i : i = IF k < p THEN k ELSE k + 1
    OBVIOUS
  <2>2. i \in 1 .. Len(after) /\ i # p /\ k = IF i < p THEN i ELSE i - 1
    BY <1>1, <2>1
  <2>3. after[i] = s[k]
    BY <1>1, <2>2
  <2> QED
    BY <2>2, <2>3 DEF In
<1>7. ASSUME NEW x, In(after, x)
      PROVE  In(s, x) \/ x = e
  <2>1. PICK i \in 1 .. Len(after) : after[i] = x
    BY <1>7 DEF In
  <2> QED
    BY <1>2, <1>3, <2>1 DEF In
<1>8. In(after, e)
  BY <1>3 DEF In
<1>9. Unique(after)
  BY <1>5 DEF Unique
<1>10. \A x : In(s, x) => In(after, x)
  BY <1>6 DEF In
<1> QED
  BY <1>1, <1>7, <1>8, <1>9, <1>10 DEF WithNew, after

\* The schedule of a node is taken out of a list.
LEMMA RemoveOneNodeLoses ==
    ASSUME NEW l, l.nodes \in Seq(Entry), Unique(l.nodes), NEW addr
    PROVE  Without(l.nodes, Sched!smRemoveOneNode(l, addr).nodes, addr)
<1> DEFINE S == {i \in 1 .. Len(l.nodes) : l.nodes[i].addr = addr}
<1>0. Len(l.nodes) \in Nat
  BY LenProperties
<1>1. CASE S = {}
  <2>1. Sched!smRemoveOneNode(l, addr) = l
    BY <1>1 DEF Sched!smRemoveOneNode, Sched!IsScheduledIn
  <2> QED
    BY <1>1, <2>1 DEF Without, In
<1>2. CASE S # {}
  <2>1. PICK p : p = Min(S)
    OBVIOUS
  <2>2. S \subseteq Nat
    BY <1>0
  <2>3. p \in S
    BY <1>2, <2>1, <2>2, MinOfNats
  <2>4. p \in 1 .. Len(l.nodes) /\ l.nodes[p].addr = addr
    BY <2>3
  <2>5. Sched!smRemoveOneNode(l, addr).nodes = RemoveAt(l.nodes, p)
    <3>1. Sched!PositionOf(l, addr) = p
      BY <2>1, SameMin DEF Sched!PositionOf
    <3>2. Sched!IsScheduledIn(l, addr)
      BY <2>4 DEF Sched!IsScheduledIn
    <3> QED
      BY <3>1, <3>2, SameLibrary DEF Sched!smRemoveOneNode
  <2>6. Without(l.nodes, RemoveAt(l.nodes, p), l.nodes[p].addr)
    BY <2>4, RemovedIsWithout
  <2> QED
    BY <2>4, <2>5, <2>6
<1> QED
  BY <1>1, <1>2

\* What scheduling a node puts into a list.
LEMMA ScheduleOneNodeAdds ==
    ASSUME NEW l, l.nodes \in Seq(Entry), Unique(l.nodes), NEW addr \in Addr,
           NEW demand \in Nat, NEW dist \in Int, \A x : In(l.nodes, x) => x.addr # addr
    PROVE  \/ Sched!smScheduleOneNode(l, addr, demand, dist) = l
           \/ \E e \in Entry :
                 /\ e.addr = addr /\ e.slotDemand = demand
                 /\ WithNew(l.nodes, Sched!smScheduleOneNode(l, addr, demand, dist).nodes, e)
<1> DEFINE nodes == l.nodes
           lsi == Sched!smAssignLsiToNode(nodes, demand)
           e == [addr |-> addr, startLSI |-> lsi, slotDemand |-> demand, nboSchDist |-> dist]
           gaps == Sched!GapsAfter(nodes, demand)
<1>0. Len(nodes) \in Nat /\ \A i \in 1 .. Len(nodes) : nodes[i] \in Entry
  BY LenProperties, ElementOfSeq
<1>1. lsi \in Int
  <2>1. gaps # {} => Sched!Min(gaps) \in gaps
    <3>1. gaps \subseteq Nat
      BY <1>0 DEF Sched!GapsAfter
    <3> HIDE DEF gaps
    <3> QED
      BY <3>1, SameMin, MinOfNats
  <2>2. gaps \subseteq 1 .. Len(nodes)
    BY DEF Sched!GapsAfter
  <2>3. lsi = IF nodes = << >> \/ nodes[1].startLSI > demand THEN 1
              ELSE IF gaps = {} THEN 0 ELSE Sched!LastLsi(nodes[Sched!Min(gaps)]) + 1
    BY DEF Sched!smAssignLsiToNode
  <2>4. \A i \in 1 .. Len(nodes) : Sched!LastLsi(nodes[i]) + 1 \in Int
    BY <1>0 DEF Entry, Sched!LastLsi
  <2> HIDE DEF gaps, lsi, nodes
  <2> QED
    BY <2>1, <2>2, <2>3, <2>4
<1>2. e \in Entry /\ e.addr = addr /\ e.slotDemand = demand
  <2> HIDE DEF lsi
  <2> QED
    BY <1>1 DEF Entry
<1>3. PICK p : p = Sched!InsertPosition(nodes, e.startLSI)
  OBVIOUS
<1>4. p \in 1 .. Len(nodes) + 1
  <2> DEFINE later == {i \in 1 .. Len(nodes) : nodes[i].startLSI > e.startLSI}
  <2>1. p = IF later = {} THEN Len(nodes) + 1 ELSE Sched!Min(later)
    BY <1>3 DEF Sched!InsertPosition
  <2>2. later \subseteq Nat /\ later \subseteq 1 .. Len(nodes)
    BY <1>0
  <2> HIDE DEF later
  <2>3. later # {} => Sched!Min(later) \in later
    BY <2>2, SameMin, MinOfNats
  <2> QED
    BY <1>0, <2>1, <2>2, <2>3
<1>5. CASE Sched!CanSchedule(l, demand)
  <2>1. Sched!smScheduleOneNode(l, addr, demand, dist).nodes = InsertAt(nodes, p, e)
    BY <1>3, <1>5, SameLibrary DEF Sched!smScheduleOneNode, Sched!smAddNodeToScheduleList
  <2>2. WithNew(nodes, InsertAt(nodes, p, e), e)
    <3> HIDE DEF e
    <3> QED
      BY <1>2, <1>4, InsertedIsNew
  <2> QED
    BY <1>2, <2>1, <2>2
<1>6. CASE ~ Sched!CanSchedule(l, demand)
  BY <1>6 DEF Sched!smScheduleOneNode
<1> QED
  BY <1>5, <1>6

\* Taking a node out of every group.
LEMMA RemoveLeavesTable ==
    ASSUME NEW t, TableOK(t), NEW addr
    PROVE  /\ TableOK(Sched!removeNodeFromSchedule(t, addr))
           /\ \A g \in Sched!Groups :
                 Without(t[g].nodes, Sched!removeNodeFromSchedule(t, addr)[g].nodes, addr)
<1> DEFINE after == Sched!removeNodeFromSchedule(t, addr)
<1>1. after = [g \in Sched!Groups |-> Sched!smRemoveOneNode(t[g], addr)]
  BY DEF Sched!removeNodeFromSchedule
<1> HIDE DEF after
<1>2. \A g \in Sched!Groups : Without(t[g].nodes, after[g].nodes, addr)
  BY <1>1, RemoveOneNodeLoses DEF TableOK
<1>3. TableOK(after)
  BY <1>1, <1>2 DEF TableOK, Without
<1> QED
  BY <1>2, <1>3 DEF after

\* Of a node that is scheduled anew the table holds the new schedule or none;
\* all others keep theirs.
Rescheduled(t, after, addr, demand) ==
    /\ TableOK(after)
    /\ \A g \in Sched!Groups : \A x :
          /\ In(after[g].nodes, x) =>
                \/ In(t[g].nodes, x) /\ x.addr # addr
                \/ x.addr = addr /\ x.slotDemand = demand
          /\ In(t[g].nodes, x) /\ x.addr # addr => In(after[g].nodes, x)

LEMMA ScheduleNodeReschedules ==
    ASSUME NEW t, TableOK(t), NEW addr \in Addr, NEW demand \in Nat, NEW dist \in Int
    PROVE  Rescheduled(t, Sched!scheduleNode(t, addr, demand, dist), addr, demand)
<1> DEFINE after == Sched!scheduleNode(t, addr, demand, dist)
<1>1. PICK rest : rest = Sched!removeNodeFromSchedule(t, addr)
  OBVIOUS
<1>2. PICK h : h = Sched!getIndexOfLowestLoadSch(rest)
  OBVIOUS
<1>3. after = [rest EXCEPT ![h] = Sched!smScheduleOneNode(@, addr, demand, dist)]
  BY <1>1, <1>2 DEF Sched!scheduleNode
<1> HIDE DEF after
<1>4. /\ TableOK(rest)
      /\ \A g \in Sched!Groups : Without(t[g].nodes, rest[g].nodes, addr)
  BY <1>1, RemoveLeavesTable
<1>5. DOMAIN after = Sched!Groups
  BY <1>3, <1>4 DEF TableOK
<1>6. ASSUME NEW g \in Sched!Groups
      PROVE  /\ after[g].nodes \in Seq(Entry) /\ Unique(after[g].nodes)
             /\ \A x : /\ In(after[g].nodes, x) =>
                             \/ In(t[g].nodes, x) /\ x.addr # addr
                             \/ x.addr = addr /\ x.slotDemand = demand
                       /\ In(t[g].nodes, x) /\ x.addr # addr => In(after[g].nodes, x)
  <2>1. CASE after[g] = rest[g]
    BY <1>4, <2>1 DEF TableOK, Without
  <2>2. CASE after[g] # rest[g]
    <3>1. after[g] = Sched!smScheduleOneNode(rest[g], addr, demand, dist)
      BY <1>3, <1>4, <2>2 DEF TableOK
    <3>2. /\ rest[g].nodes \in Seq(Entry) /\ Unique(rest[g].nodes)
          /\ \A x : In(rest[g].nodes, x) => x.addr # addr
      BY <1>4 DEF TableOK, Without
    <3>3. PICK e \in Entry : /\ e.addr = addr /\ e.slotDemand = demand
                             /\ WithNew(rest[g].nodes, after[g].nodes, e)
      BY <2>2, <3>1, <3>2, ScheduleOneNodeAdds
    <3>4. Without(t[g].nodes, rest[g].nodes, addr)
      BY <1>4
    <3> QED
      BY <3>3, <3>4 DEF Without, WithNew
  <2> QED
    BY <2>1, <2>2
<1> QED
  BY <1>5, <1>6 DEF Rescheduled, TableOK, after

\* Announcements change neither the owners nor their slots.
Announced(t, after) ==
    /\ TableOK(after)
    /\ \A g \in Sched!Groups :
          /\ Len(after[g].nodes) = Len(t[g].nodes)
          /\ \A k \in 1 .. Len(t[g].nodes) :
                /\ after[g].nodes[k].addr = t[g].nodes[k].addr
                /\ after[g].nodes[k].slotDemand = t[g].nodes[k].slotDemand

LEMMA AnnounceKeepsTable ==
    ASSUME TableOK(SCHEDULES), NEW S, Sched!Announce(S)
    PROVE  Announced(SCHEDULES, SCHEDULES')
<1>1. SCHEDULES' = [g \in Sched!Groups |-> Sched!smNodesDistributed(SCHEDULES[g], S[g])]
  BY DEF Sched!Announce
<1>2. ASSUME NEW g \in Sched!Groups
      PROVE  /\ SCHEDULES'[g].nodes \in Seq(Entry) /\ Unique(SCHEDULES'[g].nodes)
             /\ Len(SCHEDULES'[g].nodes) = Len(Sched!Nodes(g))
             /\ \A k \in 1 .. Len(Sched!Nodes(g)) :
                   /\ SCHEDULES'[g].nodes[k].addr = Sched!Nodes(g)[k].addr
                   /\ SCHEDULES'[g].nodes[k].slotDemand = Sched!Nodes(g)[k].slotDemand
  <2> DEFINE s == SCHEDULES[g].nodes
             after == SCHEDULES'[g].nodes
             told(n) == [n EXCEPT !.nboSchDist = @ - 1]
  <2>1. s \in Seq(Entry) /\ Len(s) \in Nat /\ Unique(s) /\ \A k \in 1 .. Len(s) : s[k] \in Entry
    BY LenProperties, ElementOfSeq DEF TableOK
  <2>2. \A n \in Entry : told(n) \in Entry /\ told(n).addr = n.addr
                         /\ told(n).slotDemand = n.slotDemand
    BY DEF Entry
  <2>3. after = [k \in 1 .. Len(s) |-> IF k \in S[g] /\ Sched!IsPending(s[k])
                                       THEN told(s[k]) ELSE s[k]]
    <3>1. SCHEDULES'[g] = Sched!smNodesDistributed(SCHEDULES[g], S[g])
      BY <1>1
    <3> QED
      BY <3>1 DEF Sched!smNodesDistributed
  <2> HIDE DEF after, told
  <2>4. after \in [1 .. Len(s) -> Entry]
    BY <2>1, <2>2, <2>3
  <2>5. after \in Seq(Entry) /\ Len(after) = Len(s)
    BY <2>1, <2>4, SeqDef, LenProperties
  <2>6. \A k \in 1 .. Len(s) : after[k].addr = s[k].addr /\ after[k].slotDemand = s[k].slotDemand
    BY <2>1, <2>2, <2>3
  <2>7. Unique(after)
    BY <2>1, <2>5, <2>6 DEF Unique
  <2> QED
    BY <2>5, <2>6, <2>7 DEF after, Sched!Nodes
<1> QED
  BY <1>1, <1>2 DEF Announced, TableOK, Sched!Nodes

-----------------------------------------------------------------------------
(* What nodes ask for.                                                      *)

\* The slots of the children but one.
OtherSlots(chs, p) == {x \in ChildSlots(chs) : x[1] # p}

\* What a byte holds is a number, and no more than the byte can count.
LEMMA ByteIsNat ==
    ASSUME NEW d \in 0 .. Uint8 - 1
    PROVE  d \in Nat /\ 1 .. d \subseteq 1 .. Uint8
  BY DEF Uint8

LEMMA FirstNumbers ==
    ASSUME NEW d \in Nat
    PROVE  IsFiniteSet(1 .. d) /\ Cardinality(1 .. d) = d
  BY FS_Interval

\* The children's slots are finitely many: those of one child and the others.
LEMMA SlotsOfOneChild ==
    ASSUME NEW chs \in Seq(Child), NEW p \in Nat
    PROVE  /\ Cardinality(OtherSlots(chs, p)) \in Nat
           /\ Cardinality(ChildSlots(chs)) = Cardinality(OtherSlots(chs, p))
                 + (IF p \in 1 .. Len(chs) THEN chs[p].slotDemand ELSE 0)
<1> DEFINE own == IF p \in 1 .. Len(chs) THEN {p} \X (1 .. chs[p].slotDemand) ELSE {}
           most == (1 .. Len(chs)) \X (1 .. Uint8)
<1>1. Len(chs) \in Nat /\ \A i \in 1 .. Len(chs) : chs[i].slotDemand \in 0 .. Uint8 - 1
  <2>1. \A i \in 1 .. Len(chs) : chs[i] \in Child
    BY ElementOfSeq
  <2> QED
    BY <2>1, LenProperties DEF Child
<1>2. \A i \in 1 .. Len(chs) :
         chs[i].slotDemand \in Nat /\ 1 .. chs[i].slotDemand \subseteq 1 .. Uint8
  BY <1>1, ByteIsNat, Zenon
<1>3. /\ ChildSlots(chs) \in SUBSET most
      /\ IsFiniteSet(most)
  <2>1. ASSUME NEW x \in ChildSlots(chs) PROVE x \in most
    <3>1. PICK i \in 1 .. Len(chs) : x \in {i} \X (1 .. chs[i].slotDemand)
      BY DEF ChildSlots
    <3> QED
      BY <1>2, <3>1
  <2>2. IsFiniteSet(1 .. Len(chs))
    BY <1>1, FirstNumbers, Zenon
  <2>3. Uint8 \in Nat
    BY DEF Uint8
  <2>4. IsFiniteSet(1 .. Uint8)
    BY <2>3, FirstNumbers, Zenon
  <2>5. IsFiniteSet(most)
    BY <2>2, <2>4, FS_Product
  <2> QED
    BY <2>1, <2>5
<1> HIDE DEF most
<1>4. IsFiniteSet(ChildSlots(chs)) /\ IsFiniteSet(OtherSlots(chs, p))
  BY <1>3, FS_Subset DEF OtherSlots
<1>5. ChildSlots(chs) = OtherSlots(chs, p) \cup own /\ OtherSlots(chs, p) \cap own = {}
  BY DEF ChildSlots, OtherSlots
<1>6. /\ IsFiniteSet(own)
      /\ Cardinality(own) = IF p \in 1 .. Len(chs) THEN chs[p].slotDemand ELSE 0
  <2>1. CASE p \in 1 .. Len(chs)
    <3>1. PICK d \in Nat : d = chs[p].slotDemand
      BY <1>2, <2>1
    <3>2. IsFiniteSet(1 .. d) /\ Cardinality(1 .. d) = d
      BY FirstNumbers
    <3>3. IsFiniteSet({p}) /\ Cardinality({p}) = 1
      BY FS_Singleton
    <3>4. IsFiniteSet({p} \X (1 .. d)) /\ Cardinality({p} \X (1 .. d)) = 1 * d
      BY <3>2, <3>3, FS_Product
    <3> QED
      BY <2>1, <3>1, <3>4
  <2>2. CASE ~ (p \in 1 .. Len(chs))
    BY <2>2, FS_EmptySet
  <2> QED
    BY <2>1, <2>2
<1> HIDE DEF own
<1>7. Cardinality(OtherSlots(chs, p)) \in Nat /\ Cardinality(own) \in Nat
  BY <1>4, <1>6, FS_CardinalityType
<1>8. Cardinality(ChildSlots(chs)) = Cardinality(OtherSlots(chs, p)) + Cardinality(own) - 0
  BY <1>4, <1>5, <1>6, FS_Union, FS_EmptySet
<1> QED
  BY <1>6, <1>7, <1>8

\* A child that is entered, or entered anew, leaves the slots of the others.
LEMMA OthersKeepSlots ==
    ASSUME NEW chs, NEW lst, Len(chs) \in Nat, NEW p \in 1 .. Len(lst),
           Len(lst) = Len(chs) \/ (Len(lst) = Len(chs) + 1 /\ p = Len(lst)),
           \A i \in 1 .. Len(chs) : i # p => lst[i] = chs[i]
    PROVE  OtherSlots(lst, p) = OtherSlots(chs, p)
<1>1. \A i \in 1 .. Len(lst) : i # p => i \in 1 .. Len(chs)
  OBVIOUS
<1>2. \A i \in 1 .. Len(chs) : i \in 1 .. Len(lst)
  OBVIOUS
<1>3. ASSUME NEW x \in OtherSlots(lst, p) PROVE x \in OtherSlots(chs, p)
  <2>1. PICK i \in 1 .. Len(lst) : x \in {i} \X (1 .. lst[i].slotDemand)
    BY DEF OtherSlots, ChildSlots
  <2>2. i # p
    BY <2>1 DEF OtherSlots
  <2> QED
    BY <1>1, <2>1, <2>2 DEF OtherSlots, ChildSlots
<1>4. ASSUME NEW x \in OtherSlots(chs, p) PROVE x \in OtherSlots(lst, p)
  <2>1. PICK i \in 1 .. Len(chs) : x \in {i} \X (1 .. chs[i].slotDemand)
    BY DEF OtherSlots, ChildSlots
  <2>2. i # p
    BY <2>1 DEF OtherSlots
  <2> QED
    BY <1>2, <2>1, <2>2 DEF OtherSlots, ChildSlots
<1> QED
  BY <1>3, <1>4

\* A child's entry is replaced where it stands.
LEMMA ChildReplaced ==
    ASSUME NEW chs \in Seq(Child), NEW pos \in 1 .. Len(chs), NEW entry \in Child
    PROVE  /\ ReplaceAt(chs, pos, entry) \in Seq(Child)
           /\ Len(ReplaceAt(chs, pos, entry)) = Len(chs)
           /\ ReplaceAt(chs, pos, entry)[pos] = entry
           /\ \A i \in 1 .. Len(chs) : i # pos => ReplaceAt(chs, pos, entry)[i] = chs[i]
  BY ExceptSeq DEF ReplaceAt

\* The demand in its byte, when a child asks for new slots instead of old.
LEMMA DemandInByte ==
    ASSUME NEW own \in Nat, NEW others \in Nat, NEW old \in Nat, NEW new \in Nat
    PROVE  (((own + 2 * (others + old)) % 256) - 2 * old + 2 * new) % 256
              = (own + 2 * (others + new)) % 256
<1> DEFINE dmn == (own + 2 * (others + old)) % 256
<1> PICK d \in Nat : d = dmn
  OBVIOUS
<1> QED
  OBVIOUS

\* A node that takes a child in asks for its slots, too.
LEMMA AddChildCovers ==
    ASSUME NEW parent \in MngtNode, CoversChildren(parent), NEW child \in MngtNode
    PROVE  CoversChildren([dmAddChildToNode(parent, child) EXCEPT !.schFlag = FALSE])
<1> DEFINE chs   == parent.children
           entry == [addr |-> child.addr, slotDemand |-> child.slotDmn]
           known == IsChildOf(parent, child.addr)
           pos   == ChildIndex(parent, child.addr)
           old   == IF known THEN chs[pos].slotDemand ELSE 0
           dmn   == (parent.slotDmn - 2 * old + 2 * child.slotDmn) % Uint8
           lst   == IF known THEN ReplaceAt(chs, pos, entry) ELSE Append(chs, entry)
           p     == IF known THEN pos ELSE Len(chs) + 1
           own   == slotDemandCalculation(parent.class)
           after == [dmAddChildToNode(parent, child) EXCEPT !.schFlag = FALSE]
<1>1. /\ chs \in Seq(Child) /\ Len(chs) \in Nat /\ own \in Nat
      /\ child.slotDmn \in 0 .. Uint8 - 1 /\ child.addr \in Addr
  <2>1. /\ parent.class \in Class /\ chs \in Seq(Child)
        /\ child.slotDmn \in 0 .. Uint8 - 1 /\ child.addr \in Addr
    BY DEF MngtNode
  <2>2. own \in Nat
    BY <2>1, DemandAssumption, ByteIsNat, Zenon
  <2>3. Len(chs) \in Nat
    BY <2>1, LenProperties, Zenon
  <2> QED
    BY <2>1, <2>2, <2>3, Zenon
<1>2. entry \in Child /\ entry.slotDemand = child.slotDmn
  BY <1>1 DEF Child
<1>3. known => pos \in 1 .. Len(chs)
  <2> SUFFICES ASSUME known PROVE pos \in 1 .. Len(chs)
    OBVIOUS
  <2> DEFINE S == {i \in 1 .. Len(chs) : chs[i].addr = child.addr}
  <2>1. S \subseteq Nat /\ S # {}
    BY <1>1 DEF IsChildOf, ChildAddrs
  <2>2. Min(S) \in S
    BY <2>1, MinOfNats
  <2>3. pos = Min(S)
    BY DEF ChildIndex
  <2> QED
    BY <2>2, <2>3
<1>4. /\ after.slotDmn = dmn /\ after.class = parent.class /\ after.children = lst
  BY DEF dmAddChildToNode, MngtNode
<1> HIDE DEF chs, entry, pos, known, after
<1>5. /\ lst \in Seq(Child) /\ p \in 1 .. Len(lst) /\ lst[p] = entry
      /\ Len(lst) = Len(chs) \/ (Len(lst) = Len(chs) + 1 /\ p = Len(lst))
      /\ \A i \in 1 .. Len(chs) : i # p => lst[i] = chs[i]
      /\ old = IF p \in 1 .. Len(chs) THEN chs[p].slotDemand ELSE 0
  <2>1. CASE known
    <3> pos \in 1 .. Len(chs) /\ chs \in Seq(Child) /\ entry \in Child
      BY <1>1, <1>2, <1>3, <2>1
    <3>1. /\ ReplaceAt(chs, pos, entry) \in Seq(Child)
          /\ Len(ReplaceAt(chs, pos, entry)) = Len(chs)
          /\ ReplaceAt(chs, pos, entry)[pos] = entry
          /\ \A i \in 1 .. Len(chs) : i # pos => ReplaceAt(chs, pos, entry)[i] = chs[i]
      BY ChildReplaced, Zenon
    <3> QED
      BY <1>3, <2>1, <3>1
  <2>2. CASE ~ known
    <3>1. /\ Append(chs, entry) \in Seq(Child) /\ Len(Append(chs, entry)) = Len(chs) + 1
          /\ \A i \in 1 .. Len(chs) : Append(chs, entry)[i] = chs[i]
          /\ Append(chs, entry)[Len(chs) + 1] = entry
      BY <1>1, <1>2, AppendProperties
    <3> QED
      BY <1>1, <2>2, <3>1
  <2> QED
    BY <2>1, <2>2
<1> HIDE DEF lst, p, old
<1>6. OtherSlots(lst, p) = OtherSlots(chs, p)
  BY <1>1, <1>5, OthersKeepSlots
<1>7. PICK others \in Nat : others = Cardinality(OtherSlots(chs, p))
  BY <1>1, <1>5, SlotsOfOneChild, LenProperties
<1>8. p \in Nat
  BY <1>5, LenProperties
<1>9. /\ Cardinality(ChildSlots(chs)) = others + old
      /\ Cardinality(ChildSlots(lst)) = others + child.slotDmn
  BY <1>1, <1>2, <1>5, <1>6, <1>7, <1>8, SlotsOfOneChild
<1>10. old \in Nat
  <2>1. p \in 1 .. Len(chs) => chs[p] \in Child
    BY <1>1, ElementOfSeq
  <2>2. p \in 1 .. Len(chs) => chs[p].slotDemand \in 0 .. Uint8 - 1
    BY <2>1 DEF Child
  <2>3. p \in 1 .. Len(chs) => chs[p].slotDemand \in Nat
    BY <2>2, ByteIsNat, Zenon
  <2> QED
    BY <1>5, <2>3
<1>11. parent.slotDmn = (own + 2 * (others + old)) % 256
  BY <1>9 DEF CoversChildren, chs, Uint8
<1>12. child.slotDmn \in Nat
  BY <1>1, ByteIsNat, Zenon
<1> HIDE DEF own
<1>13. (parent.slotDmn - 2 * old + 2 * child.slotDmn) % 256
          = (own + 2 * (others + child.slotDmn)) % 256
  <2>1. (((own + 2 * (others + old)) % 256) - 2 * old + 2 * child.slotDmn) % 256
           = (own + 2 * (others + child.slotDmn)) % 256
    <3> own \in Nat
      BY <1>1
    <3> old \in Nat
      BY <1>10
    <3> child.slotDmn \in Nat
      BY <1>12
    <3> QED
      BY DemandInByte
  <2> QED
    BY <1>11, <2>1, Zenon
<1> QED
  BY <1>4, <1>9, <1>13 DEF CoversChildren, Uint8, own, after

\* Every node of a list asks for its own slots and those of its children.
AllCover(lst) == \A i \in 1 .. Len(lst) : CoversChildren(lst[i])

\* A node that was just created asks for its own slots.
LEMMA NewNodeCovers ==
    ASSUME NEW addr, NEW class \in Class, NEW type, NEW parrent
    PROVE  CoversChildren(createNewNode(addr, class, type, parrent))
<1>1. slotDemandCalculation(class) \in 0 .. 255
  BY DemandAssumption DEF Uint8
<1> HIDE DEF slotDemandCalculation
<1>2. Len(<< >>) = 0
  BY EmptySeq
<1>3. ChildSlots(<< >>) = {}
  BY <1>2 DEF ChildSlots
<1>4. Cardinality(ChildSlots(<< >>)) = 0
  BY <1>3, FS_EmptySet
<1>5. slotDemandCalculation(class) = (slotDemandCalculation(class) + 2 * 0) % 256
  BY <1>1
<1> QED
  BY <1>4, <1>5 DEF createNewNode, CoversChildren, Uint8

\* Marks change no demand.
LEMMA SameNodesCover ==
    ASSUME NEW lst, AllCover(lst), NEW after, SameNodes(after, lst)
    PROVE  AllCover(after)
  BY DEF AllCover, SameNodes, CoversChildren

\* A push and a pop bring no other nodes than those there were.
LEMMA PushCovers ==
    ASSUME NEW lst, ListOK(lst), AllCover(lst), NEW node \in MngtNode, CoversChildren(node),
           NEW sort
    PROVE  ListOK(pushNode(lst, node, sort)) /\ AllCover(pushNode(lst, node, sort))
<1>1. /\ ListOK(pushNode(lst, node, sort))
      /\ \A i \in 1 .. Len(pushNode(lst, node, sort)) :
            \/ pushNode(lst, node, sort)[i] = node
            \/ \E k \in 1 .. Len(lst) : pushNode(lst, node, sort)[i] = lst[k]
  BY PushKeepsList
<1> QED
  BY <1>1 DEF AllCover

\* A one-hop registration, new or again.
LEMMA AddOnehopCovers ==
    ASSUME NEW lst, ListOK(lst), AllCover(lst), NEW node \in MngtNode, CoversChildren(node)
    PROVE  AllCover(AddOnehopNode(lst, node))
<1> DEFINE rest == IF isNodeExisted(lst, node.addr)
                   THEN dmSetChildConnStatus(lst, NodeAt(lst, node.addr), FALSE) ELSE lst
<1>1. ListOK(rest) /\ AllCover(rest)
  <2>1. CASE isNodeExisted(lst, node.addr)
    <3>1. rest \in Seq(MngtNode) /\ SameNodes(rest, lst)
      BY <2>1, ConnStatusKeepsNodes DEF ListOK
    <3> QED
      BY <3>1, SameNodesKeep, SameNodesCover
  <2> QED
    BY <2>1
<1>2. AddOnehopNode(lst, node) = pushNode(rest, node, TRUE)
  BY DEF AddOnehopNode
<1> HIDE DEF rest
<1> QED
  BY <1>1, <1>2, PushCovers

\* A two-hop registration: its parent pays for it, and for it only.
LEMMA AddTwohopCovers ==
    ASSUME NEW lst, ListOK(lst), AllCover(lst), NEW node \in MngtNode, CoversChildren(node)
    PROVE  AllCover(AddTwohopNode(lst, node))
<1>1. CASE ~ isNodeExisted(lst, node.parrentAddr)
  BY <1>1 DEF AddTwohopNode
<1>2. CASE isNodeExisted(lst, node.parrentAddr)
  <2> DEFINE parent == NodeAt(lst, node.parrentAddr)
             others == popNodeByAddress(lst, parent.addr)
             grown  == [dmAddChildToNode(parent, node) EXCEPT !.schFlag = FALSE]
  <2>1. parent \in MngtNode /\ CoversChildren(parent) /\ isNodeExisted(lst, parent.addr)
    <3>1. PICK p : p = IndexOf(lst, node.parrentAddr)
      OBVIOUS
    <3>2. p \in 1 .. Len(lst) /\ parent = lst[p]
      BY <1>2, <3>1, IndexOfKnown DEF ListOK, NodeAt
    <3>3. lst[p] \in MngtNode
      BY <3>2, ElementOfSeq DEF ListOK
    <3> HIDE DEF parent
    <3> QED
      BY <3>2, <3>3 DEF isNodeExisted, AllCover
  <2>2. AddTwohopNode(lst, node) =
           IF HasRoomFor(parent, node.addr)
           THEN pushNode(pushNode(others, grown, TRUE), node, TRUE)
           ELSE pushNode(others, parent, TRUE)
    BY <1>2 DEF AddTwohopNode
  <2> HIDE DEF parent
  <2>3. ListOK(others) /\ AllCover(others)
    <3>1. /\ ListOK(others)
          /\ \A i \in 1 .. Len(others) : \E k \in 1 .. Len(lst) : others[i] = lst[k]
      BY <2>1, PopKeepsList
    <3> QED
      BY <3>1 DEF AllCover
  <2> HIDE DEF others
  <2>4. grown \in MngtNode /\ CoversChildren(grown)
    <3>1. dmAddChildToNode(parent, node) \in MngtNode
      BY <2>1, AddChildKeepsNode
    <3>2. grown \in MngtNode
      BY <3>1 DEF MngtNode
    <3> QED
      BY <2>1, <3>2, AddChildCovers
  <2> HIDE DEF grown
  <2>5. /\ ListOK(pushNode(others, grown, TRUE)) /\ AllCover(pushNode(others, grown, TRUE))
    BY <2>3, <2>4, PushCovers
  <2> QED
    BY <2>1, <2>2, <2>3, <2>5, PushCovers
<1> QED
  BY <1>1, <1>2

\* Nodes on their way to NODES cover their children as those in it do.
CoverInv == AllCover(NODES) /\ AllCover(RNL) /\ AllCover(handling)

LEMMA TailCovers ==
    ASSUME NEW lst \in Seq(MngtNode), lst # << >>, AllCover(lst)
    PROVE  CoversChildren(Head(lst)) /\ AllCover(Tail(lst))
<1>1. Len(lst) \in Nat \ {0}
  BY LenProperties, EmptySeq
<1>2. Head(lst) = lst[1] /\ 1 \in 1 .. Len(lst)
  BY <1>1
<1>3. /\ Len(Tail(lst)) = Len(lst) - 1
      /\ \A i \in 1 .. Len(Tail(lst)) : Tail(lst)[i] = lst[i + 1]
  BY HeadTailProperties
<1>4. \A i \in 1 .. Len(Tail(lst)) : i + 1 \in 1 .. Len(lst)
  BY <1>1, <1>3
<1> QED
  BY <1>2, <1>3, <1>4 DEF AllCover

\* Every step of the two threads keeps demands and children together.
LEMMA NextKeepsCoverInv == IInv /\ CoverInv /\ [Next]_vars => CoverInv'
<1> SUFFICES ASSUME IInv, CoverInv, [Next]_vars PROVE CoverInv'
  OBVIOUS
<1>0. /\ ListOK(NODES) /\ ListOK(RNL) /\ NODES \in Seq(MngtNode) /\ RNL \in Seq(MngtNode)
      /\ handling \in Seq(MngtNode) /\ AllFresh(RNL) /\ AllFresh(handling)
  BY DEF IInv, Closed, ListOK, TypeOK
<1>1. CASE UNCHANGED <<NODES, RNL, handling>>
  BY <1>1 DEF CoverInv, AllCover
<1>2. CASE BeginScheduleDist
  <2>1. AllCover(dmSetSchFlagAll(NODES, FALSE))
    BY <1>0, SchFlagKeepsNodes, SameNodesCover DEF CoverInv
  <2> QED
    BY <1>2, <2>1 DEF BeginScheduleDist, inputVars, CoverInv, AllCover
<1>3. CASE CollectNode
  <2>1. PICK node : node = Head(RNL)
    OBVIOUS
  <2>2. /\ node \in MngtNode /\ CoversChildren(node) /\ AllCover(Tail(RNL))
    BY <1>0, <1>3, <2>1, TailOfFresh, TailCovers DEF CollectNode, CoverInv, Fresh
  <2>3. NODES' = AddOnehopNode(NODES, node) \/ NODES' = AddTwohopNode(NODES, node)
    BY <1>3, <2>1 DEF CollectNode
  <2>4. AllCover(AddOnehopNode(NODES, node)) /\ AllCover(AddTwohopNode(NODES, node))
    BY <1>0, <2>2, AddOnehopCovers, AddTwohopCovers DEF CoverInv
  <2>5. RNL' = Tail(RNL) /\ handling' = handling
    BY <1>3 DEF CollectNode, inputVars
  <2> QED
    BY <2>2, <2>3, <2>4, <2>5 DEF CoverInv, AllCover
<1>4. CASE ScheduleNext
  <2>1. NODES' = NODES \/ SameNodes(NODES', NODES)
    BY <1>4, ScheduleNextKeeps
  <2>2. AllCover(NODES')
    BY <2>1, SameNodesCover DEF CoverInv, AllCover
  <2> QED
    BY <1>4, <2>2 DEF ScheduleNext, inputVars, CoverInv, AllCover
<1>5. CASE RegisterNode
  <2>1. PICK node : node = Head(handling)
    OBVIOUS
  <2>2. node \in MngtNode /\ CoversChildren(node) /\ AllCover(Tail(handling))
    BY <1>0, <1>5, <2>1, TailOfFresh, TailCovers DEF RegisterNode, CoverInv, Fresh
  <2>3. AllCover(pushNode(RNL, node, FALSE))
    BY <1>0, <2>2, PushCovers DEF CoverInv
  <2>4. RNL' = pushNode(RNL, node, FALSE) /\ handling' = Tail(handling) /\ NODES' = NODES
    BY <1>5, <2>1 DEF RegisterNode
  <2> QED
    BY <2>2, <2>3, <2>4 DEF CoverInv, AllCover
<1>6. CASE \E rr \in RegistrationRequests : ReceiveRr(rr)
  <2>1. PICK rr \in RegistrationRequests : ReceiveRr(rr)
    BY <1>6
  <2> DEFINE nodes == rr.nodes
  <2>2. nodes \in Seq([addr : Addr, class : Class]) /\ Len(nodes) \in Nat
    BY MacAssumption, LenProperties DEF RegistrationRequest
  <2>3. ASSUME NEW i \in 1 .. Len(nodes) PROVE CoversChildren(NodeOf(rr, nodes[i]))
    <3>1. nodes[i] \in [addr : Addr, class : Class]
      BY <2>2, ElementOfSeq
    <3>2. nodes[i].class \in Class
      BY <3>1
    <3> QED
      BY <3>2, NewNodeCovers DEF NodeOf
  <2>4. handling' = [i \in 1 .. Len(nodes) |-> NodeOf(rr, nodes[i])]
    BY <2>1 DEF ReceiveRr
  <2> HIDE DEF nodes
  <2>5. Len(handling') = Len(nodes)
    BY <2>2, <2>4
  <2>6. AllCover(handling')
    BY <2>3, <2>4, <2>5 DEF AllCover
  <2> QED
    BY <2>1, <2>6 DEF ReceiveRr, CoverInv, AllCover
<1>7. \/ UNCHANGED <<NODES, RNL, handling>>
      \/ BeginScheduleDist \/ CollectNode \/ ScheduleNext \/ RegisterNode
      \/ \E rr \in RegistrationRequests : ReceiveRr(rr)
  BY DEF Next, phaseHandlerThread, inputMsgHandlerThread, vars, inputVars, BeginFrame, EndCollect,
         EndSchedule, SendCm, SendSm, BeginDataCollection, RequestPhaseTrans
<1> QED
  BY <1>1, <1>2, <1>3, <1>4, <1>5, <1>6, <1>7

(* Whatever registers, in whatever role and however often, a node asks for  *)
(* its own slots and twice those of the children it lists, in its eight     *)
(* bits: children that come, change their class or are listed already are   *)
(* paid for exactly once.                                                   *)
THEOREM DemandIsThatOfChildren == Spec => []DemandCoversChildren
<1>1. Init => IInv /\ CoverInv
  <2>1. Len(<< >>) = 0
    BY EmptySeq
  <2>2. Init => CoverInv
    BY <2>1 DEF Init, CoverInv, AllCover
  <2> QED
    BY <2>2, InitIInv
<1>2. IInv /\ CoverInv /\ [Next]_vars => IInv' /\ CoverInv'
  BY NextKeepsIInv, NextKeepsCoverInv
<1>3. IInv /\ CoverInv => DemandCoversChildren
  BY DEF CoverInv, AllCover, DemandCoversChildren
<1> QED
  BY <1>1, <1>2, <1>3, PTL DEF Spec

-----------------------------------------------------------------------------
(* Nodes and schedules fit together.                                        *)

\* The node is the one the schedule is for; while it is marked as scheduled
\* it asks for what it has.
Fits(n, e) ==
    n.addr = e.addr /\ n.type = "Onehop" /\ (n.schFlag => n.slotDmn = e.slotDemand)

Served(lst, e) == \E i \in 1 .. Len(lst) : Fits(lst[i], e)

\* A node that is put into a list is in it, and all others stay.
LEMMA PushKeepsOthers ==
    ASSUME NEW lst, ListOK(lst), NEW node \in MngtNode, NEW sort
    PROVE  /\ In(pushNode(lst, node, sort), node)
           /\ \A n : In(lst, n) /\ n.addr # node.addr => In(pushNode(lst, node, sort), n)
<1> DEFINE after == pushNode(lst, node, sort)
<1>1. /\ ListOK(after) /\ Addrs(after) = Addrs(lst) \cup {node.addr}
      /\ \A i \in 1 .. Len(after) : after[i] = node \/ \E k \in 1 .. Len(lst) : after[i] = lst[k]
  BY PushKeepsList
<1>2. Unique(lst)
  BY DEF ListOK
<1> HIDE DEF after
<1>3. \A a \in Addrs(after) : \E i \in 1 .. Len(after) : after[i].addr = a
  BY DEF Addrs
<1>4. ASSUME NEW n, In(lst, n), n.addr # node.addr
      PROVE  In(after, n)
  <2>1. PICK k \in 1 .. Len(lst) : lst[k] = n
    BY <1>4 DEF In
  <2>2. n.addr \in Addrs(lst)
    BY <2>1 DEF Addrs
  <2>3. PICK i \in 1 .. Len(after) : after[i].addr = n.addr
    BY <1>1, <1>3, <2>2
  <2>4. PICK m \in 1 .. Len(lst) : after[i] = lst[m]
    BY <1>1, <1>4, <2>3
  <2>5. m = k
    BY <1>2, <2>1, <2>3, <2>4 DEF Unique
  <2> QED
    BY <2>1, <2>4, <2>5 DEF In
<1>5. In(after, node)
  BY PushKeepsList DEF after, In
<1> QED
  BY <1>4, <1>5 DEF after

\* A node that is taken out of a list leaves all others in it.
LEMMA PopKeepsOthers ==
    ASSUME NEW lst, ListOK(lst), NEW addr, isNodeExisted(lst, addr)
    PROVE  \A n : In(lst, n) /\ n.addr # addr => In(popNodeByAddress(lst, addr), n)
<1> DEFINE after == popNodeByAddress(lst, addr)
<1>1. /\ Addrs(after) = Addrs(lst) \ {addr}
      /\ \A i \in 1 .. Len(after) : \E k \in 1 .. Len(lst) : after[i] = lst[k]
  BY PopKeepsList
<1>2. Unique(lst)
  BY DEF ListOK
<1> HIDE DEF after
<1>3. \A a \in Addrs(after) : \E i \in 1 .. Len(after) : after[i].addr = a
  BY DEF Addrs
<1>4. ASSUME NEW n, In(lst, n), n.addr # addr
      PROVE  In(after, n)
  <2>1. PICK k \in 1 .. Len(lst) : lst[k] = n
    BY <1>4 DEF In
  <2>2. n.addr \in Addrs(lst)
    BY <2>1 DEF Addrs
  <2>3. PICK i \in 1 .. Len(after) : after[i].addr = n.addr
    BY <1>1, <1>3, <1>4, <2>2
  <2>4. PICK m \in 1 .. Len(lst) : after[i] = lst[m]
    BY <1>1, <2>3
  <2>5. m = k
    BY <1>2, <2>1, <2>3, <2>4 DEF Unique
  <2> QED
    BY <2>1, <2>4, <2>5 DEF In
<1> QED
  BY <1>4 DEF after

\* A one-hop registration leaves no schedule without its node.
LEMMA AddOnehopServes ==
    ASSUME NEW lst, Closed(lst), NEW node, Fresh(node), node.type = "Onehop",
           NEW e, Served(lst, e)
    PROVE  Served(AddOnehopNode(lst, node), e)
<1> DEFINE parent == NodeAt(lst, node.addr)
           rest   == IF isNodeExisted(lst, node.addr)
                     THEN dmSetChildConnStatus(lst, parent, FALSE) ELSE lst
<1>1. ListOK(rest) /\ Served(rest, e)
  <2>1. CASE isNodeExisted(lst, node.addr)
    <3>1. /\ rest \in Seq(MngtNode) /\ SameNodes(rest, lst) /\ SameFlags(rest, lst)
      BY <2>1, ConnStatusKeepsNodes DEF Closed, ListOK
    <3> HIDE DEF rest
    <3>2. ListOK(rest)
      BY <3>1, SameNodesKeep DEF Closed
    <3>3. Served(rest, e)
      BY <3>1 DEF Served, Fits, SameNodes, SameFlags
    <3> QED
      BY <3>2, <3>3
  <2>2. CASE ~ isNodeExisted(lst, node.addr)
    BY <2>2 DEF Closed
  <2> QED
    BY <2>1, <2>2
<1>2. AddOnehopNode(lst, node) = pushNode(rest, node, TRUE)
  BY DEF AddOnehopNode
<1> HIDE DEF rest
<1>3. /\ In(pushNode(rest, node, TRUE), node)
      /\ \A n : In(rest, n) /\ n.addr # node.addr => In(pushNode(rest, node, TRUE), n)
  BY <1>1, PushKeepsOthers DEF Fresh
<1>4. PICK n : In(rest, n) /\ Fits(n, e)
  BY <1>1 DEF Served, In
<1>5. CASE n.addr = node.addr
  <2>1. Fits(node, e)
    BY <1>4, <1>5 DEF Fits, Fresh
  <2> QED
    BY <1>2, <1>3, <2>1 DEF Served, In
<1>6. CASE n.addr # node.addr
  BY <1>2, <1>3, <1>4, <1>6 DEF Served, In
<1> QED
  BY <1>5, <1>6

\* Nor does a two-hop registration, other than the node's own.
LEMMA AddTwohopServes ==
    ASSUME NEW lst, Closed(lst), NEW node, Fresh(node),
           NEW e, Served(lst, e), e.addr # node.addr
    PROVE  Served(AddTwohopNode(lst, node), e)
<1>1. CASE ~ isNodeExisted(lst, node.parrentAddr)
  BY <1>1 DEF AddTwohopNode
<1>2. CASE isNodeExisted(lst, node.parrentAddr)
  <2> DEFINE parent == NodeAt(lst, node.parrentAddr)
             others == popNodeByAddress(lst, parent.addr)
             grown  == [dmAddChildToNode(parent, node) EXCEPT !.schFlag = FALSE]
  <2>1. node \in MngtNode
    BY DEF Fresh
  <2>2. parent \in MngtNode /\ In(lst, parent) /\ isNodeExisted(lst, parent.addr)
    <3>1. PICK p : p = IndexOf(lst, node.parrentAddr)
      OBVIOUS
    <3>2. p \in 1 .. Len(lst)
      BY <1>2, <3>1, IndexOfKnown DEF Closed, ListOK
    <3>3. parent = lst[p]
      BY <3>1 DEF NodeAt
    <3> HIDE DEF parent
    <3>4. lst[p] \in MngtNode
      BY <3>2, ElementOfSeq DEF Closed, ListOK
    <3> QED
      BY <3>2, <3>3, <3>4 DEF In, isNodeExisted
  <2>3. AddTwohopNode(lst, node) =
           IF HasRoomFor(parent, node.addr)
           THEN pushNode(pushNode(others, grown, TRUE), node, TRUE)
           ELSE pushNode(others, parent, TRUE)
    BY <1>2 DEF AddTwohopNode
  <2> HIDE DEF parent
  <2>4. /\ ListOK(others)
        /\ \A n : In(lst, n) /\ n.addr # parent.addr => In(others, n)
    BY <2>2, PopKeepsList, PopKeepsOthers DEF Closed
  <2> HIDE DEF others
  <2>5. PICK n : In(lst, n) /\ Fits(n, e)
    BY DEF Served, In
  <2>6. n.addr = parent.addr => n = parent
    BY <2>2, <2>5 DEF In, Closed, ListOK, Unique
  <2>7. CASE HasRoomFor(parent, node.addr)
    <3>1. grown \in MngtNode /\ grown.addr = parent.addr /\ grown.type = parent.type /\ ~ grown.schFlag
      <4>1. PICK c : c = dmAddChildToNode(parent, node)
        OBVIOUS
      <4>2. c \in MngtNode /\ c.addr = parent.addr
        BY <2>1, <2>2, <4>1, AddChildKeepsNode
      <4>3. c.type = parent.type
        BY <2>2, <4>1 DEF dmAddChildToNode, MngtNode
      <4>4. grown = [c EXCEPT !.schFlag = FALSE]
        BY <4>1
      <4> HIDE DEF grown
      <4> QED
        BY <4>2, <4>3, <4>4 DEF MngtNode
    <3> HIDE DEF grown
    <3>2. PICK once : once = pushNode(others, grown, TRUE)
      OBVIOUS
    <3>3. /\ ListOK(once) /\ In(once, grown)
          /\ \A m : In(others, m) /\ m.addr # grown.addr => In(once, m)
      BY <2>4, <3>1, <3>2, PushKeepsList, PushKeepsOthers
    <3>4. \A m : In(once, m) /\ m.addr # node.addr => In(pushNode(once, node, TRUE), m)
      BY <2>1, <3>3, PushKeepsOthers
    <3>5. CASE n.addr = parent.addr
      <4>1. Fits(grown, e)
        BY <2>5, <2>6, <3>1, <3>5 DEF Fits
      <4>2. In(pushNode(once, node, TRUE), grown)
        BY <3>3, <3>4, <4>1 DEF Fits
      <4> QED
        BY <2>3, <2>7, <3>2, <4>1, <4>2 DEF Served, In
    <3>6. CASE n.addr # parent.addr
      <4>1. In(once, n)
        BY <2>4, <2>5, <3>1, <3>3, <3>6
      <4>2. In(pushNode(once, node, TRUE), n)
        BY <2>5, <3>4, <4>1 DEF Fits
      <4> QED
        BY <2>3, <2>5, <2>7, <3>2, <4>2 DEF Served, In
    <3> QED
      BY <3>5, <3>6
  <2>8. CASE ~ HasRoomFor(parent, node.addr)
    <3>1. /\ In(pushNode(others, parent, TRUE), parent)
          /\ \A m : In(others, m) /\ m.addr # parent.addr => In(pushNode(others, parent, TRUE), m)
      BY <2>2, <2>4, PushKeepsOthers
    <3>2. In(pushNode(others, parent, TRUE), n)
      BY <2>4, <2>5, <2>6, <3>1
    <3> QED
      BY <2>3, <2>5, <2>8, <3>2 DEF Served, In
  <2> QED
    BY <2>7, <2>8
<1> QED
  BY <1>1, <1>2

-----------------------------------------------------------------------------
(* The invariant of nodes and schedules.                                    *)

\* The schedules of the table, group by group.
Scheduled(g) == SCHEDULES[g].nodes

\* Every schedule is its node's; a node that is not marked is still to be
\* scheduled in this round.
SchedulesFit ==
    /\ TableOK(SCHEDULES)
    /\ \A g \in Sched!Groups : \A x : In(Scheduled(g), x) => Served(NODES, x)

UnmarkedToCome ==
    \A g \in Sched!Groups : \A x : In(Scheduled(g), x) =>
        \A i \in 1 .. Len(NODES) :
            (NODES[i].addr = x.addr /\ ~ NODES[i].schFlag) =>
                (pc # "send" /\ (pc = "schedule" => cursor < i))

\* In schedule distribution the thread schedules and sends, and the marked
\* nodes have schedules.
MarkedInSd ==
    phase = "SD" =>
        /\ pc \in {"schedule", "send"}
        /\ \A i \in 1 .. Len(NODES) :
              (NODES[i].type = "Onehop" /\ NODES[i].schFlag) =>
                  Sched!IsScheduled(SCHEDULES, NODES[i].addr)

FitInv == SchedulesFit /\ UnmarkedToCome /\ MarkedInSd

LEMMA ScheduledIsIn ==
    ASSUME NEW t, NEW a
    PROVE  Sched!IsScheduled(t, a) <=>
               \E g \in Sched!Groups : \E x : In(t[g].nodes, x) /\ x.addr = a
  BY DEF Sched!IsScheduled, Sched!IsScheduledIn, In

LEMMA InitFitInv == Init => FitInv
<1> SUFFICES ASSUME Init PROVE FitInv
  OBVIOUS
<1>1. << >> \in Seq(Entry) /\ Len(<< >>) = 0
  BY EmptySeq
<1>2. /\ DOMAIN SCHEDULES = Sched!Groups
      /\ \A g \in Sched!Groups : SCHEDULES[g].nodes = << >>
  BY DEF Init, Sched!Init, Sched!smInitSchedule
<1>3. \A x : ~ In(<< >>, x)
  BY <1>1 DEF In
<1>4. TableOK(SCHEDULES)
  <2>1. Unique(<< >>)
    BY <1>1 DEF Unique
  <2> QED
    BY <1>1, <1>2, <2>1, Zenon DEF TableOK
<1>5. phase = "DC"
  BY DEF Init, Sched!Init
<1> QED
  BY <1>2, <1>3, <1>4, <1>5 DEF FitInv, SchedulesFit, UnmarkedToCome, MarkedInSd, Scheduled

\* Collecting a node: a schedule is left only to one-hop nodes.
LEMMA CollectNodeFits ==
    ASSUME IInv, FitInv, CollectNode
    PROVE  FitInv'
<1>1. PICK node : node = Head(RNL)
  OBVIOUS
<1>2. Fresh(node) /\ Closed(NODES)
  BY <1>1, TailOfFresh DEF IInv, ListOK, CollectNode
<1>3. pc = "collect" /\ pc' = pc /\ phase # "SD"
  BY DEF CollectNode, FitInv, MarkedInSd
<1>4. phase' = phase /\ SchedulesFit'
  <2>1. CASE node.type = "Onehop" /\ NODES' = AddOnehopNode(NODES, node) /\ UNCHANGED schedVars
    <3>1. \A e : Served(NODES, e) => Served(NODES', e)
      BY <1>2, <2>1, AddOnehopServes
    <3>2. SCHEDULES' = SCHEDULES /\ phase' = phase
      BY <2>1 DEF schedVars
    <3> QED
      BY <3>1, <3>2 DEF FitInv, SchedulesFit, Scheduled
  <2>2. CASE NODES' = AddTwohopNode(NODES, node) /\ ~ Sched!IsScheduled(SCHEDULES, node.addr)
             /\ UNCHANGED schedVars
    <3>1. \A e : Served(NODES, e) /\ e.addr # node.addr => Served(NODES', e)
      BY <1>2, <2>2, AddTwohopServes
    <3>2. \A g \in Sched!Groups : \A x : In(Scheduled(g), x) => x.addr # node.addr
      BY <2>2, ScheduledIsIn DEF Scheduled
    <3>3. SCHEDULES' = SCHEDULES /\ phase' = phase
      BY <2>2 DEF schedVars
    <3> QED
      BY <3>1, <3>2, <3>3 DEF FitInv, SchedulesFit, Scheduled
  <2>3. CASE NODES' = AddTwohopNode(NODES, node) /\ Sched!RemoveNode(node.addr)
    <3>1. \A e : Served(NODES, e) /\ e.addr # node.addr => Served(NODES', e)
      BY <1>2, <2>3, AddTwohopServes
    <3>2. SCHEDULES' = Sched!removeNodeFromSchedule(SCHEDULES, node.addr) /\ phase' = phase
      BY <2>3 DEF Sched!RemoveNode
    <3>3. /\ TableOK(SCHEDULES')
          /\ \A g \in Sched!Groups : Without(SCHEDULES[g].nodes, SCHEDULES'[g].nodes, node.addr)
      BY <3>2, RemoveLeavesTable DEF FitInv, SchedulesFit
    <3>4. \A g \in Sched!Groups : \A x : In(SCHEDULES'[g].nodes, x) =>
             In(SCHEDULES[g].nodes, x) /\ x.addr # node.addr
      BY <3>3 DEF Without
    <3> QED
      BY <3>1, <3>2, <3>3, <3>4 DEF FitInv, SchedulesFit, Scheduled
  <2> QED
    BY <1>1, <2>1, <2>2, <2>3 DEF CollectNode
<1> QED
  BY <1>3, <1>4 DEF FitInv, UnmarkedToCome, MarkedInSd

\* Scheduling the next node: whoever has a schedule is marked or still to come.
LEMMA ScheduleNextFits ==
    ASSUME IInv, FitInv, ScheduleNext
    PROVE  FitInv'
<1>1. PICK i : i = Min(Unscheduled)
  OBVIOUS
<1>2. /\ NODES \in Seq(MngtNode) /\ Len(NODES) \in Nat /\ cursor \in Nat
      /\ \A j, k \in 1 .. Len(NODES) : NODES[j].addr = NODES[k].addr => j = k
  BY LenProperties DEF IInv, TypeOK, Closed, ListOK, Unique
<1>3. /\ i \in 1 .. Len(NODES) /\ cursor' = i /\ pc = "schedule" /\ pc' = pc
      /\ NODES[i].type = "Onehop" /\ ~ NODES[i].schFlag
      /\ \A j \in Unscheduled : i <= j
  <2>1. Unscheduled \subseteq Nat /\ Unscheduled # {}
    BY <1>2 DEF ScheduleNext, Unscheduled
  <2>2. i \in Unscheduled /\ \A j \in Unscheduled : i <= j
    BY <1>1, <2>1, MinOfNats
  <2>3. i \in 1 .. Len(NODES) /\ NODES[i].type = "Onehop" /\ ~ NODES[i].schFlag
    BY <1>2, <2>2 DEF Unscheduled
  <2> QED
    BY <1>1, <2>2, <2>3 DEF ScheduleNext
<1>4. PICK a \in Addr : a = NODES[i].addr
  <2>1. NODES[i] \in MngtNode
    BY <1>2, <1>3, ElementOfSeq
  <2>2. NODES[i].addr \in Addr
    BY <2>1 DEF MngtNode
  <2> QED
    BY <2>2
<1>5. PICK d \in Nat : d = NODES[i].slotDmn
  <2>1. NODES[i] \in MngtNode
    BY <1>2, <1>3, ElementOfSeq
  <2>2. NODES[i].slotDmn \in 0 .. Uint8 - 1
    BY <2>1 DEF MngtNode
  <2>3. NODES[i].slotDmn \in Nat
    BY <2>2 DEF Uint8
  <2> QED
    BY <2>3
<1>6. Rescheduled(SCHEDULES, SCHEDULES', a, d) /\ phase' = phase
  <2>1. Sched!ScheduleNode(a, d)
    BY <1>1, <1>4, <1>5 DEF ScheduleNext
  <2>2. SCHEDULES' = Sched!scheduleNode(SCHEDULES, a, d, Sched!NboSchUpdate) /\ phase' = phase
    BY <2>1 DEF Sched!ScheduleNode
  <2>3. Sched!NboSchUpdate \in Int
    BY MacAssumption DEF Sched!NboSchUpdate
  <2>4. TableOK(SCHEDULES)
    BY DEF FitInv, SchedulesFit
  <2> QED
    BY <2>2, <2>3, <2>4, ScheduleNodeReschedules
<1> DEFINE placed == Sched!IsScheduled(SCHEDULES', a)
<1>7. /\ Len(NODES') = Len(NODES)
      /\ \A j \in 1 .. Len(NODES) :
            /\ NODES'[j].addr = NODES[j].addr /\ NODES'[j].type = NODES[j].type
            /\ NODES'[j].slotDmn = NODES[j].slotDmn
            /\ NODES'[j].schFlag <=> NODES[j].schFlag \/ (j = i /\ placed)
  <2>1. CASE ~ placed
    <3>1. NODES' = NODES
      BY <1>1, <1>4, <2>1 DEF ScheduleNext
    <3> QED
      BY <2>1, <3>1
  <2>2. CASE placed
    <3>1. PICK n : n = [NODES[i] EXCEPT !.schFlag = TRUE, !.isConnected = TRUE]
      OBVIOUS
    <3>2. NODES[i] \in MngtNode
      BY <1>2, <1>3, ElementOfSeq
    <3>3. /\ n \in MngtNode /\ n.addr = NODES[i].addr /\ n.type = NODES[i].type
          /\ n.slotDmn = NODES[i].slotDmn /\ n.schFlag
      BY <3>1, <3>2 DEF MngtNode
    <3>4. PICK marked : marked = [NODES EXCEPT ![i] = n]
      OBVIOUS
    <3>5. /\ marked \in Seq(MngtNode) /\ Len(marked) = Len(NODES)
          /\ \A j \in 1 .. Len(NODES) : marked[j] = IF j = i THEN n ELSE NODES[j]
      BY <1>2, <1>3, <3>3, <3>4, ExceptSeq
    <3>6. NODES' = dmSetChildConnStatus(marked, NODES[i], TRUE)
      <4>1. marked = [NODES EXCEPT ![i].schFlag = TRUE, ![i].isConnected = TRUE]
        BY <3>1, <3>4
      <4> QED
        BY <1>1, <1>4, <2>2, <4>1 DEF ScheduleNext
    <3>7. SameNodes(NODES', marked) /\ SameFlags(NODES', marked)
      BY <3>5, <3>6, ConnStatusKeepsNodes
    <3> QED
      BY <2>2, <3>3, <3>5, <3>7 DEF SameNodes, SameFlags
  <2> QED
    BY <2>1, <2>2
<1> HIDE DEF placed
<1>8. placed <=> \E g \in Sched!Groups : \E x : In(Scheduled(g)', x) /\ x.addr = a
  BY ScheduledIsIn DEF placed, Scheduled
<1>9. ASSUME NEW g \in Sched!Groups, NEW x, In(Scheduled(g)', x)
      PROVE  /\ Served(NODES', x)
             /\ \A j \in 1 .. Len(NODES') :
                   (NODES'[j].addr = x.addr /\ ~ NODES'[j].schFlag) => i < j
  <2>1. CASE x.addr = a
    <3>1. placed
      BY <1>8, <1>9, <2>1
    <3>2. x.slotDemand = d
      BY <1>6, <1>9, <2>1 DEF Rescheduled, Scheduled
    <3>3. Fits(NODES'[i], x)
      BY <1>3, <1>4, <1>5, <1>7, <2>1, <3>2 DEF Fits
    <3>4. \A j \in 1 .. Len(NODES') : NODES'[j].addr = x.addr => j = i
      BY <1>2, <1>3, <1>4, <1>7, <2>1
    <3> QED
      BY <1>3, <1>7, <3>1, <3>3, <3>4 DEF Served
  <2>2. CASE x.addr # a
    <3>1. In(Scheduled(g), x)
      BY <1>6, <1>9, <2>2 DEF Rescheduled, Scheduled
    <3>2. PICK j \in 1 .. Len(NODES) : Fits(NODES[j], x)
      BY <3>1 DEF FitInv, SchedulesFit, Served
    <3>3. j # i /\ Fits(NODES'[j], x)
      BY <1>4, <1>7, <2>2, <3>2 DEF Fits
    <3>4. \A k \in 1 .. Len(NODES') : NODES'[k].addr = x.addr => k = j
      BY <1>2, <1>7, <3>2 DEF Fits
    <3>5. ~ NODES'[j].schFlag => i < j
      <4> SUFFICES ASSUME ~ NODES'[j].schFlag PROVE i < j
        OBVIOUS
      <4>1. ~ NODES[j].schFlag /\ NODES[j].type = "Onehop" /\ NODES[j].addr = x.addr
        BY <1>7, <3>2 DEF Fits
      <4>2. cursor < j
        BY <1>3, <3>1, <4>1 DEF FitInv, UnmarkedToCome
      <4>3. j \in Unscheduled
        BY <1>2, <4>1, <4>2 DEF Unscheduled
      <4> QED
        BY <1>2, <1>3, <3>3, <4>3
    <3> QED
      BY <1>7, <3>3, <3>4, <3>5 DEF Served
  <2> QED
    BY <2>1, <2>2
<1>10. SchedulesFit'
  <2>1. TableOK(SCHEDULES')
    BY <1>6 DEF Rescheduled
  <2> QED
    BY <1>9, <2>1 DEF SchedulesFit
<1>11. UnmarkedToCome'
  BY <1>3, <1>9 DEF UnmarkedToCome
<1>12. MarkedInSd'
  <2> SUFFICES ASSUME phase = "SD", NEW j \in 1 .. Len(NODES'),
                      NODES'[j].type = "Onehop", NODES'[j].schFlag
               PROVE  Sched!IsScheduled(SCHEDULES', NODES'[j].addr)
    BY <1>3, <1>6 DEF MarkedInSd
  <2>1. CASE j = i
    BY <1>3, <1>4, <1>7, <2>1 DEF placed
  <2>2. CASE j # i
    <3>1. /\ j \in 1 .. Len(NODES) /\ NODES[j].type = "Onehop" /\ NODES[j].schFlag
          /\ NODES'[j].addr = NODES[j].addr /\ NODES[j].addr # a
      BY <1>2, <1>3, <1>4, <1>7, <2>2
    <3>2. PICK g \in Sched!Groups : \E x : In(Scheduled(g), x) /\ x.addr = NODES[j].addr
      BY <3>1, ScheduledIsIn DEF FitInv, MarkedInSd, Scheduled
    <3>3. PICK x : In(Scheduled(g), x) /\ x.addr = NODES[j].addr
      BY <3>2
    <3>4. In(Scheduled(g)', x)
      BY <1>6, <3>1, <3>3 DEF Rescheduled, Scheduled
    <3> QED
      BY <3>1, <3>3, <3>4, ScheduledIsIn DEF Scheduled
  <2> QED
    BY <2>1, <2>2
<1> QED
  BY <1>10, <1>11, <1>12 DEF FitInv

\* A message tells of schedules and changes none.
LEMMA AnnouncedFits ==
    ASSUME FitInv, Announced(SCHEDULES, SCHEDULES'), NODES' = NODES, pc = "send",
           pc' \in {"send", "frame"}, pc' # "send" => phase # "SD", phase' = phase
    PROVE  FitInv'
<1>1. ASSUME NEW g \in Sched!Groups, NEW x, In(Scheduled(g)', x)
      PROVE  \E y : In(Scheduled(g), y) /\ y.addr = x.addr /\ y.slotDemand = x.slotDemand
  BY <1>1 DEF In, Announced, Scheduled
<1>2. ASSUME NEW g \in Sched!Groups, NEW y, In(Scheduled(g), y)
      PROVE  \E x : In(Scheduled(g)', x) /\ y.addr = x.addr
  BY <1>2 DEF In, Announced, Scheduled
<1>3. SchedulesFit'
  <2>1. \A x, y : y.addr = x.addr /\ y.slotDemand = x.slotDemand /\ Served(NODES, y)
                    => Served(NODES, x)
    BY DEF Served, Fits
  <2>2. TableOK(SCHEDULES')
    BY DEF Announced
  <2> QED
    BY <1>1, <2>1, <2>2 DEF FitInv, SchedulesFit
<1>4. UnmarkedToCome'
  BY <1>1 DEF FitInv, UnmarkedToCome
<1>5. \A a : Sched!IsScheduled(SCHEDULES, a) => Sched!IsScheduled(SCHEDULES', a)
  <2> TAKE a
  <2> HAVE Sched!IsScheduled(SCHEDULES, a)
  <2>1. PICK g \in Sched!Groups : \E y : In(Scheduled(g), y) /\ y.addr = a
    BY ScheduledIsIn DEF Scheduled
  <2>2. PICK y : In(Scheduled(g), y) /\ y.addr = a
    BY <2>1
  <2>3. PICK x : In(Scheduled(g)', x) /\ y.addr = x.addr
    BY <1>2, <2>2
  <2> QED
    BY <2>2, <2>3, ScheduledIsIn DEF Scheduled
<1>6. MarkedInSd'
  BY <1>5 DEF FitInv, MarkedInSd
<1> QED
  BY <1>3, <1>4, <1>6 DEF FitInv

\* One case for each step of the two threads.
LEMMA NextKeepsFitInv == IInv /\ FitInv /\ [Next]_vars => FitInv'
<1> SUFFICES ASSUME IInv, FitInv, [Next]_vars PROVE FitInv'
  OBVIOUS
<1> USE DEF inputVars, schedVars
<1>1. CASE UNCHANGED <<NODES, SCHEDULES, phase, pc, cursor>>
  BY <1>1 DEF FitInv, SchedulesFit, UnmarkedToCome, MarkedInSd, Scheduled
<1>2. CASE BeginFrame
  <2>1. UNCHANGED <<NODES, SCHEDULES, phase>> /\ phase = "DC" /\ pc' = "collect"
    BY <1>2 DEF BeginFrame
  <2> QED
    BY <2>1 DEF FitInv, SchedulesFit, UnmarkedToCome, MarkedInSd, Scheduled
<1>3. CASE BeginScheduleDist
  <2>1. /\ SameNodes(NODES', NODES)
        /\ \A i \in 1 .. Len(NODES) : NODES'[i].schFlag = FALSE
    BY <1>3, SchFlagKeepsNodes DEF BeginScheduleDist, IInv, TypeOK
  <2>2. << >> \in Seq(Entry) /\ Len(<< >>) = 0
    BY EmptySeq
  <2>3. /\ DOMAIN SCHEDULES' = Sched!Groups
        /\ \A g \in Sched!Groups : SCHEDULES'[g].nodes = << >>
    BY <1>3 DEF BeginScheduleDist, Sched!StartSd, Sched!smInitSchedule
  <2>4. TableOK(SCHEDULES')
    <3>1. Unique(<< >>)
      BY <2>2 DEF Unique
    <3> QED
      BY <2>2, <2>3, <3>1, Zenon DEF TableOK
  <2>5. \A x : ~ In(<< >>, x)
    BY <2>2 DEF In
  <2>6. pc' = "schedule"
    BY <1>3 DEF BeginScheduleDist
  <2> QED
    BY <2>1, <2>3, <2>4, <2>5, <2>6
    DEF FitInv, SchedulesFit, UnmarkedToCome, MarkedInSd, Scheduled, SameNodes
<1>4. CASE CollectNode
  BY <1>4, CollectNodeFits
<1>5. CASE EndCollect
  <2>1. UNCHANGED <<NODES, SCHEDULES, phase>> /\ pc = "collect" /\ pc' = "schedule" /\ cursor' = 0
    BY <1>5 DEF EndCollect
  <2>2. Len(NODES) \in Nat
    BY LenProperties DEF IInv, TypeOK
  <2> QED
    BY <2>1, <2>2 DEF FitInv, SchedulesFit, UnmarkedToCome, MarkedInSd, Scheduled
<1>6. CASE ScheduleNext
  BY <1>6, ScheduleNextFits
<1>7. CASE EndSchedule
  <2>1. /\ UNCHANGED <<NODES, SCHEDULES, phase>> /\ pc = "schedule" /\ pc' = "send"
        /\ Unscheduled = {}
    BY <1>7 DEF EndSchedule
  <2>2. UnmarkedToCome'
    <3> SUFFICES ASSUME NEW g \in Sched!Groups, NEW x, In(Scheduled(g), x),
                        NEW i \in 1 .. Len(NODES), NODES[i].addr = x.addr, ~ NODES[i].schFlag
                 PROVE  FALSE
      BY <2>1 DEF UnmarkedToCome, Scheduled
    <3>1. cursor < i
      BY <2>1 DEF FitInv, UnmarkedToCome
    <3>2. PICK j \in 1 .. Len(NODES) : Fits(NODES[j], x)
      BY DEF FitInv, SchedulesFit, Served
    <3>3. j = i
      BY <3>2 DEF Fits, IInv, Closed, ListOK, Unique
    <3>4. Len(NODES) \in Nat /\ cursor \in Nat
      BY LenProperties DEF IInv, TypeOK
    <3>5. i \in Unscheduled
      BY <3>1, <3>2, <3>3, <3>4 DEF Unscheduled, Fits
    <3> QED
      BY <2>1, <3>5
  <2> QED
    BY <2>1, <2>2 DEF FitInv, SchedulesFit, MarkedInSd, Scheduled
<1>8. CASE SendCm
  <2>1. Announced(SCHEDULES, SCHEDULES')
    BY <1>8, AnnounceKeepsTable DEF SendCm, Sched!SendCm, FitInv, SchedulesFit
  <2> QED
    BY <1>8, <2>1, AnnouncedFits DEF SendCm, Sched!SendCm
<1>9. CASE SendSm
  <2>1. phase = "SD" /\ phase' = phase /\ pc = "send" /\ UNCHANGED <<NODES, pc, cursor>>
    BY <1>9 DEF SendSm, Sched!SendSm
  <2>2. \/ UNCHANGED SCHEDULES
        \/ \E S : Sched!Announce(S)
    BY <1>9 DEF SendSm, Sched!SendSm
  <2>3. CASE \E S : Sched!Announce(S)
    <3>1. Announced(SCHEDULES, SCHEDULES')
      BY <2>3, AnnounceKeepsTable DEF FitInv, SchedulesFit
    <3> QED
      BY <2>1, <3>1, AnnouncedFits
  <2> QED
    BY <1>1, <2>1, <2>2, <2>3
<1>10. CASE BeginDataCollection
  <2>1. UNCHANGED <<NODES, SCHEDULES>> /\ phase' = "DC" /\ pc' = "frame"
    BY <1>10 DEF BeginDataCollection, Sched!StartDc
  <2> QED
    BY <2>1 DEF FitInv, SchedulesFit, UnmarkedToCome, MarkedInSd, Scheduled
<1>11. CASE inputMsgHandlerThread \/ RequestPhaseTrans \/ UNCHANGED vars
  BY <1>1, <1>11 DEF inputMsgHandlerThread, RegisterNode, ReceiveRr, RequestPhaseTrans, vars
<1> QED
  BY <1>2, <1>3, <1>4, <1>5, <1>6, <1>7, <1>8, <1>9, <1>10, <1>11
     DEF Next, phaseHandlerThread

(* The lists of nodes and the table of schedules fit together: whenever a   *)
(* message is sent every schedule is that of a one-hop node, marked as      *)
(* scheduled, that asks for exactly this many slots, and after schedule     *)
(* distribution every marked node has one, through all registrations that   *)
(* arrive meanwhile.                                                        *)
THEOREM NodesAndSchedulesFit == Spec => []NodesSound
<1>1. IInv /\ FitInv => NodesSound
  <2> SUFFICES ASSUME IInv, FitInv PROVE NodesSound
    OBVIOUS
  <2>1. TypeOK /\ NodesUnique
    BY DEF IInv, Closed, ListOK, Unique, NodesUnique
  <2>2. SchedulesCurrent
    <3> SUFFICES ASSUME pc = "send", NEW g \in Sched!Groups, NEW k \in 1 .. Len(Sched!Nodes(g)),
                        NEW s, s = Sched!Nodes(g)[k]
                 PROVE  /\ Known(s.addr)
                        /\ NodeAt(NODES, s.addr).type = "Onehop"
                        /\ NodeAt(NODES, s.addr).schFlag
                        /\ NodeAt(NODES, s.addr).slotDmn = s.slotDemand
      BY DEF SchedulesCurrent
    <3>1. In(Scheduled(g), s)
      BY DEF In, Scheduled, Sched!Nodes
    <3>2. PICK i \in 1 .. Len(NODES) : Fits(NODES[i], s)
      BY <3>1 DEF FitInv, SchedulesFit, Served
    <3>3. Known(s.addr)
      BY <3>2 DEF Fits, Known, isNodeExisted
    <3>4. PICK p : p = IndexOf(NODES, s.addr)
      OBVIOUS
    <3>5. p \in 1 .. Len(NODES) /\ NODES[p].addr = s.addr
      BY <3>3, <3>4, IndexOfKnown DEF Known, IInv, TypeOK
    <3>6. p = i
      BY <3>2, <3>5 DEF Fits, IInv, Closed, ListOK, Unique
    <3>7. NODES[i].schFlag
      BY <3>1, <3>2 DEF Fits, FitInv, UnmarkedToCome
    <3> QED
      BY <3>2, <3>3, <3>4, <3>6, <3>7 DEF Fits, NodeAt
  <2>3. FlaggedNodesScheduledInSd
    BY DEF FlaggedNodesScheduledInSd, FitInv, MarkedInSd
  <2> QED
    BY <2>1, <2>2, <2>3 DEF NodesSound
<1> QED
  BY <1>1, InitIInv, NextKeepsIInv, InitFitInv, NextKeepsFitInv, PTL DEF Spec
=============================================================================
