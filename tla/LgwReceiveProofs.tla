--------------------------- MODULE LgwReceiveProofs ---------------------------
(***************************************************************************)
(* Reception (LgwReceive) neither loses, repeats nor reorders a packet the *)
(* FIFO took, for any packets, depths and numbers of packets per call, and *)
(* any number of calls that stop in the middle.                            *)
(***************************************************************************)
EXTENDS LgwReceive, SequenceTheorems, TLAPS

\* What lgw_receive hands over
Received == {RxPkt(p) : p \in Packets}

\* The packets of what was fetched
PacketsOf(q) == [i \in DOMAIN q |-> q[i].pkt]

\* Both ends of the FIFO hold packets, and FetchedOnceInOrder
OrderInv ==
    /\ arrived \in Seq(Packets) /\ fifo \in Seq(Packets) /\ fetched \in Seq(Received)
    /\ PacketsOf(fetched) \o fifo = arrived

\* PacketsOf has the length of its argument and keeps each packet
LEMMA PacketsOfSeq ==
    ASSUME NEW q \in Seq(Received)
    PROVE  /\ PacketsOf(q) \in Seq(Packets)
           /\ Len(PacketsOf(q)) = Len(q)
           /\ \A i \in 1 .. Len(q) : PacketsOf(q)[i] = q[i].pkt
<1>1. \A i \in 1 .. Len(q) : q[i].pkt \in Packets
  <2>1. \A r \in Received : r.pkt \in Packets
    BY DEF Received, RxPkt
  <2> QED
    BY <2>1
<1>2. PacketsOf(q) = [i \in 1 .. Len(q) |-> q[i].pkt]
  BY DEF PacketsOf
<1> QED
  BY <1>1, <1>2

\* The packets of the first n of the FIFO, as they are handed over
LEMMA FetchedFromFifo ==
    ASSUME NEW q \in Seq(Packets), NEW n \in 0 .. Len(q)
    PROVE  /\ [i \in 1 .. n |-> RxPkt(q[i])] \in Seq(Received)
           /\ PacketsOf([i \in 1 .. n |-> RxPkt(q[i])]) = SubSeq(q, 1, n)
<1> DEFINE new == [i \in 1 .. n |-> RxPkt(q[i])]
<1>1. new \in Seq(Received) /\ Len(new) = n
  BY DEF Received
<1>2. \A i \in 1 .. n : new[i].pkt = q[i]
  BY DEF RxPkt
<1> HIDE DEF new
<1>3. /\ SubSeq(q, 1, n) \in Seq(Packets) /\ Len(SubSeq(q, 1, n)) = n
      /\ \A i \in 1 .. n : SubSeq(q, 1, n)[i] = q[i]
  BY SubSeqProperties
<1>4. /\ PacketsOf(new) \in Seq(Packets) /\ Len(PacketsOf(new)) = n
      /\ \A i \in 1 .. n : PacketsOf(new)[i] = q[i]
  BY <1>1, <1>2, PacketsOfSeq
<1>5. PacketsOf(new) = SubSeq(q, 1, n)
  BY <1>3, <1>4, SeqEqual
<1> QED
  BY <1>1, <1>5 DEF new

\* PacketsOf distributes over the concatenation of two calls' packets
LEMMA PacketsOfConcat ==
    ASSUME NEW q \in Seq(Received), NEW r \in Seq(Received)
    PROVE  PacketsOf(q \o r) = PacketsOf(q) \o PacketsOf(r)
<1>0. PICK c : c = q \o r
  OBVIOUS
<1>1. /\ c \in Seq(Received) /\ Len(c) = Len(q) + Len(r)
      /\ \A i \in 1 .. Len(q) + Len(r) : c[i] = IF i <= Len(q) THEN q[i] ELSE r[i - Len(q)]
  BY <1>0, ConcatProperties
<1>2. PICK g : /\ g = PacketsOf(q) /\ g \in Seq(Packets) /\ Len(g) = Len(q)
              /\ \A i \in 1 .. Len(q) : g[i] = q[i].pkt
  BY PacketsOfSeq
<1>3. PICK h : /\ h = PacketsOf(r) /\ h \in Seq(Packets) /\ Len(h) = Len(r)
              /\ \A i \in 1 .. Len(r) : h[i] = r[i].pkt
  BY PacketsOfSeq
<1>4. PICK b : b = g \o h
  OBVIOUS
<1>5. /\ b \in Seq(Packets) /\ Len(b) = Len(q) + Len(r)
      /\ \A i \in 1 .. Len(q) + Len(r) : b[i] = IF i <= Len(q) THEN g[i] ELSE h[i - Len(q)]
  <2>1. g \in Seq(Packets) /\ h \in Seq(Packets)
    BY <1>2, <1>3
  <2>2. /\ b \in Seq(Packets) /\ Len(b) = Len(g) + Len(h)
        /\ \A i \in 1 .. Len(g) + Len(h) : b[i] = IF i <= Len(g) THEN g[i] ELSE h[i - Len(g)]
    BY <1>4, <2>1, ConcatProperties
  <2>3. Len(g) = Len(q) /\ Len(h) = Len(r)
    BY <1>2, <1>3
  <2> QED
    BY <2>2, <2>3
<1>6. PICK a : a = PacketsOf(c)
  OBVIOUS
<1>7. /\ a \in Seq(Packets) /\ Len(a) = Len(q) + Len(r)
      /\ \A i \in 1 .. Len(q) + Len(r) : a[i] = c[i].pkt
  <2>1. c \in Seq(Received) /\ Len(c) = Len(q) + Len(r)
    BY <1>1
  <2>2. /\ PacketsOf(c) \in Seq(Packets) /\ Len(PacketsOf(c)) = Len(c)
        /\ \A i \in 1 .. Len(c) : PacketsOf(c)[i] = c[i].pkt
    BY <2>1, PacketsOfSeq
  <2> QED
    BY <1>6, <2>1, <2>2
<1>8. \A i \in 1 .. Len(q) + Len(r) : a[i] = b[i]
  <2> SUFFICES ASSUME NEW i \in 1 .. Len(q) + Len(r) PROVE a[i] = b[i]
    OBVIOUS
  <2>1. CASE i <= Len(q)
    <3>1. i \in 1 .. Len(q)
      BY <2>1
    <3>2. c[i] = q[i] /\ b[i] = g[i]
      BY <1>1, <1>5, <2>1
    <3> QED
      BY <1>2, <1>7, <3>1, <3>2
  <2>2. CASE ~ (i <= Len(q))
    <3>1. PICK k \in 1 .. Len(r) : k = i - Len(q)
      BY <2>2, SMTT(30)
    <3>2. a[i] = r[k].pkt
      BY <1>1, <1>7, <2>2, <3>1
    <3>3. b[i] = h[k]
      BY <1>5, <2>2, <3>1
    <3> QED
      BY <1>3, <3>2, <3>3
  <2> QED
    BY <2>1, <2>2
<1>9. a = b
  BY <1>5, <1>7, <1>8, SeqEqual
<1> QED
  BY <1>0, <1>2, <1>3, <1>4, <1>6, <1>9

\* A packet that the FIFO takes joins both what arrived and the FIFO
LEMMA ArriveKeepsOrder == ASSUME OrderInv, NEW p \in Packets, Arrive(p) PROVE OrderInv'
<1>1. CASE Len(fifo) < FifoDepth
  <2>1. fifo' = Append(fifo, p) /\ arrived' = Append(arrived, p) /\ fetched' = fetched
    BY <1>1 DEF Arrive
  <2>2. fifo' \in Seq(Packets) /\ arrived' \in Seq(Packets)
    BY <2>1, AppendProperties DEF OrderInv
  <2>3. PICK g : g = PacketsOf(fetched)
    OBVIOUS
  <2>4. g \in Seq(Packets) /\ fifo \in Seq(Packets) /\ g \o fifo = arrived
    BY <2>3, PacketsOfSeq DEF OrderInv
  <2>5. g \o Append(fifo, p) = Append(g \o fifo, p)
    <3>1. Append(fifo, p) = fifo \o <<p>> /\ <<p>> \in Seq(Packets)
      BY <2>4, AppendIsConcat
    <3>2. g \o fifo \in Seq(Packets)
      BY <2>4, ConcatProperties
    <3>3. Append(g \o fifo, p) = (g \o fifo) \o <<p>>
      BY <3>2, AppendIsConcat
    <3>4. (g \o fifo) \o <<p>> = g \o (fifo \o <<p>>)
      BY <2>4, <3>1, ConcatAssociative, SMTT(30)
    <3> QED
      BY <3>1, <3>3, <3>4
  <2> QED
    BY <2>1, <2>2, <2>3, <2>4, <2>5 DEF OrderInv
<1>2. CASE ~ (Len(fifo) < FifoDepth)
  BY <1>2 DEF Arrive, OrderInv
<1> QED
  BY <1>1, <1>2

\* A call moves the first n packets, also when it stops in the middle
LEMMA ReceiveKeepsOrder == ASSUME OrderInv, NEW max, lgw_receive(max) PROVE OrderInv'
<1>1. PICK n \in 0 .. Len(fifo) :
         /\ fetched' = fetched \o [i \in 1 .. n |-> RxPkt(fifo[i])]
         /\ fifo' = SubSeq(fifo, n + 1, Len(fifo))
         /\ arrived' = arrived
  <2>1. fifo \in Seq(Packets) /\ Len(fifo) \in Nat /\ max \in 1 .. FifoDepth
    BY DEF OrderInv, lgw_receive
  <2>2. PICK most : most = IF Len(fifo) < max THEN Len(fifo) ELSE max
    OBVIOUS
  <2>3. most \in 0 .. Len(fifo)
    BY <2>1, <2>2, ReceiveAssumption
  <2>4. \E n \in 0 .. most :
          /\ fetched' = fetched \o [i \in 1 .. n |-> RxPkt(fifo[i])]
          /\ fifo' = SubSeq(fifo, n + 1, Len(fifo))
    BY <2>2 DEF lgw_receive
  <2>5. 0 .. most \subseteq 0 .. Len(fifo)
    BY <2>1, <2>3
  <2> QED
    BY <2>4, <2>5 DEF lgw_receive
<1>2. PICK new : new = [i \in 1 .. n |-> RxPkt(fifo[i])]
  OBVIOUS
<1>3. new \in Seq(Received) /\ PacketsOf(new) = SubSeq(fifo, 1, n)
  BY <1>2, FetchedFromFifo DEF OrderInv
<1>4. PICK g : g = PacketsOf(fetched)
  OBVIOUS
<1>5. g \in Seq(Packets) /\ fifo \in Seq(Packets) /\ Len(fifo) \in Nat /\ g \o fifo = arrived
  BY <1>4, PacketsOfSeq DEF OrderInv
<1>6. PICK head : head = SubSeq(fifo, 1, n)
  OBVIOUS
<1>7. PICK rest : rest = SubSeq(fifo, n + 1, Len(fifo))
  OBVIOUS
<1>8. head \in Seq(Packets) /\ rest \in Seq(Packets)
  <2>1. n \in Int /\ n + 1 \in Int /\ Len(fifo) \in Int
    BY <1>5
  <2>2. /\ \A i \in 1 .. n : fifo[i] \in Packets
        /\ \A i \in n + 1 .. Len(fifo) : fifo[i] \in Packets
    BY <1>5
  <2>3. head \in Seq(Packets)
    BY <1>6, <2>1, <2>2, SubSeqProperties
  <2>4. rest \in Seq(Packets)
    BY <1>7, <2>1, <2>2, SubSeqProperties
  <2> QED
    BY <2>3, <2>4
<1>9. head \o rest = fifo
  <2>0. 1 \in 1 .. Len(fifo) + 1 /\ n \in 1 - 1 .. Len(fifo) /\ Len(fifo) \in n .. Len(fifo)
    BY <1>5
  <2>1. head \o rest = SubSeq(fifo, 1, Len(fifo))
    BY <1>5, <1>6, <1>7, <2>0, ConcatAdjacentSubSeq
  <2> QED
    BY <1>5, <2>1, SubSeqFull
<1>10. fetched' \in Seq(Received)
  <2>1. fetched' = fetched \o new /\ fetched \in Seq(Received)
    BY <1>1, <1>2 DEF OrderInv
  <2> QED
    BY <1>3, <2>1, ConcatProperties
<1>11. PacketsOf(fetched') = g \o head
  <2>1. fetched' = fetched \o new /\ fetched \in Seq(Received)
    BY <1>1, <1>2 DEF OrderInv
  <2>2. PacketsOf(fetched \o new) = PacketsOf(fetched) \o PacketsOf(new)
    BY <1>3, <2>1, PacketsOfConcat
  <2> QED
    BY <1>3, <1>4, <1>6, <2>1, <2>2
<1>12. (g \o head) \o rest = g \o (head \o rest)
  <2>1. g \in Seq(Packets) /\ head \in Seq(Packets) /\ rest \in Seq(Packets)
    BY <1>5, <1>8
  <2> QED
    BY <2>1, ConcatAssociative, SMTT(30)
<1>13. PacketsOf(fetched') \o fifo' = arrived'
  BY <1>1, <1>5, <1>7, <1>9, <1>11, <1>12
<1>14. arrived' \in Seq(Packets) /\ fifo' \in Seq(Packets)
  BY <1>1, <1>7, <1>8 DEF OrderInv
<1> QED
  BY <1>10, <1>13, <1>14 DEF OrderInv

\* What was fetched and what is in the FIFO make up, in order, what the FIFO
\* ever took.
THEOREM NothingLost == Spec => []FetchedOnceInOrder
<1>1. Init => OrderInv
  <2> SUFFICES ASSUME Init PROVE OrderInv
    OBVIOUS
  <2>1. PacketsOf(<< >>) = << >>
    <3>1. /\ PacketsOf(<< >>) \in Seq(Packets)
          /\ Len(PacketsOf(<< >>)) = 0
      BY PacketsOfSeq, EmptySeq
    <3> QED
      BY <3>1, EmptySeq
  <2> QED
    BY <2>1 DEF Init, OrderInv
<1>2. OrderInv /\ [Next]_vars => OrderInv'
  <2>1. OrderInv /\ UNCHANGED vars => OrderInv'
    BY DEF OrderInv, vars
  <2> QED
    BY <2>1, ArriveKeepsOrder, ReceiveKeepsOrder DEF Next
<1>3. OrderInv => FetchedOnceInOrder
  BY DEF OrderInv, FetchedOnceInOrder, PacketsOf
<1> QED
  BY <1>1, <1>2, <1>3, PTL DEF Spec
=============================================================================
