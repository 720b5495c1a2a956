---------------------------- MODULE LoraWanProofs ----------------------------
(***************************************************************************)
(* Three of the server's parts for LoRaWAN.  A value of the frame counter  *)
(* of the downlink, and with it a block that is enciphered, comes again    *)
(* only after a whole round of the counter, for any devices, gateways,     *)
(* payload sizes and numbers of frames; payloads come back whatever the    *)
(* cipher is.  The list of gateways holds the connected ones, and each     *)
(* gets its messages, for any number of connections and descriptors.       *)
(* The list of devices is looked at one device at a time: Of names a       *)
(* device by its two places, and what each operation makes of a device     *)
(* (AfterJoin, AfterData, Without) keeps it Routed.  CarriedOver says of   *)
(* a step that each device is kept, and reached if it had two gateways.    *)
(***************************************************************************)
EXTENDS MCLoraWan, WellFoundedInduction, SequenceTheorems, TLAPS

\* A counter that has the value c at its turn-th use: whole rounds and c.
Rounds(turn, c) == \E q \in Nat : turn = q * Counter + c

\* The counter and the one of each frame are where the number of frames before
\* put them, and no two frames have the same number.
CounterInv ==
    /\ turns \in Nat /\ FCntDown \in 0 .. Counter - 1 /\ Rounds(turns, FCntDown)
    /\ \A f \in Data : /\ f.turn \in Nat /\ f.turn < turns
                      /\ f.count \in 0 .. Counter - 1 /\ Rounds(f.turn, f.count)
                      /\ f.size \in 0 .. 255
    /\ \A f, g \in Data : f.turn = g.turn => f = g

\* The next use of the counter, also when it wraps.
LEMMA AdvancedInRounds ==
    ASSUME NEW turn \in Nat, NEW c \in 0 .. Counter - 1, Rounds(turn, c)
    PROVE  (c + 1) % Counter \in 0 .. Counter - 1 /\ Rounds(turn + 1, (c + 1) % Counter)
<1>1. Counter \in Nat \ {0}
  BY DownlinkAssumption
<1>2. PICK q \in Nat : turn = q * Counter + c
  BY DEF Rounds
<1>3. CASE c + 1 < Counter
  <2>1. (c + 1) % Counter = c + 1
    BY <1>1, <1>3
  <2>2. turn + 1 = q * Counter + (c + 1)
    <3>1. q * Counter \in Nat
      BY <1>1
    <3> QED
      BY <1>2, <3>1
  <2>3. Rounds(turn + 1, c + 1)
    BY <2>2 DEF Rounds
  <2> QED
    BY <1>1, <1>3, <2>1, <2>3
<1>4. CASE c + 1 = Counter
  <2>1. (c + 1) % Counter = 0
    BY <1>1, <1>4
  <2>2. turn + 1 = (q + 1) * Counter + 0
    <3>1. q * Counter \in Nat /\ (q + 1) * Counter = q * Counter + Counter
      BY <1>1
    <3> QED
      BY <1>1, <1>2, <1>4, <3>1
  <2>3. Rounds(turn + 1, 0)
    BY <2>2 DEF Rounds
  <2> QED
    BY <1>1, <2>1, <2>3
<1> QED
  BY <1>1, <1>3, <1>4

\* Two uses of one value are the same use or a round apart.
LEMMA SameValueApart ==
    ASSUME NEW m \in Nat, NEW n \in Nat, NEW c \in Nat, Rounds(m, c), Rounds(n, c), m # n
    PROVE  m + Counter <= n \/ n + Counter <= m
<1>1. Counter \in Nat
  BY DownlinkAssumption
<1>2. PICK p \in Nat : m = p * Counter + c
  BY DEF Rounds
<1>3. PICK q \in Nat : n = q * Counter + c
  BY DEF Rounds
<1>4. ASSUME NEW a \in Nat, NEW b \in Nat, a < b
      PROVE  a * Counter + Counter <= b * Counter
  <2>1. PICK d \in Nat : b = a + 1 + d
    BY <1>4, b - a - 1 \in Nat, b = a + 1 + (b - a - 1)
  <2>2. b * Counter = a * Counter + Counter + d * Counter
    BY <1>1, <2>1
  <2>3. a * Counter \in Nat /\ d * Counter \in Nat
    BY <1>1
  <2> QED
    BY <1>1, <2>2, <2>3
<1>5. p * Counter \in Nat /\ q * Counter \in Nat
  BY <1>1
<1>6. CASE p < q
  BY <1>1, <1>2, <1>3, <1>4, <1>5, <1>6
<1>7. CASE q < p
  BY <1>1, <1>2, <1>3, <1>4, <1>5, <1>7
<1>8. CASE p = q
  BY <1>2, <1>3, <1>8
<1> QED
  BY <1>6, <1>7, <1>8

\* A data frame takes the counter value and advances it.
LEMMA SendKeepsCounter ==
    ASSUME CounterInv, NEW d, NEW size \in 0 .. 255, NEW confirmed, SendFrame(d, size, confirmed)
    PROVE  CounterInv'
<1> DEFINE s == IF d \in known THEN route[d] ELSE -1
           frame == [type |-> IF confirmed THEN "Confirm_Data_Down" ELSE "Unconfirm_Data_Down",
                     to |-> s, device |-> d, count |-> FCntDown, turn |-> turns, ack |-> AckBit,
                     size |-> size, need |-> Full(size), sent |-> Stored(size)]
<1>1. /\ turns' = turns + 1
      /\ FCntDown' = (FCntDown + 1) % Counter
      /\ written' = written \/ written' = written \cup {frame}
  BY DEF SendFrame, Advanced
<1>2. frame.count = FCntDown /\ frame.turn = turns /\ frame.size \in 0 .. 255
  OBVIOUS
<1> HIDE DEF frame
<1>3. \A f \in Data' : f \in Data \/ f = frame
  BY <1>1 DEF Data
<1>4. turns' \in Nat /\ FCntDown' \in 0 .. Counter - 1 /\ Rounds(turns', FCntDown')
  BY <1>1, AdvancedInRounds DEF CounterInv
<1>5. ASSUME NEW f \in Data'
      PROVE  /\ f.turn \in Nat /\ f.turn < turns'
             /\ f.count \in 0 .. Counter - 1 /\ Rounds(f.turn, f.count)
             /\ f.size \in 0 .. 255
  <2>1. CASE f \in Data
    BY <1>1, <2>1 DEF CounterInv
  <2>2. CASE f = frame
    BY <1>1, <1>2, <2>2 DEF CounterInv
  <2> QED
    BY <1>3, <2>1, <2>2
<1>6. \A f, g \in Data' : f.turn = g.turn => f = g
  <2>1. \A f \in Data : f.turn # frame.turn
    BY <1>2 DEF CounterInv
  <2>2. \A f, g \in Data : f.turn = g.turn => f = g
    BY DEF CounterInv
  <2> QED
    BY <1>3, <2>1, <2>2
<1> QED
  BY <1>4, <1>5, <1>6 DEF CounterInv, Rounds

\* Without a new data frame the counter stays as it is.
LEMMA StillKeepsCounter ==
    ASSUME CounterInv, FCntDown' = FCntDown, turns' = turns, Data' = Data
    PROVE  CounterInv'
BY DEF CounterInv, Rounds

\* A join accept has no counter value
LEMMA JoinKeepsCounter ==
    ASSUME CounterInv, NEW d, NEW s, Join(d, s)
    PROVE  CounterInv'
<1>1. /\ turns' = turns /\ FCntDown' = FCntDown
      /\ \E f : f.type = "Join_Accept" /\ written' = written \cup {f}
  BY DEF Join, SendJoinAcceptFrame
<1>2. Data' = Data
  BY <1>1 DEF Data
<1> QED
  BY <1>1, <1>2, StillKeepsCounter

\* A counter value and the number of a part can be read off the block.
LEMMA BlockTells ==
    ASSUME NEW m \in Nat, m < 65536, NEW n \in Nat, n < 65536, NEW a, NEW b,
           NEW k \in Nat, k < 17, NEW l \in Nat, l < 17,
           PartBlock(1, a, m, k) = PartBlock(1, b, n, l)
    PROVE  m = n /\ k = l
<1>1. /\ FrameBlock(1, 1, a, m, k % 256)[11] = Low(m) /\ FrameBlock(1, 1, a, m, k % 256)[12] = High(m)
      /\ FrameBlock(1, 1, a, m, k % 256)[16] = k % 256
  BY DEF FrameBlock
<1>2. /\ FrameBlock(1, 1, b, n, l % 256)[11] = Low(n) /\ FrameBlock(1, 1, b, n, l % 256)[12] = High(n)
      /\ FrameBlock(1, 1, b, n, l % 256)[16] = l % 256
  BY DEF FrameBlock
<1>3. Low(m) = Low(n) /\ High(m) = High(n) /\ k % 256 = l % 256
  BY <1>1, <1>2 DEF PartBlock
<1>4. k = l
  BY <1>3
<1>5. m \div 256 \in Nat /\ m \div 256 < 256 /\ n \div 256 \in Nat /\ n \div 256 < 256
  OBVIOUS
<1>6. m % 256 = n % 256 /\ m \div 256 = n \div 256
  <2>1. m % 256 = n % 256 /\ (m \div 256) % 256 = (n \div 256) % 256
    BY <1>3 DEF Low, High
  <2>2. (m \div 256) % 256 = m \div 256 /\ (n \div 256) % 256 = n \div 256
    BY <1>5
  <2> QED
    BY <2>1, <2>2
<1>7. m = n
  BY <1>6
<1> QED
  BY <1>4, <1>7

\* A payload has at most 16 parts.
LEMMA FewParts == ASSUME NEW s \in 0 .. 255, NEW k \in 1 .. Parted(s) PROVE k \in Nat /\ k < 17
  BY DEF Parted, BlockSize

\* The blocks of frames with different counters are different.
LEMMA InvGivesOnce == CounterInv => CounterOnce
<1> SUFFICES ASSUME CounterInv PROVE CounterOnce
  OBVIOUS
<1>1. \A f, g \in Data : f.count = g.count => f = g \/ Apart(f, g)
  <2> SUFFICES ASSUME NEW f \in Data, NEW g \in Data, f.count = g.count, f # g
               PROVE  Apart(f, g)
    OBVIOUS
  <2>1. f.turn # g.turn
    BY DEF CounterInv
  <2>2. /\ f.turn \in Nat /\ g.turn \in Nat /\ f.count \in Nat
        /\ Rounds(f.turn, f.count) /\ Rounds(g.turn, f.count)
    BY DEF CounterInv
  <2> QED
    BY <2>1, <2>2, SameValueApart DEF Apart
<1>2. \A f \in Data : f.count \in Nat /\ f.count < 65536 /\ f.size \in 0 .. 255
  BY DownlinkAssumption DEF CounterInv
<1>3. ASSUME NEW f \in Data, NEW g \in Data, NEW k \in 1 .. Parted(f.size),
             NEW l \in 1 .. Parted(g.size), Enciphered(f, k) = Enciphered(g, l)
      PROVE  k = l /\ (f = g \/ Apart(f, g))
  <2>1. k \in Nat /\ k < 17 /\ l \in Nat /\ l < 17
    <3>1. f.size \in 0 .. 255 /\ g.size \in 0 .. 255
      BY <1>2
    <3>2. PICK s \in 0 .. 255 : s = f.size
      BY <3>1
    <3>3. PICK t \in 0 .. 255 : t = g.size
      BY <3>1
    <3>4. k \in 1 .. Parted(s) /\ l \in 1 .. Parted(t)
      BY <3>2, <3>3
    <3> QED
      BY <3>4, FewParts
  <2>2. PartBlock(1, f.device, f.count, k) = PartBlock(1, g.device, g.count, l)
    BY <1>3 DEF Enciphered
  <2>3. f.count = g.count /\ k = l
    BY <1>2, <2>1, <2>2, BlockTells
  <2> QED
    BY <1>1, <2>3
<1>4. ASSUME NEW f \in Data, NEW g \in Data, NEW k \in 1 .. Parted(f.size)
      PROVE  Enciphered(f, k) # CodeBlock(g)
  <2>1. Enciphered(f, k)[1] = 1 /\ CodeBlock(g)[1] = 73
    BY DEF Enciphered, PartBlock, CodeBlock, FrameBlock
  <2> QED
    BY <2>1
<1> QED
  BY <1>1, <1>3, <1>4 DEF CounterOnce

\* However many frames are sent, whatever devices they go to and whatever
\* frames in between found no route, a counter value comes again only after a
\* whole round: within a round no block is enciphered twice, so no two payloads
\* are hidden by the same bytes.
THEOREM CounterReusedAfterRound == Spec => []CounterOnce
<1>1. Init => CounterInv
  <2> SUFFICES ASSUME Init PROVE CounterInv
    OBVIOUS
  <2>1. Rounds(0, 0)
    <3>1. 0 = 0 * Counter + 0
      BY DownlinkAssumption
    <3> QED
      BY <3>1 DEF Rounds
  <2> QED
    BY <2>1, DownlinkAssumption DEF Init, CounterInv, Data
<1>2. CounterInv /\ [Next]_vars => CounterInv'
  <2> SUFFICES ASSUME CounterInv, [Next]_vars PROVE CounterInv'
    OBVIOUS
  <2>1. ASSUME UNCHANGED <<FCntDown, written, turns>> PROVE CounterInv'
    BY <2>1, StillKeepsCounter DEF Data
  <2>2. CASE UNCHANGED vars
    BY <2>1, <2>2 DEF vars
  <2>3. ASSUME NEW d \in Device, NEW s \in Socket \cup {-1}, Reroute(d, s) PROVE CounterInv'
    BY <2>1, <2>3 DEF Reroute
  <2>4. ASSUME NEW d \in Device, NEW size \in AppSize, NEW confirmed \in BOOLEAN,
               SendFrame(d, size, confirmed)
        PROVE  CounterInv'
    <3>1. size \in 0 .. 255
      BY DownlinkAssumption
    <3> QED
      BY <2>4, <3>1, SendKeepsCounter
  <2> QED
    BY <2>2, <2>3, <2>4, JoinKeepsCounter DEF Next
<1>3. CounterInv => CounterOnce
  BY InvGivesOnce
<1> QED
  BY <1>1, <1>2, <1>3, PTL DEF Spec

-----------------------------------------------------------------------------
\* What is encrypted for a device comes back with the same counter and keys,
\* for payloads of any length and any cipher that gives a block of bytes.
THEOREM PayloadComesBack ==
    ASSUME NEW payload \in Seq(Byte), NEW address, NEW count, NEW port,
           NEW nwkSKey, NEW appSKey,
           \A key, b : AES(key, b) \in Block
    PROVE  PayloadReturns(payload, address, count, port, nwkSKey, appSKey)
<1> DEFINE key == IF port = 0 THEN nwkSKey ELSE appSKey
           mask(n) == AES(key, PartBlock(1, address, count, 1 + (n - 1) \div BlockSize))
                         [1 + ((n - 1) % BlockSize)]
           sent == EncryptPayload(payload, 1, address, count, port, nwkSKey, appSKey)
           back == DecryptPayload(sent, 1, address, count, port, nwkSKey, appSKey)
<1>1. ASSUME NEW n \in 1 .. Len(payload) PROVE mask(n) \in Byte
  <2>1. 1 + ((n - 1) % BlockSize) \in 1 .. BlockSize
    BY DEF BlockSize
  <2> QED
    BY <2>1 DEF Block
<1>2. sent = [n \in 1 .. Len(payload) |-> XorByte(payload[n], mask(n))]
  BY DEF EncryptPayload
<1> HIDE DEF mask, key
<1>3. \A n \in 1 .. Len(payload) : sent[n] = XorByte(payload[n], mask(n)) /\ sent[n] \in Byte
  BY <1>1, <1>2, XorAssumption
<1>4. Len(sent) = Len(payload)
  <2>1. Len(payload) \in Nat /\ DOMAIN sent = 1 .. Len(payload)
    BY <1>2
  <2>2. sent \in Seq(Byte)
    BY <1>2, <1>3, <2>1
  <2> QED
    BY <2>1, <2>2
<1> HIDE DEF sent
<1>5. back = [n \in 1 .. Len(sent) |-> XorByte(sent[n], mask(n))]
  BY DEF DecryptPayload, EncryptPayload, mask, key
<1>6. \A n \in 1 .. Len(payload) : XorByte(sent[n], mask(n)) = payload[n]
  BY <1>1, <1>3, XorAssumption
<1>7. back = [n \in 1 .. Len(payload) |-> payload[n]]
  BY <1>4, <1>5, <1>6
<1>8. back = payload
  BY <1>7
<1> QED
  BY <1>8 DEF PayloadReturns, sent

-----------------------------------------------------------------------------
(* The list of gateways: its invariant.                                     *)

\* The nodes that are linked between two steps of the input thread.
InList == Gateways!Open \ (IF glInPc \in {"add", "close"} THEN {glCur} ELSE {})

\* The sockets that are selected on.
Watched == Gateways!Open \ (IF glInPc \in {"add", "watch"} THEN {glCur} ELSE {})

\* The nodes of L are a list that starts at head: links lead on in it, away from
\* head, and each but the first is linked by another.
Linked(L, r) ==
    /\ glHead \in L \cup {None}
    /\ \A c \in L : /\ glNext[c] \in L \cup {None}
                    /\ glNext[c] # None => r[c] < r[glNext[c]]
    /\ \A c \in L : c = glHead \/ \E p \in L : glNext[p] = c

\* The variables have their types, those of the history as well.
VarTypes == Gateways!TypeOK /\ glGot \in [Conns -> Seq(Nat)] /\ glSteady \subseteq Conns

\* Every open connection has a descriptor of its own, which the downstream
\* thread's loop comes to once the input thread has added it.
Sockets ==
    /\ \A c \in Gateways!Open : glFd[c] > server_socket
    /\ \A c, d \in Gateways!Open : glFd[c] = glFd[d] => c = d
    /\ \A c \in Gateways!Open : (glInPc \in {"add", "watch"} /\ c = glCur) \/ glFd[c] <= glFdmax
    /\ glDnPc \in {"find", "write"} => glJ <= glFdmax

\* What the input thread knows of the connection it handles.
Handling ==
    /\ glInPc # "select" => glCur \in Gateways!Open
    /\ glInPc \in {"remove", "close"} => glConn[glCur] \in {"peerClosed", "reset"}
    /\ glReads = {0, server_socket} \cup {glFd[c] : c \in Watched}

\* The list: what was freed is not in it, and what was not yet put in has no link.
List ==
    /\ \E r \in [Conns -> Nat] : Linked(InList, r)
    /\ \A c \in glFreed : glConn[c] = "closed" \/ (glInPc = "close" /\ c = glCur)
    /\ \A c \in Conns : glConn[c] \in {"none", "backlog"} \/ (glInPc = "add" /\ c = glCur)
                            => glNext[c] = None

\* The gateway got the message that is sent.
HasMsg(c) == glGot[c] # << >> /\ glGot[c][Len(glGot[c])] = glMsg

\* A gateway that stays has the message when the loop is past its descriptor,
\* and is still in front of the search that is for its descriptor.
Served ==
    \A c \in glSteady :
        /\ glConn[c] = "open" /\ glFd[c] <= glFdmax /\ c \in InList
        /\ glDnPc = "wait" \/ glFd[c] < glJ => HasMsg(c)
        /\ glDnPc = "find" /\ glFd[c] = glJ => c \in Gateways!ReachedFrom(glAt)

\* Whoever has the message already is behind the loop.
Gets ==
    /\ \A c \in Conns : \A k \in 1 .. Len(glGot[c]) : glGot[c][k] <= glMsg
    /\ \A c \in Conns : glConn[c] \in {"none", "backlog"} => Len(glGot[c]) = 0
    /\ glDnPc # "wait" => \A c \in Gateways!Open : \A k \in 1 .. Len(glGot[c]) :
                            glGot[c][k] = glMsg => glFd[c] < glJ

\* Together; once the program ended only what was done counts.
GatewayInv ==
    /\ VarTypes /\ Gateways!AtMostOnce
    /\ Gateways!Running => Sockets /\ Handling /\ List /\ Served /\ Gets

-----------------------------------------------------------------------------
(* Links.                                                                   *)

\* A set of natural numbers has a least element.
LEMMA Least ==
    ASSUME NEW T \in SUBSET Nat, T # {}
    PROVE  \E m \in T : \A n \in T : m <= n
<1>1. PICK m \in T : \A y \in T : ~ (<<y, m>> \in OpToRel(<, Nat))
  BY NatLessThanWellFounded, WFMin
<1>2. \A y \in T : ~ (y < m)
  BY <1>1 DEF OpToRel
<1> QED
  BY <1>2

\* What is reached from the head is the list.
LEMMA ReachedIsList ==
    ASSUME NEW L \in SUBSET Conns, NEW r \in [Conns -> Nat], Linked(L, r), None \notin Conns
    PROVE  Gateways!Listed = L
<1>1. Gateways!Listed \subseteq L
  BY DEF Gateways!Listed, Gateways!ReachedFrom, Linked
<1>2. ASSUME NEW c \in L, NEW S \in SUBSET Conns, glHead \in S \cup {None},
             \A d \in S : glNext[d] \in S \cup {None}
      PROVE  c \in S
  <2>1. SUFFICES ASSUME c \notin S PROVE FALSE
    OBVIOUS
  <2> DEFINE T == {r[d] : d \in L \ S}
  <2>2. T \in SUBSET Nat /\ T # {}
    BY <1>2, <2>1
  <2>3. PICK m \in T : \A n \in T : m <= n
    BY <2>2, Least
  <2>4. PICK d \in L \ S : m = r[d]
    OBVIOUS
  <2>5. d # glHead
    BY <1>2, <2>4
  <2>6. PICK p \in L : glNext[p] = d
    BY <2>4, <2>5 DEF Linked
  <2>7. r[p] < r[d]
    BY <2>4, <2>6 DEF Linked
  <2>8. p \notin S
    BY <1>2, <2>4, <2>6
  <2>9. r[p] \in T /\ r[p] \in Nat /\ r[d] \in Nat
    BY <2>4, <2>6, <2>8
  <2> QED
    BY <2>3, <2>4, <2>7, <2>9
<1>3. L \subseteq Gateways!Listed
  BY <1>2 DEF Gateways!Listed, Gateways!ReachedFrom
<1> QED
  BY <1>1, <1>3

\* A node in front of a list makes a longer one.
LEMMA PutInFront ==
    ASSUME NEW L \in SUBSET Conns, NEW r \in [Conns -> Nat], Linked(L, r), None \notin Conns,
           NEW c \in Conns \ L, glNext \in [Conns -> Conns \cup {None}],
           glNext' = [glNext EXCEPT ![c] = glHead], glHead' = c
    PROVE  \E s \in [Conns -> Nat] : Linked(L \cup {c}, s)'
<1> DEFINE s == [d \in Conns |-> IF d = c THEN 0 ELSE r[d] + 1]
<1>1. s \in [Conns -> Nat] /\ s[c] = 0 /\ \A d \in L : s[d] = r[d] + 1 /\ r[d] \in Nat
  OBVIOUS
<1>2. glNext'[c] = glHead /\ \A d \in L : glNext'[d] = glNext[d]
  OBVIOUS
<1> HIDE DEF s
<1>3. \A d \in L \cup {c} : glNext'[d] \in L \cup {c} \cup {None}
  BY <1>2 DEF Linked
<1>4. \A d \in L \cup {c} : glNext'[d] # None => s[d] < s[glNext'[d]]
  <2>1. glHead # None => glHead \in L
    BY DEF Linked
  <2>2. glNext'[c] # None => s[c] < s[glNext'[c]]
    BY <1>1, <1>2, <2>1
  <2>3. ASSUME NEW d \in L, glNext'[d] # None PROVE s[d] < s[glNext'[d]]
    <3>1. glNext[d] \in L /\ r[d] < r[glNext[d]]
      BY <1>2, <2>3 DEF Linked
    <3> QED
      BY <1>1, <1>2, <3>1
  <2> QED
    BY <2>2, <2>3
<1>5. \A d \in L \cup {c} : d = glHead' \/ \E p \in L \cup {c} : glNext'[p] = d
  BY <1>2 DEF Linked
<1>6. Linked(L \cup {c}, s)'
  BY <1>3, <1>4, <1>5 DEF Linked
<1> QED
  BY <1>1, <1>6

\* Without one of its nodes, whose predecessor is linked to the next, a list is
\* a list.
LEMMA TakeOut ==
    ASSUME NEW L \in SUBSET Conns, NEW r \in [Conns -> Nat], Linked(L, r), None \notin Conns,
           NEW c \in L,
           glHead' = IF glHead = c THEN glNext[c] ELSE glHead,
           \A d \in L : glNext'[d] = IF glNext[d] = c THEN glNext[c] ELSE glNext[d]
    PROVE  Linked(L \ {c}, r)'
<1>1. glNext[c] # c /\ glNext[c] \in L \cup {None} /\ r[c] \in Nat
  BY DEF Linked
<1>2. glHead' \in (L \ {c}) \cup {None}
  BY <1>1 DEF Linked
<1>3. ASSUME NEW d \in L \ {c}
      PROVE  /\ glNext'[d] \in (L \ {c}) \cup {None}
             /\ glNext'[d] # None => r[d] < r[glNext'[d]]
  <2>1. CASE glNext[d] = c
    <3>1. glNext'[d] = glNext[c] /\ r[d] < r[c] /\ r[d] \in Nat
      BY <2>1 DEF Linked
    <3>2. glNext[c] # None => r[c] < r[glNext[c]] /\ r[glNext[c]] \in Nat
      BY <1>1 DEF Linked
    <3> QED
      BY <1>1, <3>1, <3>2
  <2>2. CASE glNext[d] # c
    <3>1. glNext'[d] = glNext[d]
      BY <2>2
    <3> QED
      BY <2>2, <3>1 DEF Linked
  <2> QED
    BY <2>1, <2>2
<1>4. ASSUME NEW d \in L \ {c}, d # glHead'
      PROVE  \E p \in L \ {c} : glNext'[p] = d
  <2>1. CASE d = glHead
    BY <1>4, <2>1
  <2>2. CASE d # glHead
    <3>1. PICK p \in L : glNext[p] = d
      BY <2>2 DEF Linked
    <3>2. CASE p # c
      BY <3>1, <3>2
    <3>3. CASE p = c
      <4>1. glHead # c
        BY <1>4, <3>1, <3>3
      <4>2. PICK q \in L : glNext[q] = c
        BY <4>1 DEF Linked
      <4>3. q # c /\ glNext'[q] = d
        BY <1>1, <3>1, <3>3, <4>2
      <4> QED
        BY <4>3
    <3> QED
      BY <3>2, <3>3
  <2> QED
    BY <2>1, <2>2
<1> QED
  BY <1>2, <1>3, <1>4 DEF Linked

-----------------------------------------------------------------------------
(* The gateways' steps and the end of the program.                          *)

\* What is reached follows the links only.
LEMMA SameLinks ==
    ASSUME glNext' = glNext
    PROVE  /\ glAt' = glAt => Gateways!ReachedFrom(glAt)' = Gateways!ReachedFrom(glAt)
           /\ glHead' = glHead => Gateways!Listed' = Gateways!Listed
BY DEF Gateways!ReachedFrom, Gateways!Listed

\* At the start there are neither connections nor nodes.
LEMMA GatewaysStart ==
    ASSUME Gateways!GatewayAssumption, Gateways!Init
    PROVE  GatewayInv
<1>1. Gateways!Open = {} /\ InList = {} /\ Watched = {}
  BY DEF Gateways!Init, Gateways!Open, InList, Watched
<1>2. VarTypes
  BY DEF Gateways!Init, Gateways!GatewayAssumption, VarTypes, Gateways!TypeOK
<1>3. Gateways!AtMostOnce
  BY DEF Gateways!Init, Gateways!AtMostOnce
<1>4. Sockets /\ Handling /\ Served
  BY <1>1 DEF Gateways!Init, Gateways!GatewayAssumption, Sockets, Handling, Served
<1>5. List
  <2>1. Linked(InList, [c \in Conns |-> 0])
    BY <1>1 DEF Gateways!Init, Linked
  <2> QED
    BY <2>1 DEF Gateways!Init, List
<1>6. Gets
  BY <1>1 DEF Gateways!Init, Gets, Gateways!GatewayAssumption
<1> QED
  BY <1>2, <1>3, <1>4, <1>5, <1>6 DEF GatewayInv

\* A connection in the backlog is not one of the server yet.
LEMMA ConnectInv ==
    ASSUME Gateways!GatewayAssumption, GatewayInv, Gateways!Connect
    PROVE  GatewayInv'
<1>1. PICK c \in Conns : glConn[c] = "none" /\ glConn' = [glConn EXCEPT ![c] = "backlog"]
  BY DEF Gateways!Connect
<1>2. UNCHANGED <<glFd, Gateways!listVars, Gateways!inVars, Gateways!downVars, glSteady, glEnded>>
  BY DEF Gateways!Connect
<1>3. VarTypes' /\ Gateways!AtMostOnce'
  BY <1>1, <1>2 DEF GatewayInv, VarTypes, Gateways!TypeOK, Gateways!AtMostOnce, Gateways!listVars,
     Gateways!inVars, Gateways!downVars
<1>4. Gateways!Open' = Gateways!Open /\ InList' = InList /\ Watched' = Watched
  BY <1>1, <1>2 DEF Gateways!Open, InList, Watched, Gateways!listVars, Gateways!inVars, GatewayInv,
     VarTypes, Gateways!TypeOK
<1>5. \A d \in Conns : \/ glConn'[d] = glConn[d]
                       \/ d = c /\ glConn'[d] = "backlog" /\ glConn[d] = "none"
  BY <1>1 DEF GatewayInv, VarTypes, Gateways!TypeOK
<1>6. ASSUME Gateways!Running' PROVE Sockets' /\ Handling' /\ List' /\ Served' /\ Gets'
  <2>1. Sockets /\ Handling /\ List /\ Served /\ Gets
    BY <1>2, <1>6 DEF Gateways!Running, GatewayInv
  <2>2. Sockets'
    BY <1>2, <1>4, <2>1 DEF Sockets, Gateways!inVars, Gateways!downVars
  <2>3. Handling'
    BY <1>2, <1>4, <1>5, <2>1 DEF Handling, Gateways!inVars, Gateways!Open
  <2>4. List'
    BY <1>2, <1>4, <1>5, <2>1 DEF List, Linked, Gateways!inVars, Gateways!listVars, GatewayInv,
       VarTypes, Gateways!TypeOK
  <2>5. Served'
    BY <1>2, <1>4, <1>5, <2>1, SameLinks DEF Served, HasMsg, Gateways!inVars, Gateways!listVars,
       Gateways!downVars, GatewayInv, VarTypes
  <2>6. Gets'
    BY <1>2, <1>4, <1>5, <2>1 DEF Gets, Gateways!downVars
  <2> QED
    BY <2>2, <2>3, <2>4, <2>5, <2>6
<1> QED
  BY <1>3, <1>6 DEF GatewayInv

\* A gateway that goes stays open at the server, but does not count as steady.
LEMMA DisconnectInv ==
    ASSUME Gateways!GatewayAssumption, GatewayInv, Gateways!Disconnect
    PROVE  GatewayInv'
<1>1. PICK c \in Conns : /\ glConn[c] = "open" /\ glConn' = [glConn EXCEPT ![c] = "peerClosed"]
                         /\ glSteady' = glSteady \ {c}
  BY DEF Gateways!Disconnect
<1>2. UNCHANGED <<glFd, Gateways!listVars, Gateways!inVars, Gateways!downVars, glEnded>>
  BY DEF Gateways!Disconnect
<1>3. VarTypes' /\ Gateways!AtMostOnce'
  BY <1>1, <1>2 DEF GatewayInv, VarTypes, Gateways!TypeOK, Gateways!AtMostOnce, Gateways!listVars,
     Gateways!inVars, Gateways!downVars
<1>4. Gateways!Open' = Gateways!Open /\ InList' = InList /\ Watched' = Watched
  BY <1>1, <1>2 DEF Gateways!Open, InList, Watched, Gateways!listVars, Gateways!inVars, GatewayInv,
     VarTypes, Gateways!TypeOK
<1>5. \A d \in Conns : \/ glConn'[d] = glConn[d]
                       \/ d = c /\ glConn'[d] = "peerClosed" /\ glConn[d] = "open"
  BY <1>1 DEF GatewayInv, VarTypes, Gateways!TypeOK
<1>6. ASSUME Gateways!Running' PROVE Sockets' /\ Handling' /\ List' /\ Served' /\ Gets'
  <2>1. Sockets /\ Handling /\ List /\ Served /\ Gets
    BY <1>2, <1>6 DEF Gateways!Running, GatewayInv
  <2>2. Sockets'
    BY <1>2, <1>4, <2>1 DEF Sockets, Gateways!inVars, Gateways!downVars
  <2>3. Handling'
    BY <1>2, <1>4, <1>5, <2>1 DEF Handling, Gateways!inVars, Gateways!Open
  <2>4. List'
    BY <1>2, <1>4, <1>5, <2>1 DEF List, Linked, Gateways!inVars, Gateways!listVars, GatewayInv,
       VarTypes, Gateways!TypeOK
  <2>5. Served'
    BY <1>1, <1>2, <1>4, <1>5, <2>1, SameLinks DEF Served, HasMsg, Gateways!inVars,
       Gateways!listVars, Gateways!downVars, GatewayInv, VarTypes
  <2>6. Gets'
    BY <1>2, <1>4, <1>5, <2>1 DEF Gets, Gateways!downVars
  <2> QED
    BY <2>2, <2>3, <2>4, <2>5, <2>6
<1> QED
  BY <1>3, <1>6 DEF GatewayInv

\* The end of the program closes all; of the threads nothing more is said.
LEMMA QuitInv ==
    ASSUME Gateways!GatewayAssumption, GatewayInv, Gateways!Quit
    PROVE  GatewayInv'
<1>1. ~Gateways!Running'
  BY DEF Gateways!Quit, Gateways!Running
<1>2. VarTypes'
  BY DEF Gateways!Quit, GatewayInv, VarTypes, Gateways!TypeOK, Gateways!Listed,
     Gateways!ReachedFrom, Gateways!inVars, Gateways!downVars
<1>3. Gateways!AtMostOnce'
  BY DEF Gateways!Quit, GatewayInv, Gateways!AtMostOnce, Gateways!downVars
<1> QED
  BY <1>1, <1>2, <1>3 DEF GatewayInv

\* A program that ends changes nothing else.
LEMMA EndInv ==
    ASSUME GatewayInv, Gateways!FindFreed \/ Gateways!WriteReset
    PROVE  GatewayInv'
<1>1. ~Gateways!Running'
  BY DEF Gateways!FindFreed, Gateways!WriteReset, Gateways!Running
<1>2. VarTypes' /\ Gateways!AtMostOnce'
  BY DEF Gateways!FindFreed, Gateways!WriteReset, GatewayInv, VarTypes, Gateways!TypeOK,
     Gateways!AtMostOnce, Gateways!connVars, Gateways!listVars, Gateways!inVars, Gateways!downVars
<1> QED
  BY <1>1, <1>2 DEF GatewayInv

-----------------------------------------------------------------------------
(* The input thread's steps.                                                *)

\* accept returns the least of the free descriptors, which is one of them.
LEMMA AcceptedFd ==
    ASSUME Gateways!GatewayAssumption, Gateways!TypeOK, Gateways!FreeFds # {}
    PROVE  Gateways!Min(Gateways!FreeFds) \in Gateways!FreeFds
<1>1. Gateways!FreeFds \in SUBSET Nat
  BY DEF Gateways!FreeFds, Gateways!GatewayAssumption
<1>2. \E m \in Gateways!FreeFds : \A n \in Gateways!FreeFds : m <= n
  BY <1>1, Least
<1> QED
  BY <1>2 DEF Gateways!Min

\* A new connection has got no message, and its descriptor nobody else has.
LEMMA AcceptInv ==
    ASSUME Gateways!GatewayAssumption, GatewayInv, Gateways!Accept
    PROVE  GatewayInv'
<1> DEFINE f == Gateways!Min(Gateways!FreeFds)
<1>1. PICK c \in Conns : /\ glConn[c] = "backlog" /\ glCur' = c
                         /\ glConn' = [glConn EXCEPT ![c] = "open"]
                         /\ glFd' = [glFd EXCEPT ![c] = f]
  BY DEF Gateways!Accept
<1>2. /\ UNCHANGED <<Gateways!listVars, glReads, glFdmax, Gateways!downVars, glSteady, glEnded>>
      /\ Gateways!Running /\ glInPc = "select" /\ glInPc' = "add"
  BY DEF Gateways!Accept
<1>3. Gateways!TypeOK /\ None \notin Conns
  BY DEF GatewayInv, VarTypes, Gateways!GatewayAssumption
<1>4. f \in Gateways!FreeFds
  BY <1>3, AcceptedFd DEF Gateways!Accept
<1>5. /\ f \in 0 .. FdLimit /\ f > server_socket /\ f \notin {glFd[d] : d \in Gateways!Open}
  BY <1>4 DEF Gateways!FreeFds, Gateways!GatewayAssumption
<1> HIDE DEF f
<1>6. VarTypes' /\ Gateways!AtMostOnce'
  BY <1>1, <1>2, <1>3, <1>5 DEF GatewayInv, VarTypes, Gateways!TypeOK, Gateways!AtMostOnce,
     Gateways!listVars, Gateways!downVars
<1>7. /\ \A d \in Conns : d # c => glConn'[d] = glConn[d] /\ glFd'[d] = glFd[d]
      /\ glConn'[c] = "open" /\ glFd'[c] = f
  BY <1>1, <1>3 DEF Gateways!TypeOK
<1>8. c \notin Gateways!Open /\ Gateways!Open' = Gateways!Open \cup {c}
  BY <1>1, <1>7 DEF Gateways!Open
<1>9. InList = Gateways!Open /\ InList' = Gateways!Open /\ Watched = Gateways!Open
      /\ Watched' = Gateways!Open
  BY <1>1, <1>2, <1>8 DEF InList, Watched
<1>10. Sockets /\ Handling /\ List /\ Served /\ Gets
  BY <1>2 DEF GatewayInv
<1>11. \A d \in Gateways!Open : d \in Conns /\ d # c
  BY <1>8 DEF Gateways!Open
<1>12. Sockets'
  BY <1>1, <1>2, <1>5, <1>7, <1>8, <1>10, <1>11 DEF Sockets, Gateways!downVars
<1>13. Handling'
  <2>1. \A d \in Gateways!Open : glFd'[d] = glFd[d]
    BY <1>7, <1>11
  <2> QED
    BY <1>1, <1>2, <1>8, <1>9, <1>10, <2>1 DEF Handling
<1>14. List'
  <2>1. PICK r \in [Conns -> Nat] : Linked(InList, r)
    BY <1>10 DEF List
  <2>2. UNCHANGED <<glHead, glNext, glFreed>>
    BY <1>2 DEF Gateways!listVars
  <2>3. Linked(InList, r)'
    BY <1>9, <2>1, <2>2 DEF Linked
  <2>4. \A d \in glFreed' : glConn'[d] = "closed"
    BY <1>1, <1>2, <1>7, <1>10, <2>2 DEF List
  <2>5. \A d \in Conns : glConn'[d] \in {"none", "backlog"} \/ d = c => glNext'[d] = None
    BY <1>1, <1>7, <1>10, <2>2 DEF List
  <2> QED
    BY <1>1, <1>2, <2>3, <2>4, <2>5 DEF List
<1>15. Served'
  BY <1>1, <1>2, <1>7, <1>9, <1>10, <1>11, SameLinks DEF Served, HasMsg, Gateways!listVars,
     Gateways!downVars
<1>16. Gets'
  <2>1. \A d \in Conns : glConn'[d] \in {"none", "backlog"} => glConn[d] \in {"none", "backlog"}
    BY <1>7
  <2>2. Len(glGot[c]) = 0
    BY <1>1, <1>10 DEF Gets
  <2>3. \A k \in 1 .. Len(glGot[c]) : FALSE
    BY <2>2
  <2>4. UNCHANGED <<glMsg, glDnPc, glJ, glGot>>
    BY <1>2 DEF Gateways!downVars
  <2>5. glDnPc # "wait" => \A d \in Gateways!Open' : \A k \in 1 .. Len(glGot[d]) :
                               glGot[d][k] = glMsg => glFd'[d] < glJ
    BY <1>7, <1>8, <1>10, <1>11, <2>3 DEF Gets
  <2> QED
    BY <1>10, <2>1, <2>4, <2>5 DEF Gets
<1> QED
  BY <1>6, <1>12, <1>13, <1>14, <1>15, <1>16 DEF GatewayInv

\* The open connections have descriptors of their own, so that the new one's
\* node is not found in the list.
LEMMA AddGateWayInv ==
    ASSUME Gateways!GatewayAssumption, GatewayInv, Gateways!AddGateWay
    PROVE  GatewayInv'
<1>1. /\ Gateways!Running /\ glInPc = "add" /\ glInPc' = "watch"
      /\ UNCHANGED <<Gateways!connVars, glFreed, glReads, glFdmax, glCur, Gateways!downVars,
                     glSteady, glEnded>>
  BY DEF Gateways!AddGateWay
<1>2. Sockets /\ Handling /\ List /\ Served /\ Gets /\ Gateways!TypeOK /\ None \notin Conns
  BY <1>1 DEF GatewayInv, VarTypes, Gateways!GatewayAssumption
<1>3. InList = Gateways!Open \ {glCur} /\ InList' = Gateways!Open
      /\ Watched = Gateways!Open \ {glCur} /\ Watched' = Gateways!Open \ {glCur}
      /\ Gateways!Open' = Gateways!Open
  BY <1>1 DEF InList, Watched, Gateways!Open, Gateways!connVars
<1>4. PICK r \in [Conns -> Nat] : Linked(InList, r)
  BY <1>2 DEF List
<1>5. Gateways!Listed = InList
  BY <1>2, <1>3, <1>4, ReachedIsList DEF Gateways!Open
<1>6. glCur \in Gateways!Open /\ glCur \in Conns /\ glNext[glCur] = None
  BY <1>1, <1>2 DEF Handling, List, Gateways!Open
<1>7. ~\E c \in Gateways!Listed : glFd[c] = glFd[glCur]
  BY <1>3, <1>5, <1>6, <1>2 DEF Sockets
<1>8. glNext' = [glNext EXCEPT ![glCur] = glHead] /\ glHead' = glCur
  BY <1>7 DEF Gateways!AddGateWay
<1>9. \A d \in Conns : d # glCur => glNext'[d] = glNext[d]
  BY <1>2, <1>8 DEF Gateways!TypeOK
<1>10. VarTypes' /\ Gateways!AtMostOnce'
  BY <1>1, <1>6, <1>8 DEF GatewayInv, VarTypes, Gateways!TypeOK, Gateways!AtMostOnce,
     Gateways!connVars, Gateways!downVars
<1>11. Sockets'
  BY <1>1, <1>2, <1>3 DEF Sockets, Gateways!connVars, Gateways!downVars
<1>12. Handling'
  BY <1>1, <1>2, <1>3 DEF Handling, Gateways!connVars
<1>13. List'
  <2>1. PICK L \in SUBSET Conns : L = InList
    BY <1>3 DEF Gateways!Open
  <2>2. PICK c \in Conns \ L : c = glCur
    BY <1>3, <1>6, <2>1
  <2>3. \E s \in [Conns -> Nat] : Linked(L \cup {c}, s)'
    BY <1>2, <1>4, <1>8, <2>1, <2>2, PutInFront DEF Gateways!TypeOK
  <2>4. InList' = L \cup {c}
    BY <1>3, <1>6, <2>1, <2>2
  <2>5. \E s \in [Conns -> Nat] : Linked(InList, s)'
    BY <2>3, <2>4 DEF Linked
  <2> QED
    BY <1>1, <1>2, <1>6, <1>9, <2>5 DEF List, Gateways!connVars, Gateways!Open
<1>14. Gateways!ReachedFrom(glAt) \subseteq Gateways!ReachedFrom(glAt)'
  <2>1. ASSUME NEW S \in SUBSET Conns, glAt \in S \cup {None},
               \A d \in S : glNext'[d] \in S \cup {None}
        PROVE  \A d \in S : glNext[d] \in S \cup {None}
    BY <1>6, <1>9, <2>1
  <2> QED
    BY <1>1, <2>1 DEF Gateways!ReachedFrom, Gateways!downVars
<1>15. Served'
  BY <1>1, <1>2, <1>3, <1>6, <1>14 DEF Served, HasMsg, Gateways!connVars, Gateways!downVars
<1>16. Gets'
  BY <1>1, <1>2, <1>3 DEF Gets, Gateways!connVars, Gateways!downVars
<1> QED
  BY <1>10, <1>11, <1>12, <1>13, <1>15, <1>16 DEF GatewayInv

\* The new descriptor is watched, and the loop comes to it.
LEMMA WatchInv ==
    ASSUME Gateways!GatewayAssumption, GatewayInv, Gateways!Watch
    PROVE  GatewayInv'
<1>1. /\ Gateways!Running /\ glInPc = "watch" /\ glInPc' = "select" /\ glCur' = None
      /\ glReads' = glReads \cup {glFd[glCur]} /\ glFdmax' = Gateways!Max({glFdmax, glFd[glCur]})
      /\ UNCHANGED <<Gateways!connVars, Gateways!listVars, Gateways!downVars, glSteady, glEnded>>
  BY DEF Gateways!Watch
<1>2. Sockets /\ Handling /\ List /\ Served /\ Gets /\ Gateways!TypeOK /\ None \notin Conns
  BY <1>1 DEF GatewayInv, VarTypes, Gateways!GatewayAssumption
<1>3. InList = Gateways!Open /\ InList' = Gateways!Open /\ Watched = Gateways!Open \ {glCur}
      /\ Watched' = Gateways!Open /\ Gateways!Open' = Gateways!Open
  BY <1>1 DEF InList, Watched, Gateways!Open, Gateways!connVars
<1>4. /\ glCur \in Gateways!Open /\ glCur \in Conns /\ glFd[glCur] \in 0 .. FdLimit
      /\ glFdmax \in 0 .. FdLimit /\ FdLimit \in Nat
  BY <1>1, <1>2 DEF Handling, Gateways!Open, Gateways!TypeOK, Gateways!GatewayAssumption
<1>5. glFdmax' \in 0 .. FdLimit /\ glFdmax' >= glFdmax /\ glFdmax' >= glFd[glCur]
  <2>1. \E m \in {glFdmax, glFd[glCur]} : \A n \in {glFdmax, glFd[glCur]} : n <= m
    <3>1. CASE glFdmax <= glFd[glCur]
      BY <1>4, <3>1
    <3>2. CASE glFd[glCur] <= glFdmax
      BY <1>4, <3>2
    <3> QED
      BY <1>4, <3>1, <3>2
  <2>2. /\ glFdmax' \in {glFdmax, glFd[glCur]}
        /\ \A n \in {glFdmax, glFd[glCur]} : n <= glFdmax'
    BY <1>1, <2>1 DEF Gateways!Max
  <2> QED
    BY <1>4, <2>2
<1>6. VarTypes' /\ Gateways!AtMostOnce'
  <2>1. glReads' \subseteq 0 .. FdLimit
    BY <1>1, <1>2, <1>4 DEF Gateways!TypeOK
  <2> QED
    BY <1>1, <1>5, <2>1 DEF GatewayInv, VarTypes, Gateways!TypeOK, Gateways!AtMostOnce,
       Gateways!connVars, Gateways!listVars, Gateways!downVars
<1>7. Sockets'
  <2>1. UNCHANGED <<glFd, glDnPc, glJ>>
    BY <1>1 DEF Gateways!connVars, Gateways!downVars
  <2>2. \A c \in Gateways!Open : glFd[c] \in Int
    BY <1>2 DEF Gateways!TypeOK, Gateways!Open
  <2>3. \A c \in Gateways!Open : glFd[c] <= glFdmax'
    BY <1>2, <1>4, <1>5, <2>2 DEF Sockets
  <2>4. glDnPc \in {"find", "write"} => glJ <= glFdmax'
    BY <1>2, <1>4, <1>5 DEF Sockets, Gateways!TypeOK
  <2> QED
    BY <1>2, <1>3, <2>1, <2>3, <2>4 DEF Sockets
<1>8. Handling'
  <2>1. glReads' = {0, server_socket} \cup {glFd[c] : c \in Watched'}
    BY <1>1, <1>2, <1>3, <1>4 DEF Handling
  <2> QED
    BY <1>1, <2>1 DEF Handling, Gateways!connVars
<1>9. List'
  BY <1>1, <1>2, <1>3 DEF List, Linked, Gateways!connVars, Gateways!listVars
<1>10. Served'
  <2>1. \A c \in glSteady : glFd[c] \in Int /\ glFd[c] <= glFdmax
    BY <1>2, <1>3 DEF Served, Gateways!TypeOK, Gateways!Open
  <2>2. \A c \in glSteady : glFd[c] <= glFdmax'
    BY <1>4, <1>5, <2>1
  <2> QED
    BY <1>1, <1>2, <1>3, <2>2, SameLinks DEF Served, HasMsg, Gateways!connVars, Gateways!listVars,
       Gateways!downVars
<1>11. Gets'
  BY <1>1, <1>2, <1>3 DEF Gets, Gateways!connVars, Gateways!downVars
<1> QED
  BY <1>6, <1>7, <1>8, <1>9, <1>10, <1>11 DEF GatewayInv

\* A socket that ends is one of the list: its node will be taken out.
LEMMA ReadEndInv ==
    ASSUME Gateways!GatewayAssumption, GatewayInv, Gateways!ReadEnd
    PROVE  GatewayInv'
<1>1. /\ Gateways!Running /\ glInPc = "select" /\ glInPc' = "remove"
      /\ UNCHANGED <<Gateways!connVars, Gateways!listVars, glReads, glFdmax, Gateways!downVars,
                     glSteady, glEnded>>
  BY DEF Gateways!ReadEnd
<1>2. PICK c \in Gateways!Listed : glConn[c] \in {"peerClosed", "reset"} /\ glCur' = c
  BY DEF Gateways!ReadEnd
<1>3. c \in Conns /\ c \in Gateways!Open
  BY <1>2 DEF Gateways!Listed, Gateways!ReachedFrom, Gateways!Open
<1>4. Sockets /\ Handling /\ List /\ Served /\ Gets /\ None \notin Conns
  BY <1>1 DEF GatewayInv, Gateways!GatewayAssumption
<1>5. InList = Gateways!Open /\ InList' = Gateways!Open /\ Watched = Gateways!Open
      /\ Watched' = Gateways!Open /\ Gateways!Open' = Gateways!Open
  BY <1>1 DEF InList, Watched, Gateways!Open, Gateways!connVars
<1>6. VarTypes' /\ Gateways!AtMostOnce'
  BY <1>1, <1>2, <1>3, <1>4 DEF GatewayInv, VarTypes, Gateways!TypeOK, Gateways!AtMostOnce,
     Gateways!connVars, Gateways!listVars, Gateways!downVars
<1>7. Sockets'
  BY <1>1, <1>4, <1>5 DEF Sockets, Gateways!connVars, Gateways!downVars
<1>8. Handling'
  BY <1>1, <1>2, <1>3, <1>4, <1>5 DEF Handling, Gateways!connVars
<1>9. List'
  BY <1>1, <1>4, <1>5 DEF List, Linked, Gateways!connVars, Gateways!listVars
<1>10. Served'
  BY <1>1, <1>4, <1>5, SameLinks DEF Served, HasMsg, Gateways!connVars, Gateways!listVars,
     Gateways!downVars
<1>11. Gets'
  BY <1>1, <1>4, <1>5 DEF Gets, Gateways!connVars, Gateways!downVars
<1> QED
  BY <1>6, <1>7, <1>8, <1>9, <1>10, <1>11 DEF GatewayInv

\* The walk of the other thread is not cut off from a gateway that stays: it may
\* still go through the node that is taken out.
LEMMA RemoveGateWayInv ==
    ASSUME Gateways!GatewayAssumption, GatewayInv, Gateways!RemoveGateWay
    PROVE  GatewayInv'
<1>1. /\ Gateways!Running /\ glInPc = "remove" /\ glInPc' = "close"
      /\ glFreed' = glFreed \cup {glCur}
      /\ glHead' = IF glHead = glCur THEN glNext[glCur] ELSE glHead
      /\ glNext' = [c \in Conns |-> IF c \in Gateways!Listed /\ glNext[c] = glCur
                                    THEN glNext[glCur] ELSE glNext[c]]
      /\ UNCHANGED <<Gateways!connVars, glReads, glFdmax, glCur, Gateways!downVars, glSteady,
                     glEnded>>
  BY DEF Gateways!RemoveGateWay
<1>2. Sockets /\ Handling /\ List /\ Served /\ Gets /\ Gateways!TypeOK /\ None \notin Conns
  BY <1>1 DEF GatewayInv, VarTypes, Gateways!GatewayAssumption
<1>3. InList = Gateways!Open /\ InList' = Gateways!Open \ {glCur} /\ Watched = Gateways!Open
      /\ Watched' = Gateways!Open /\ Gateways!Open' = Gateways!Open
  BY <1>1 DEF InList, Watched, Gateways!Open, Gateways!connVars
<1>4. PICK r \in [Conns -> Nat] : Linked(InList, r)
  BY <1>2 DEF List
<1>5. Gateways!Listed = Gateways!Open
  BY <1>2, <1>3, <1>4, ReachedIsList DEF Gateways!Open
<1>6. /\ glCur \in Gateways!Open /\ glCur \in Conns /\ glConn[glCur] \in {"peerClosed", "reset"}
      /\ glNext[glCur] \in Conns \cup {None}
  BY <1>1, <1>2 DEF Handling, Gateways!Open, Gateways!TypeOK
<1>7. \A d \in Conns : glNext'[d] = glNext[d] \/ (glNext[d] = glCur /\ glNext'[d] = glNext[glCur])
  BY <1>1
<1>8. VarTypes' /\ Gateways!AtMostOnce'
  BY <1>1, <1>6 DEF GatewayInv, VarTypes, Gateways!TypeOK, Gateways!AtMostOnce, Gateways!connVars,
     Gateways!downVars
<1>9. Sockets'
  BY <1>1, <1>2, <1>3 DEF Sockets, Gateways!connVars, Gateways!downVars
<1>10. Handling'
  BY <1>1, <1>2, <1>3 DEF Handling, Gateways!connVars
<1>11. List'
  <2>1. \A d \in InList : glNext'[d] = IF glNext[d] = glCur THEN glNext[glCur] ELSE glNext[d]
    BY <1>1, <1>3, <1>5 DEF Gateways!Open
  <2>2. Linked(InList \ {glCur}, r)'
    BY <1>1, <1>2, <1>3, <1>4, <1>6, <2>1, TakeOut DEF Gateways!Open
  <2>3. InList' = InList \ {glCur} /\ (InList \ {glCur})' = InList'
    BY <1>1, <1>3
  <2>4. Linked(InList, r)'
    BY <2>2, <2>3 DEF Linked
  <2>5. \A c \in Conns : glConn'[c] \in {"none", "backlog"} => glNext'[c] = None
    BY <1>1, <1>2, <1>6, <1>7 DEF List, Gateways!connVars
  <2>6. \A c \in glFreed' : glConn'[c] = "closed" \/ c = glCur'
    BY <1>1, <1>2 DEF List, Gateways!connVars
  <2> QED
    BY <1>1, <2>4, <2>5, <2>6 DEF List
<1>12. ASSUME NEW c \in Gateways!ReachedFrom(glAt), c # glCur
       PROVE  c \in Gateways!ReachedFrom(glAt)'
  <2>1. ASSUME NEW S \in SUBSET Conns, glAt \in S \cup {None},
               \A d \in S : glNext'[d] \in S \cup {None}
        PROVE  c \in S
    <3>1. CASE glCur \in S
      <4>1. \A d \in S : glNext[d] \in S \cup {None}
        BY <1>7, <2>1, <3>1
      <4> QED
        BY <1>12, <2>1, <4>1 DEF Gateways!ReachedFrom
    <3>2. CASE glCur \notin S /\ \E d \in S : glNext[d] = glCur
      <4> DEFINE T == S \cup {glCur}
      <4>1. glNext[glCur] \in S \cup {None}
        <5>1. PICK d \in S : glNext[d] = glCur
          BY <3>2
        <5>2. glNext'[d] = glNext[glCur]
          BY <1>2, <1>6, <1>7, <2>1, <3>2, <5>1
        <5> QED
          BY <2>1, <5>2
      <4>2. T \in SUBSET Conns /\ glAt \in T \cup {None} /\ \A d \in T : glNext[d] \in T \cup {None}
        BY <1>6, <1>7, <2>1, <4>1
      <4>3. c \in T
        BY <1>12, <4>2 DEF Gateways!ReachedFrom
      <4> QED
        BY <1>12, <4>3
    <3>3. CASE glCur \notin S /\ ~\E d \in S : glNext[d] = glCur
      <4>1. \A d \in S : glNext[d] \in S \cup {None}
        BY <1>7, <2>1, <3>3
      <4> QED
        BY <1>12, <2>1, <4>1 DEF Gateways!ReachedFrom
    <3> QED
      BY <3>1, <3>2, <3>3
  <2> QED
    BY <1>1, <2>1 DEF Gateways!ReachedFrom, Gateways!downVars
<1>13. Served'
  <2>1. \A c \in glSteady : c # glCur
    BY <1>2, <1>6 DEF Served
  <2> QED
    BY <1>1, <1>2, <1>3, <1>12, <2>1 DEF Served, HasMsg, Gateways!connVars, Gateways!downVars
<1>14. Gets'
  BY <1>1, <1>2, <1>3 DEF Gets, Gateways!connVars, Gateways!downVars
<1> QED
  BY <1>8, <1>9, <1>10, <1>11, <1>13, <1>14 DEF GatewayInv

\* The node was taken out before its socket is closed; fdmax may stay too large.
LEMMA CloseInv ==
    ASSUME Gateways!GatewayAssumption, GatewayInv, Gateways!Close
    PROVE  GatewayInv'
<1>1. /\ Gateways!Running /\ glInPc = "close" /\ glInPc' = "select" /\ glCur' = None
      /\ glReads' = glReads \ {glFd[glCur]} /\ glConn' = [glConn EXCEPT ![glCur] = "closed"]
      /\ UNCHANGED <<glFd, Gateways!listVars, glFdmax, Gateways!downVars, glSteady, glEnded>>
  BY DEF Gateways!Close
<1>2. Sockets /\ Handling /\ List /\ Served /\ Gets /\ Gateways!TypeOK /\ None \notin Conns
  BY <1>1 DEF GatewayInv, VarTypes, Gateways!GatewayAssumption
<1>3. glCur \in Gateways!Open /\ glCur \in Conns /\ glConn[glCur] \in {"peerClosed", "reset"}
  BY <1>1, <1>2 DEF Handling, Gateways!Open
<1>4. \A d \in Conns : glConn'[d] = IF d = glCur THEN "closed" ELSE glConn[d]
  BY <1>1, <1>2 DEF Gateways!TypeOK
<1>5. Gateways!Open' = Gateways!Open \ {glCur}
  BY <1>4 DEF Gateways!Open
<1>6. InList = Gateways!Open \ {glCur} /\ InList' = Gateways!Open \ {glCur}
      /\ Watched = Gateways!Open /\ Watched' = Gateways!Open \ {glCur}
  BY <1>1, <1>5 DEF InList, Watched
<1>7. VarTypes' /\ Gateways!AtMostOnce'
  BY <1>1, <1>2 DEF GatewayInv, VarTypes, Gateways!TypeOK, Gateways!AtMostOnce, Gateways!listVars,
     Gateways!downVars
<1>8. Sockets'
  BY <1>1, <1>2, <1>5 DEF Sockets, Gateways!downVars
<1>9. Handling'
  <2>1. /\ glFd[glCur] \notin {0, server_socket}
        /\ \A c \in Gateways!Open \ {glCur} : glFd[c] # glFd[glCur]
    BY <1>2, <1>3 DEF Sockets, Gateways!GatewayAssumption, Gateways!TypeOK
  <2>2. glReads' = {0, server_socket} \cup {glFd[c] : c \in Gateways!Open \ {glCur}}
    BY <1>1, <1>2, <1>6, <2>1 DEF Handling
  <2> QED
    BY <1>1, <1>6, <2>2 DEF Handling
<1>10. List'
  <2>1. UNCHANGED <<glHead, glNext, glFreed>>
    BY <1>1 DEF Gateways!listVars
  <2>2. \E r \in [Conns -> Nat] : Linked(InList, r)'
    BY <1>2, <1>6, <2>1 DEF List, Linked
  <2>3. \A d \in glFreed' : glConn'[d] = "closed"
    BY <1>1, <1>2, <1>4, <2>1 DEF List, Gateways!TypeOK
  <2>4. \A d \in Conns : glConn'[d] \in {"none", "backlog"} => glNext'[d] = None
    BY <1>1, <1>2, <1>4, <2>1 DEF List
  <2> QED
    BY <1>1, <2>2, <2>3, <2>4 DEF List
<1>11. Served'
  <2>1. \A c \in glSteady : c # glCur /\ c \in Conns
    BY <1>2, <1>3 DEF Served, InList, Gateways!Open
  <2> QED
    BY <1>1, <1>2, <1>4, <1>6, <2>1, SameLinks DEF Served, HasMsg, Gateways!listVars,
       Gateways!downVars
<1>12. Gets'
  BY <1>1, <1>2, <1>4, <1>5 DEF Gets, Gateways!downVars
<1> QED
  BY <1>7, <1>8, <1>9, <1>10, <1>11, <1>12 DEF GatewayInv

-----------------------------------------------------------------------------
(* The downstream thread's steps.                                           *)

\* The list that is read is what the invariant says it is.
LEMMA ListedNow ==
    ASSUME Gateways!GatewayAssumption, GatewayInv, Gateways!Running
    PROVE  Gateways!Listed = InList
<1>1. PICK r \in [Conns -> Nat] : Linked(InList, r)
  BY DEF GatewayInv, List
<1>2. InList \in SUBSET Conns /\ None \notin Conns
  BY DEF InList, Gateways!Open, Gateways!GatewayAssumption
<1> QED
  BY <1>1, <1>2, ReachedIsList

\* What a step of the downstream thread leaves alone.
LEMMA DownKeeps ==
    ASSUME GatewayInv, Gateways!Running,
           UNCHANGED <<Gateways!connVars, Gateways!listVars, Gateways!inVars, glEnded>>
    PROVE  /\ Handling' /\ List' /\ InList' = InList /\ Gateways!Open' = Gateways!Open
           /\ Sockets /\ Served /\ Gets /\ Gateways!TypeOK
<1>1. Sockets /\ Handling /\ List /\ Served /\ Gets /\ Gateways!TypeOK
  BY DEF GatewayInv, VarTypes
<1>2. InList' = InList /\ Gateways!Open' = Gateways!Open /\ Watched' = Watched
  BY DEF InList, Watched, Gateways!Open, Gateways!connVars, Gateways!inVars
<1>3. Handling'
  BY <1>1, <1>2 DEF Handling, Gateways!connVars, Gateways!inVars
<1>4. List'
  BY <1>1, <1>2 DEF List, Linked, Gateways!connVars, Gateways!listVars, Gateways!inVars
<1> QED
  BY <1>1, <1>2, <1>3, <1>4

\* A new message: nobody has it, and the loop is in front of every descriptor.
LEMMA TakeMsgInv ==
    ASSUME Gateways!GatewayAssumption, GatewayInv, Gateways!TakeMsg
    PROVE  GatewayInv'
<1>1. /\ Gateways!Running /\ glDnPc = "wait" /\ glMsg < MaxMsgs
      /\ glMsg' = glMsg + 1 /\ glJ' = 0 /\ glDnPc' = "loop"
      /\ glSteady' = {c \in Gateways!Listed : glConn[c] = "open" /\ glFd[c] <= glFdmax}
      /\ UNCHANGED <<Gateways!connVars, Gateways!listVars, Gateways!inVars, glAt, glGot, glEnded>>
  BY DEF Gateways!TakeMsg
<1>2. /\ Handling' /\ List' /\ InList' = InList /\ Gateways!Open' = Gateways!Open
      /\ Sockets /\ Served /\ Gets /\ Gateways!TypeOK
  BY <1>1, DownKeeps
<1>3. Gateways!Listed = InList /\ InList \subseteq Conns
  BY <1>1, ListedNow DEF InList, Gateways!Open
<1>4. UNCHANGED <<glConn, glFd, glFdmax, glInPc, glCur>>
  BY <1>1 DEF Gateways!connVars, Gateways!inVars
<1>5. VarTypes' /\ Gateways!AtMostOnce'
  <2>1. glMsg' \in 0 .. MaxMsgs /\ 0 \in 0 .. FdLimit + 1
    BY <1>1, <1>2 DEF Gateways!TypeOK, Gateways!GatewayAssumption
  <2>2. glSteady' \subseteq Conns
    BY <1>1, <1>3
  <2> QED
    BY <1>1, <2>1, <2>2 DEF GatewayInv, VarTypes, Gateways!TypeOK, Gateways!AtMostOnce,
       Gateways!connVars, Gateways!listVars, Gateways!inVars
<1>6. Sockets'
  BY <1>1, <1>2, <1>4 DEF Sockets
<1>7. Served'
  <2>1. \A c \in Conns : ~(glFd[c] < 0)
    BY <1>2 DEF Gateways!TypeOK
  <2> QED
    BY <1>1, <1>2, <1>3, <1>4, <2>1 DEF Served
<1>8. Gets'
  <2>1. \A c \in Conns : \A k \in 1 .. Len(glGot[c]) : glGot[c][k] \in Nat /\ glGot[c][k] <= glMsg
    BY <1>2 DEF Gets, GatewayInv, VarTypes
  <2>2. glMsg \in Nat
    BY <1>2 DEF Gateways!TypeOK, Gateways!GatewayAssumption
  <2>3. \A c \in Conns : \A k \in 1 .. Len(glGot[c]) :
            glGot[c][k] <= glMsg + 1 /\ glGot[c][k] # glMsg + 1
    BY <2>1, <2>2
  <2>4. Gateways!Open \subseteq Conns
    BY DEF Gateways!Open
  <2> QED
    BY <1>1, <1>2, <1>4, <2>3, <2>4 DEF Gets
<1> QED
  BY <1>2, <1>5, <1>6, <1>7, <1>8 DEF GatewayInv

\* The loop is over when it is past every descriptor.
LEMMA LoopInv ==
    ASSUME Gateways!GatewayAssumption, GatewayInv, Gateways!Loop
    PROVE  GatewayInv'
<1>1. /\ Gateways!Running /\ glDnPc = "loop"
      /\ UNCHANGED <<Gateways!connVars, Gateways!listVars, Gateways!inVars, glMsg, glJ, glGot,
                     glSteady, glEnded>>
  BY DEF Gateways!Loop
<1>2. /\ Handling' /\ List' /\ InList' = InList /\ Gateways!Open' = Gateways!Open
      /\ Sockets /\ Served /\ Gets /\ Gateways!TypeOK
  BY <1>1, DownKeeps
<1>3. Gateways!Listed = InList /\ InList \subseteq Conns
  BY <1>1, ListedNow DEF InList, Gateways!Open
<1>4. UNCHANGED <<glConn, glFd, glFdmax, glInPc, glCur, glHead, glNext>>
  BY <1>1 DEF Gateways!connVars, Gateways!inVars, Gateways!listVars
<1>5. glJ \in Int /\ glFdmax \in Int /\ \A c \in Conns : glFd[c] \in Int
  BY <1>2 DEF Gateways!TypeOK
<1>6. \/ glJ <= glFdmax /\ glDnPc' = "find" /\ glAt' = glHead
      \/ glJ > glFdmax /\ glDnPc' = "wait" /\ glAt' = glAt
  BY <1>5 DEF Gateways!Loop
<1>7. VarTypes' /\ Gateways!AtMostOnce'
  BY <1>1, <1>6 DEF GatewayInv, VarTypes, Gateways!TypeOK, Gateways!AtMostOnce, Gateways!connVars,
     Gateways!listVars, Gateways!inVars
<1>8. Sockets'
  BY <1>1, <1>2, <1>4, <1>6 DEF Sockets
<1>9. Served'
  <2>1. \A c \in glSteady : c \in Conns /\ glConn[c] = "open" /\ glFd[c] <= glFdmax /\ c \in InList
                          /\ (glFd[c] < glJ => HasMsg(c))
    BY <1>2, <1>3 DEF Served
  <2>2. CASE glDnPc' = "find"
    <3>1. Gateways!ReachedFrom(glAt)' = Gateways!Listed
      BY <1>4, <1>6, <2>2 DEF Gateways!ReachedFrom, Gateways!Listed
    <3> QED
      BY <1>1, <1>2, <1>3, <1>4, <2>1, <2>2, <3>1 DEF Served, HasMsg
  <2>3. CASE glDnPc' = "wait"
    <3>1. \A c \in glSteady : glFd[c] < glJ
      BY <1>5, <1>6, <2>1, <2>3
    <3> QED
      BY <1>1, <1>2, <1>4, <2>1, <2>3, <3>1 DEF Served, HasMsg
  <2> QED
    BY <1>6, <2>2, <2>3
<1>10. Gets'
  BY <1>1, <1>2, <1>4 DEF Gets
<1> QED
  BY <1>2, <1>7, <1>8, <1>9, <1>10 DEF GatewayInv

\* A search that is at the end of the list has not passed over a gateway that
\* stays, for none can be reached from there.
LEMMA FindInv ==
    ASSUME Gateways!GatewayAssumption, GatewayInv, Gateways!Find
    PROVE  GatewayInv'
<1>1. /\ Gateways!Running /\ glDnPc = "find"
      /\ UNCHANGED <<Gateways!connVars, Gateways!listVars, Gateways!inVars, glMsg, glGot, glSteady,
                     glEnded>>
  BY DEF Gateways!Find
<1>2. /\ Handling' /\ List' /\ InList' = InList /\ Gateways!Open' = Gateways!Open
      /\ Sockets /\ Served /\ Gets /\ Gateways!TypeOK
  BY <1>1, DownKeeps
<1>3. UNCHANGED <<glConn, glFd, glFdmax, glInPc, glCur, glHead, glNext>>
  BY <1>1 DEF Gateways!connVars, Gateways!inVars, Gateways!listVars
<1>4. /\ glJ \in Int /\ glFdmax \in Int /\ \A c \in Conns : glFd[c] \in Int
      /\ InList \subseteq Conns /\ Gateways!Open \subseteq Conns /\ None \notin Conns
      /\ \A c \in Conns : glNext[c] \in Conns \cup {None}
  BY <1>2 DEF Gateways!TypeOK, InList, Gateways!Open, Gateways!GatewayAssumption
<1>5. /\ glAt \in Conns \cup {None} /\ glJ <= glFdmax
      /\ glJ + 1 \in 0 .. FdLimit + 1 /\ glJ \in 0 .. FdLimit + 1
  BY <1>1, <1>2 DEF Sockets, Gateways!TypeOK, Gateways!GatewayAssumption
<1>6. \/ glAt = None /\ glJ' = glJ + 1 /\ glDnPc' = "loop" /\ glAt' = glAt
      \/ glAt # None /\ glFd[glAt] = glJ /\ glDnPc' = "write" /\ glJ' = glJ /\ glAt' = glAt
      \/ glAt # None /\ glFd[glAt] # glJ /\ glDnPc' = "find" /\ glJ' = glJ /\ glAt' = glNext[glAt]
  BY <1>1 DEF Gateways!Find
<1>7. VarTypes' /\ Gateways!AtMostOnce'
  <2>1. /\ glJ' \in 0 .. FdLimit + 1 /\ glAt' \in Conns \cup {None}
        /\ glDnPc' \in {"loop", "find", "write"}
    BY <1>4, <1>5, <1>6
  <2> QED
    BY <1>1, <2>1 DEF GatewayInv, VarTypes, Gateways!TypeOK, Gateways!AtMostOnce,
       Gateways!connVars, Gateways!listVars, Gateways!inVars
<1>8. Sockets'
  BY <1>2, <1>3, <1>5, <1>6 DEF Sockets
<1>9. Served'
  <2>1. \A c \in glSteady :
           /\ c \in Conns /\ glConn[c] = "open" /\ glFd[c] <= glFdmax /\ c \in InList
           /\ glFd[c] < glJ => HasMsg(c)
           /\ glFd[c] = glJ => c \in Gateways!ReachedFrom(glAt)
    BY <1>1, <1>2, <1>4 DEF Served
  <2>2. CASE glAt = None
    <3>1. \A c \in glSteady : c \notin Gateways!ReachedFrom(glAt)
      <4>1. /\ {} \in SUBSET Conns /\ glAt \in {} \cup {None}
            /\ \A d \in {} : glNext[d] \in {} \cup {None}
        BY <2>2
      <4> QED
        BY <4>1 DEF Gateways!ReachedFrom
    <3>2. \A c \in glSteady : glFd[c] < glJ + 1 => glFd[c] < glJ
      BY <1>4, <2>1, <3>1
    <3> QED
      BY <1>1, <1>2, <1>3, <1>6, <2>1, <2>2, <3>2 DEF Served, HasMsg
  <2>3. CASE glAt # None /\ glFd[glAt] = glJ
    BY <1>1, <1>2, <1>3, <1>6, <2>1, <2>3 DEF Served, HasMsg
  <2>4. CASE glAt # None /\ glFd[glAt] # glJ
    <3>1. ASSUME NEW c \in Gateways!ReachedFrom(glAt), c # glAt
          PROVE  c \in Gateways!ReachedFrom(glAt)'
      <4>1. ASSUME NEW S \in SUBSET Conns, glNext[glAt] \in S \cup {None},
                   \A d \in S : glNext[d] \in S \cup {None}
            PROVE  c \in S
        <5> DEFINE T == S \cup {glAt}
        <5>1. /\ T \in SUBSET Conns /\ glAt \in T \cup {None}
              /\ \A d \in T : glNext[d] \in T \cup {None}
          BY <1>5, <2>4, <4>1
        <5>2. c \in T
          BY <3>1, <5>1 DEF Gateways!ReachedFrom
        <5> QED
          BY <3>1, <5>2
      <4>2. glAt' = glNext[glAt] /\ glNext' = glNext
        BY <1>3, <1>6, <2>4
      <4> QED
        BY <4>1, <4>2 DEF Gateways!ReachedFrom
    <3>2. \A c \in glSteady : glFd[c] = glJ => c \in Gateways!ReachedFrom(glAt)'
      BY <2>1, <2>4, <3>1
    <3> QED
      BY <1>1, <1>2, <1>3, <1>6, <2>1, <2>4, <3>2 DEF Served, HasMsg
  <2> QED
    BY <2>2, <2>3, <2>4
<1>10. Gets'
  <2>1. glJ' = glJ \/ glJ' = glJ + 1
    BY <1>6
  <2>2. \A c \in Gateways!Open : glFd[c] < glJ => glFd[c] < glJ'
    BY <1>4, <2>1
  <2> QED
    BY <1>1, <1>2, <1>3, <2>2 DEF Gets
<1> QED
  BY <1>2, <1>7, <1>8, <1>9, <1>10 DEF GatewayInv

\* A sequence with one more element.
LEMMA OneMore ==
    ASSUME NEW s \in Seq(Nat), NEW m \in Nat
    PROVE  /\ Append(s, m) \in Seq(Nat) /\ Append(s, m) # << >>
           /\ Append(s, m)[Len(Append(s, m))] = m
           /\ \A k \in 1 .. Len(Append(s, m)) : \/ k \in 1 .. Len(s) /\ Append(s, m)[k] = s[k]
                                                \/ k = Len(s) + 1 /\ Append(s, m)[k] = m
           /\ Len(s) \in Nat /\ \A k \in 1 .. Len(s) : s[k] \in Nat
OBVIOUS

\* What is written reaches the one open connection with the descriptor, which the
\* loop then is behind.
LEMMA WriteInv ==
    ASSUME Gateways!GatewayAssumption, GatewayInv, Gateways!Write
    PROVE  GatewayInv'
<1> DEFINE Told(c) == c \in Gateways!OnFd(glJ) /\ glConn[c] = "open"
<1>1. /\ Gateways!Running /\ glDnPc = "write" /\ glJ' = glJ + 1 /\ glDnPc' = "loop"
      /\ UNCHANGED <<glFd, Gateways!listVars, Gateways!inVars, glMsg, glAt, glSteady, glEnded>>
      /\ glGot' = [c \in Conns |-> IF Told(c) THEN Append(glGot[c], glMsg) ELSE glGot[c]]
      /\ glConn' = [c \in Conns |-> IF c \in Gateways!OnFd(glJ) /\ glConn[c] = "peerClosed"
                                  THEN "reset" ELSE glConn[c]]
  BY DEF Gateways!Write
<1>2. /\ Sockets /\ Handling /\ List /\ Served /\ Gets
      /\ Gateways!TypeOK /\ glGot \in [Conns -> Seq(Nat)]
  BY <1>1 DEF GatewayInv, VarTypes
<1>3. /\ glJ \in Int /\ glFdmax \in Int /\ \A c \in Conns : glFd[c] \in Int
      /\ InList \subseteq Conns /\ Gateways!Open \subseteq Conns
      /\ glJ <= glFdmax /\ glJ + 1 \in 0 .. FdLimit + 1 /\ glMsg \in Nat
  BY <1>1, <1>2 DEF Gateways!TypeOK, InList, Gateways!Open, Gateways!GatewayAssumption, Sockets
<1>4. /\ \A c \in Conns : \/ glConn'[c] = glConn[c]
                          \/ glConn[c] = "peerClosed" /\ glConn'[c] = "reset"
      /\ \A c \in Conns : glGot'[c] = IF Told(c) THEN Append(glGot[c], glMsg) ELSE glGot[c]
      /\ \A c \in Conns : Told(c) => glConn[c] = "open" /\ glFd[c] = glJ /\ c \in Gateways!Open
      /\ \A c \in Conns : glConn[c] = "open" /\ glFd[c] = glJ => Told(c)
  BY <1>1 DEF Gateways!OnFd, Gateways!Open
<1>5. UNCHANGED <<glHead, glNext, glFreed, glReads, glFdmax, glInPc, glCur>>
  BY <1>1 DEF Gateways!listVars, Gateways!inVars
<1>6. Gateways!Open' = Gateways!Open /\ InList' = InList /\ Watched' = Watched
  <2>1. Gateways!Open' = Gateways!Open
    BY <1>4 DEF Gateways!Open
  <2> QED
    BY <1>5, <2>1 DEF InList, Watched
<1> HIDE DEF Told
<1>7. \A c \in Conns : \A k \in 1 .. Len(glGot[c]) : glGot[c][k] \in Nat /\ glGot[c][k] <= glMsg
  BY <1>2, OneMore DEF Gets
<1>8. ASSUME NEW c \in Conns, NEW k \in 1 .. Len(glGot'[c])
      PROVE  \/ k \in 1 .. Len(glGot[c]) /\ glGot'[c][k] = glGot[c][k]
             \/ Told(c) /\ k = Len(glGot[c]) + 1 /\ glGot'[c][k] = glMsg
  <2>1. CASE Told(c)
    <3>1. glGot'[c] = Append(glGot[c], glMsg) /\ glGot[c] \in Seq(Nat)
      BY <1>2, <1>4, <2>1
    <3>2. \A q \in 1 .. Len(Append(glGot[c], glMsg)) :
             \/ q \in 1 .. Len(glGot[c]) /\ Append(glGot[c], glMsg)[q] = glGot[c][q]
             \/ q = Len(glGot[c]) + 1 /\ Append(glGot[c], glMsg)[q] = glMsg
      BY <1>3, <3>1, OneMore
    <3>3. k \in 1 .. Len(Append(glGot[c], glMsg))
      BY <1>8, <3>1
    <3> QED
      BY <2>1, <3>1, <3>2, <3>3, Zenon
  <2>2. CASE ~Told(c)
    BY <1>4, <2>2
  <2> QED
    BY <2>1, <2>2
<1>9. glGot' \in [Conns -> Seq(Nat)]
  <2>1. ASSUME NEW c \in Conns PROVE glGot'[c] \in Seq(Nat)
    <3>1. glGot[c] \in Seq(Nat)
      BY <1>2
    <3>2. Append(glGot[c], glMsg) \in Seq(Nat)
      BY <1>3, <3>1, OneMore
    <3> QED
      BY <1>4, <3>1, <3>2
  <2> QED
    BY <1>1, <2>1
<1>10. VarTypes'
  BY <1>1, <1>2, <1>3, <1>9 DEF GatewayInv, VarTypes, Gateways!TypeOK, Gateways!listVars,
     Gateways!inVars
<1>11. Gateways!AtMostOnce'
  <2> SUFFICES ASSUME NEW c \in Conns, NEW m \in 1 .. Len(glGot'[c]),
                      NEW n \in 1 .. Len(glGot'[c]), m < n
               PROVE  glGot'[c][m] < glGot'[c][n]
    BY DEF Gateways!AtMostOnce
  <2>1. \A k \in 1 .. Len(glGot[c]) :
            /\ glGot[c][k] \in Nat /\ glGot[c][k] <= glMsg
            /\ glGot[c][k] = glMsg => ~Told(c)
    <3>1. \A k \in 1 .. Len(glGot[c]) : glGot[c][k] \in Nat /\ glGot[c][k] <= glMsg
      BY <1>7
    <3>2. Told(c) => c \in Gateways!Open /\ ~(glFd[c] < glJ)
      BY <1>3, <1>4
    <3>3. c \in Gateways!Open => \A k \in 1 .. Len(glGot[c]) : glGot[c][k] = glMsg => glFd[c] < glJ
      BY <1>1, <1>2 DEF Gets
    <3> QED
      BY <3>1, <3>2, <3>3
  <2>2. CASE n \in 1 .. Len(glGot[c]) /\ glGot'[c][n] = glGot[c][n]
    <3>1. Len(glGot[c]) \in Nat
      BY <1>2, OneMore
    <3>2. m \in 1 .. Len(glGot[c]) /\ m # Len(glGot[c]) + 1
      BY <2>2, <3>1
    <3>3. glGot'[c][m] = glGot[c][m]
      BY <1>8, <3>2
    <3> QED
      BY <2>2, <3>2, <3>3 DEF GatewayInv, Gateways!AtMostOnce
  <2>3. CASE Told(c) /\ n = Len(glGot[c]) + 1 /\ glGot'[c][n] = glMsg
    <3>1. Len(glGot[c]) \in Nat
      BY <1>2, OneMore
    <3>2. m \in 1 .. Len(glGot[c]) /\ m # Len(glGot[c]) + 1
      BY <2>3, <3>1
    <3>3. glGot'[c][m] = glGot[c][m]
      BY <1>8, <3>2
    <3>4. glGot[c][m] \in Nat /\ glGot[c][m] <= glMsg /\ glGot[c][m] # glMsg
      BY <2>1, <2>3, <3>2
    <3> QED
      BY <1>3, <2>3, <3>3, <3>4
  <2> QED
    BY <1>8, <2>2, <2>3
<1>12. Sockets'
  BY <1>1, <1>2, <1>5, <1>6 DEF Sockets
<1>13. Handling'
  BY <1>1, <1>2, <1>3, <1>4, <1>5, <1>6 DEF Handling, Gateways!Open
<1>14. List'
  <2>1. \E r \in [Conns -> Nat] : Linked(InList, r)'
    BY <1>2, <1>5, <1>6 DEF List, Linked
  <2>2. glFreed \subseteq Conns
    BY <1>2 DEF Gateways!TypeOK
  <2>3. \A c \in glFreed' : glConn'[c] = "closed" \/ (glInPc' = "close" /\ c = glCur')
    BY <1>2, <1>4, <1>5, <2>2 DEF List
  <2>4. \A c \in Conns : glConn'[c] \in {"none", "backlog"} \/ (glInPc' = "add" /\ c = glCur')
                             => glNext'[c] = None
    BY <1>2, <1>4, <1>5 DEF List
  <2> QED
    BY <2>1, <2>3, <2>4 DEF List
<1>15. Served'
  <2>1. ASSUME NEW c \in glSteady
        PROVE  /\ c \in Conns /\ glConn'[c] = "open" /\ glFd[c] <= glFdmax /\ c \in InList
               /\ glFd[c] < glJ + 1 => HasMsg(c)'
    <3>1. /\ c \in Conns /\ glConn[c] = "open" /\ glFd[c] <= glFdmax /\ c \in InList
          /\ glFd[c] < glJ => HasMsg(c)
      BY <1>2, <1>3 DEF Served
    <3>2. glConn'[c] = "open"
      BY <1>4, <3>1
    <3>3. CASE glFd[c] = glJ
      <4>1. glGot'[c] = Append(glGot[c], glMsg) /\ glGot[c] \in Seq(Nat)
        BY <1>2, <1>4, <3>1, <3>3
      <4>2. glGot'[c] # << >> /\ glGot'[c][Len(glGot'[c])] = glMsg
        BY <1>3, <4>1, OneMore, Zenon
      <4> QED
        BY <1>1, <3>1, <3>2, <4>2 DEF HasMsg
    <3>4. CASE glFd[c] # glJ
      <4>1. glGot'[c] = glGot[c]
        BY <1>4, <3>1, <3>4
      <4>2. glFd[c] < glJ + 1 => glFd[c] < glJ
        BY <1>3, <3>1, <3>4
      <4> QED
        BY <1>1, <3>1, <3>2, <4>1, <4>2 DEF HasMsg
    <3> QED
      BY <3>3, <3>4
  <2> QED
    BY <1>1, <1>5, <1>6, <2>1 DEF Served
<1>16. Gets'
  <2>1. \A c \in Conns : \A k \in 1 .. Len(glGot'[c]) : glGot'[c][k] <= glMsg
    BY <1>3, <1>7, <1>8
  <2>2. ASSUME NEW c \in Conns, glConn'[c] \in {"none", "backlog"} PROVE Len(glGot'[c]) = 0
    <3>1. glConn[c] \in {"none", "backlog"} /\ ~Told(c)
      BY <1>4, <2>2
    <3> QED
      BY <1>2, <1>4, <3>1 DEF Gets
  <2>3. ASSUME NEW c \in Gateways!Open, NEW k \in 1 .. Len(glGot'[c]), glGot'[c][k] = glMsg
        PROVE  glFd[c] < glJ + 1
    <3>1. c \in Conns /\ glFd[c] \in Int
      BY <1>3
    <3>2. CASE k \in 1 .. Len(glGot[c]) /\ glGot'[c][k] = glGot[c][k]
      BY <1>1, <1>2, <1>3, <2>3, <3>1, <3>2 DEF Gets
    <3>3. CASE Told(c)
      BY <1>3, <1>4, <3>1, <3>3
    <3> QED
      BY <1>8, <3>1, <3>2, <3>3
  <2> QED
    BY <1>1, <1>6, <2>1, <2>2, <2>3 DEF Gets
<1> QED
  BY <1>10, <1>11, <1>12, <1>13, <1>14, <1>15, <1>16 DEF GatewayInv

-----------------------------------------------------------------------------
(* The theorems.                                                            *)

\* Every step keeps the invariant.
LEMMA GatewaysKeepInv ==
    ASSUME Gateways!GatewayAssumption, GatewayInv, [Gateways!Next]_(Gateways!vars)
    PROVE  GatewayInv'
<1>1. CASE UNCHANGED Gateways!vars
  <2>1. Gateways!Open' = Gateways!Open /\ InList' = InList /\ Watched' = Watched
    BY <1>1 DEF Gateways!vars, Gateways!Open, InList, Watched
  <2>2. VarTypes' /\ Gateways!AtMostOnce'
    BY <1>1 DEF GatewayInv, Gateways!vars, VarTypes, Gateways!TypeOK, Gateways!AtMostOnce
  <2>3. ASSUME Gateways!Running' PROVE Sockets' /\ Handling' /\ List' /\ Served' /\ Gets'
    <3>1. Sockets /\ Handling /\ List /\ Served /\ Gets
      BY <1>1, <2>3 DEF GatewayInv, Gateways!Running, Gateways!vars
    <3>2. Sockets' /\ Handling' /\ Gets'
      BY <1>1, <2>1, <3>1 DEF Gateways!vars, Sockets, Handling, Gets
    <3>3. List'
      BY <1>1, <2>1, <3>1 DEF Gateways!vars, List, Linked
    <3>4. Served'
      BY <1>1, <2>1, <3>1, SameLinks DEF Gateways!vars, Served, HasMsg
    <3> QED
      BY <3>2, <3>3, <3>4
  <2> QED
    BY <2>2, <2>3 DEF GatewayInv
<1>2. CASE Gateways!Next
  BY <1>2, QuitInv, ConnectInv, DisconnectInv, AcceptInv, AddGateWayInv, WatchInv, ReadEndInv,
     RemoveGateWayInv, CloseInv, TakeMsgInv, LoopInv, FindInv, EndInv, WriteInv DEF Gateways!Next
<1> QED
  BY <1>1, <1>2

\* The invariant holds as long as the program runs.
LEMMA GatewayInvariance == Gateways!GatewayAssumption => (Gateways!Spec => []GatewayInv)
<1> SUFFICES ASSUME Gateways!GatewayAssumption PROVE Gateways!Spec => []GatewayInv
  OBVIOUS
<1>1. Gateways!Init => GatewayInv
  BY GatewaysStart
<1>2. GatewayInv /\ [Gateways!Next]_(Gateways!vars) => GatewayInv'
  BY GatewaysKeepInv
<1> QED
  BY <1>1, <1>2, PTL DEF Gateways!Spec

\* Between two sockets handled, the nodes that are linked are those of the open
\* connections.
LEMMA ListIsOpen ==
    ASSUME Gateways!GatewayAssumption, GatewayInv
    PROVE  Gateways!ListMatchesSockets
<1> SUFFICES ASSUME Gateways!Running, glInPc = "select"
             PROVE  /\ Gateways!Listed = Gateways!Open
                    /\ glReads = {0, server_socket} \cup {glFd[c] : c \in Gateways!Listed}
                    /\ \A c, d \in Gateways!Listed : glFd[c] = glFd[d] => c = d
                    /\ \A c \in Gateways!Listed : glFd[c] <= glFdmax
                    /\ Gateways!Listed \cap glFreed = {}
  BY DEF Gateways!ListMatchesSockets
<1>1. Gateways!Listed = Gateways!Open /\ Watched = Gateways!Open
  BY ListedNow DEF InList, Watched
<1>2. Sockets /\ Handling /\ List
  BY DEF GatewayInv
<1>3. \A c \in glFreed : c \notin Gateways!Open
  BY <1>2 DEF List, Gateways!Open
<1> QED
  BY <1>1, <1>2, <1>3 DEF Sockets, Handling

\* The list is that of the watched sockets, each gateway with a descriptor of its
\* own, and no node of it was freed.
THEOREM ListIsOpenGateways ==
    Gateways!GatewayAssumption => (Gateways!Spec => []Gateways!ListMatchesSockets)
<1> SUFFICES ASSUME Gateways!GatewayAssumption PROVE Gateways!Spec => []Gateways!ListMatchesSockets
  OBVIOUS
<1>1. GatewayInv => Gateways!ListMatchesSockets
  BY ListIsOpen
<1> QED
  BY <1>1, GatewayInvariance, PTL

\* No gateway gets a message twice or out of order, whoever had its descriptor.
THEOREM NoMessageTwice ==
    Gateways!GatewayAssumption => (Gateways!Spec => []Gateways!AtMostOnce)
<1>1. GatewayInv => Gateways!AtMostOnce
  BY DEF GatewayInv
<1> QED
  BY <1>1, GatewayInvariance, PTL

\* A gateway that stays gets each message, however others come and go meanwhile.
THEOREM SteadyGatewaysGetAll ==
    Gateways!GatewayAssumption => (Gateways!Spec => []Gateways!SteadyGetAll)
<1>1. GatewayInv => Gateways!SteadyGetAll
  BY DEF GatewayInv, Gateways!SteadyGetAll, Served, HasMsg
<1> QED
  BY <1>1, GatewayInvariance, PTL

-----------------------------------------------------------------------------
(* The parts together.                                                      *)

\* Beside the other parts, too, the list of gateways holds the connected ones,
\* and each gets its messages, for any connections, descriptors and number of
\* messages.
THEOREM GatewaysAreServed == BenchSpec => []GatewaysServed
<1> DEFINE PartInv == part = "gateways" => GatewayInv
<1> USE PartsAssumption
<1>1. BenchInit => PartInv
  BY GatewaysStart DEF BenchInit
<1>2. PartInv /\ [BenchNext]_<<part, vars, edVars, glVars, lsVars, coVars>> => PartInv'
  <2> SUFFICES ASSUME PartInv, [BenchNext]_<<part, vars, edVars, glVars, lsVars, coVars>>,
                      part' = "gateways"
               PROVE  GatewayInv'
    OBVIOUS
  <2>1. part = "gateways"
    BY DEF BenchNext
  <2>2. Gateways!Next \/ UNCHANGED glVars
    BY <2>1 DEF BenchNext
  <2>3. [Gateways!Next]_(Gateways!vars)
    BY <2>2 DEF glVars, Gateways!vars
  <2> QED
    BY <2>1, <2>3, GatewaysKeepInv
<1>3. PartInv => GatewaysServed
  <2> SUFFICES ASSUME GatewayInv PROVE GatewaysServed
    BY DEF GatewaysServed
  <2>1. Gateways!TypeOK /\ Gateways!AtMostOnce
    BY DEF GatewayInv, VarTypes
  <2>2. Gateways!ListMatchesSockets
    BY ListIsOpen
  <2>3. Gateways!SteadyGetAll
    BY DEF GatewayInv, Gateways!SteadyGetAll, Served, HasMsg
  <2> QED
    BY <2>1, <2>2, <2>3 DEF GatewaysServed
<1> HIDE DEF PartInv
<1> QED
  BY <1>1, <1>2, <1>3, PTL DEF BenchSpec

-----------------------------------------------------------------------------
(* The list of devices.                                                     *)

Dev == [address : Address, gw : Devices!Gw \X Devices!Gw]

\* A device refers to gateways of U only, and not twice to the same.
Routed(d, U) ==
    /\ d \in Dev
    /\ {d.gw[1].socket, d.gw[2].socket} \subseteq U \cup {-1}
    /\ d.gw[1].socket = d.gw[2].socket => d.gw[1].socket = -1

\* Every device is, and each has its own address.
DevicesInv ==
    /\ edList \in Seq(Dev) /\ edUp \subseteq GwSocket
    /\ \A i \in 1 .. Len(edList) : Routed(edList[i], edUp)
    /\ \A i, k \in 1 .. Len(edList) : edList[i].address = edList[k].address => i = k

HasTwo(d) == d.gw[1].socket # -1 /\ d.gw[2].socket # -1

\* What a step does for a device: it is kept, and reached if it had two gateways.
CarriedOver ==
    \A i \in 1 .. Len(edList) : \E k \in 1 .. Len(edList') :
        /\ edList'[k].address = edList[i].address
        /\ HasTwo(edList[i]) => edList'[k].gw[1].socket \in edUp'

\* The first of some places.
LEMMA FirstPlace ==
    ASSUME NEW T \in SUBSET (Nat \ {0})
    PROVE  /\ T = {} => Devices!Min0(T) = 0
           /\ T # {} => Devices!Min0(T) \in T
<1>1. CASE T = {}
  BY <1>1 DEF Devices!Min0
<1>2. CASE T # {}
  <2>1. \E m \in T : \A n \in T : m <= n
    BY <1>2, Least
  <2> QED
    BY <1>2, <2>1 DEF Devices!Min0
<1> QED
  BY <1>1, <1>2

\* Where a device is found.
LEMMA FoundWhere ==
    ASSUME NEW l \in Seq(Dev), NEW a,
           NEW i, i = Devices!Min0({k \in DOMAIN l : l[k].address = a})
    PROVE  /\ i = 0 => \A k \in 1 .. Len(l) : l[k].address # a
           /\ i # 0 => i \in 1 .. Len(l) /\ l[i].address = a
<1> DEFINE T == {k \in DOMAIN l : l[k].address = a}
<1>1. DOMAIN l = 1 .. Len(l) /\ Len(l) \in Nat
  OBVIOUS
<1>2. T \in SUBSET (Nat \ {0})
  BY <1>1
<1> QED
  BY <1>1, <1>2, FirstPlace

\* The sequence with d at place p.
With(l, p, d) == SubSeq(l, 1, p - 1) \o <<d>> \o SubSeq(l, p, Len(l))

\* What an insertion makes of a sequence.
LEMMA Inserted ==
    ASSUME NEW S, NEW l \in Seq(S), NEW d \in S, NEW p \in 1 .. Len(l) + 1
    PROVE  /\ With(l, p, d) \in Seq(S) /\ Len(With(l, p, d)) = Len(l) + 1
           /\ \A i \in 1 .. Len(l) + 1 :
                 With(l, p, d)[i] = IF i < p THEN l[i] ELSE IF i = p THEN d ELSE l[i - 1]
<1> DEFINE x == SubSeq(l, 1, p - 1)
           y == SubSeq(l, p, Len(l))
           xd == x \o <<d>>
           r == xd \o y
<1>1. Len(l) \in Nat
  OBVIOUS
<1>2. x \in Seq(S) /\ Len(x) = p - 1 /\ \A i \in 1 .. p - 1 : x[i] = l[i]
  OBVIOUS
<1>3. y \in Seq(S) /\ Len(y) = Len(l) + 1 - p /\ \A i \in 1 .. Len(y) : y[i] = l[p + i - 1]
  OBVIOUS
<1>4. <<d>> \in Seq(S) /\ Len(<<d>>) = 1 /\ <<d>>[1] = d
  OBVIOUS
<1> HIDE DEF x, y
<1>5. xd \in Seq(S) /\ Len(xd) = p /\ \A i \in 1 .. p : xd[i] = IF i < p THEN l[i] ELSE d
  BY <1>2, <1>4
<1> HIDE DEF xd
<1>6. /\ r \in Seq(S) /\ Len(r) = Len(xd) + Len(y)
      /\ \A i \in 1 .. Len(xd) + Len(y) : r[i] = IF i <= Len(xd) THEN xd[i] ELSE y[i - Len(xd)]
  BY <1>3, <1>5, ConcatProperties
<1> HIDE DEF r
<1>7. Len(xd) + Len(y) = Len(l) + 1
  BY <1>1, <1>3, <1>5
<1>8. ASSUME NEW i \in 1 .. Len(l) + 1
      PROVE  r[i] = IF i < p THEN l[i] ELSE IF i = p THEN d ELSE l[i - 1]
  <2>1. r[i] = IF i <= p THEN xd[i] ELSE y[i - p]
    BY <1>5, <1>6, <1>7
  <2>2. CASE i <= p
    BY <1>5, <2>1, <2>2
  <2>3. CASE i > p
    <3>1. i - p \in 1 .. Len(y) /\ p + (i - p) - 1 = i - 1
      BY <1>1, <1>3, <2>3
    <3> QED
      BY <1>3, <2>1, <2>3, <3>1
  <2> QED
    BY <2>2, <2>3
<1> QED
  BY <1>6, <1>7, <1>8 DEF r, xd, x, y, With

\* A gateway's place is kept as it is by a set of gateways that is no smaller.
LEMMA NewRouted ==
    ASSUME Devices!DeviceAssumption, NEW a \in Address, NEW s \in GwSocket, NEW r \in Rssi,
           NEW U, s \in U
    PROVE  Routed(Devices!NewDevice(a, [socket |-> s, rssi |-> r]), U)
<1>1. s # -1
  BY DEF Devices!DeviceAssumption
<1> QED
  BY <1>1 DEF Routed, Devices!NewDevice, Devices!NoGw, Devices!Gw, Dev

\* What replacing places makes of a device.
LEMMA Replaced ==
    ASSUME NEW d \in Dev, NEW x \in Devices!Gw, NEW y \in Devices!Gw
    PROVE  /\ [d EXCEPT !.gw[1] = x] = [address |-> d.address, gw |-> <<x, d.gw[2]>>]
           /\ [d EXCEPT !.gw[2] = x] = [address |-> d.address, gw |-> <<d.gw[1], x>>]
           /\ [d EXCEPT !.gw = <<x, y>>] = [address |-> d.address, gw |-> <<x, y>>]
           /\ [address |-> d.address, gw |-> <<x, y>>] \in Dev
           /\ d.gw[1] \in Devices!Gw /\ d.gw[2] \in Devices!Gw /\ d.address \in Address
<1>1. /\ DOMAIN d = {"address", "gw"} /\ d.address \in Address
      /\ d.gw \in Devices!Gw \X Devices!Gw
  BY DEF Dev
<1>2. d.gw = <<d.gw[1], d.gw[2]>> /\ d.gw[1] \in Devices!Gw /\ d.gw[2] \in Devices!Gw
  BY <1>1
<1>3. [d.gw EXCEPT ![1] = x] = <<x, d.gw[2]>> /\ [d.gw EXCEPT ![2] = x] = <<d.gw[1], x>>
  BY <1>2
<1>4. d = [address |-> d.address, gw |-> d.gw]
  BY <1>1 DEF Dev
<1>5. [address |-> d.address, gw |-> <<x, y>>] \in Dev
  BY <1>1 DEF Dev
<1>6. \A v : [d EXCEPT !.gw = v] = [address |-> d.address, gw |-> v]
  BY <1>4
<1> QED
  BY <1>1, <1>2, <1>3, <1>5, <1>6

\* A device of two places.
Of(a, x, y) == [address |-> a, gw |-> <<x, y>>]

\* A place that is empty or names a gateway of U.
Names(x, U) == x \in Devices!Gw /\ x.socket \in U \cup {-1}

\* Routed, by its places.
LEMMA RoutedByPlaces ==
    ASSUME NEW a \in Address, NEW U, NEW x, NEW y
    PROVE  /\ Of(a, x, y).address = a
           /\ Of(a, x, y).gw[1] = x /\ Of(a, x, y).gw[2] = y
           /\ Routed(Of(a, x, y), U) <=>
                 Names(x, U) /\ Names(y, U) /\ (x.socket = y.socket => x.socket = -1)
<1>1. Of(a, x, y) \in Dev <=> x \in Devices!Gw /\ y \in Devices!Gw
  BY DEF Of, Dev
<1> QED
  BY <1>1 DEF Of, Routed, Names

\* Every device has two places.
LEMMA DeviceOf ==
    ASSUME NEW d \in Dev
    PROVE  /\ d = Of(d.address, d.gw[1], d.gw[2]) /\ d.address \in Address
           /\ d.gw[1] \in Devices!Gw /\ d.gw[2] \in Devices!Gw
BY DEF Dev, Of

\* The stronger of two gateways goes first; both stay.
LEMMA BetterKeeps ==
    ASSUME Devices!DeviceAssumption, NEW a \in Address, NEW x \in Devices!Gw, NEW y \in Devices!Gw
    PROVE  Devices!Better(Of(a, x, y)) = IF x.rssi < y.rssi THEN Of(a, y, x) ELSE Of(a, x, y)
<1>1. Of(a, x, y) \in Dev /\ Of(a, x, y).gw[1] = x /\ Of(a, x, y).gw[2] = y
      /\ Of(a, x, y).address = a
  BY DEF Of, Dev
<1>2. [Of(a, x, y) EXCEPT !.gw = <<y, x>>] = Of(a, y, x)
  BY <1>1, Replaced DEF Of
<1> QED
  BY <1>1, <1>2 DEF Devices!Better

\* What a join request makes of a known device.
AfterJoin(d, s, g) ==
    IF d.gw[1].socket = s THEN [d EXCEPT !.gw[1] = g]
    ELSE IF d.gw[2].socket = s THEN [d EXCEPT !.gw[2] = g]
    ELSE IF d.gw[2].socket = -1 THEN Devices!Better([d EXCEPT !.gw[2] = g])
    ELSE d

\* A join request keeps what a device is reached by.
LEMMA JoinUpdate ==
    ASSUME Devices!DeviceAssumption, NEW U \in SUBSET GwSocket, NEW d, Routed(d, U),
           NEW s \in U, NEW r \in Rssi,
           NEW e, e = AfterJoin(d, s, [socket |-> s, rssi |-> r])
    PROVE  Routed(e, U) /\ e.address = d.address /\ (HasTwo(d) => e.gw[1].socket \in U)
<1> DEFINE a == d.address
           x == d.gw[1]
           y == d.gw[2]
           g == [socket |-> s, rssi |-> r]
<1> USE DEF AfterJoin
<1>1. d \in Dev /\ g \in Devices!Gw /\ g.socket = s /\ s # -1 /\ Names(g, U)
  BY DEF Routed, Devices!Gw, Devices!DeviceAssumption, Names
<1>2. d = Of(a, x, y) /\ a \in Address /\ x \in Devices!Gw /\ y \in Devices!Gw
  BY <1>1, DeviceOf
<1>3. [d EXCEPT !.gw[1] = g] = Of(a, g, y) /\ [d EXCEPT !.gw[2] = g] = Of(a, x, g)
  BY <1>1, Replaced DEF Of
<1>4. Names(x, U) /\ Names(y, U) /\ (x.socket = y.socket => x.socket = -1)
  BY <1>1, <1>2 DEF Routed, Names
<1>5. Devices!Better(Of(a, x, g)) \in {Of(a, x, g), Of(a, g, x)}
  BY <1>1, <1>2, BetterKeeps
<1> HIDE DEF a, x, y
<1>6. CASE x.socket = s
  <2>1. e = Of(a, g, y)
    BY <1>3, <1>6 DEF x
  <2> QED
    BY <1>1, <1>2, <1>4, <1>6, <2>1, RoutedByPlaces DEF a
<1>7. CASE x.socket # s /\ y.socket = s
  <2>1. e = Of(a, x, g)
    BY <1>3, <1>7 DEF x, y
  <2> QED
    BY <1>1, <1>2, <1>4, <1>7, <2>1, RoutedByPlaces DEF a, HasTwo, x, Names
<1>8. CASE x.socket # s /\ y.socket = -1
  <2>1. e \in {Of(a, x, g), Of(a, g, x)}
    BY <1>1, <1>3, <1>5, <1>8 DEF x, y
  <2>2. ~ HasTwo(d)
    BY <1>8 DEF HasTwo, y
  <2>3. Routed(Of(a, x, g), U) /\ Routed(Of(a, g, x), U)
    BY <1>1, <1>2, <1>4, <1>8, RoutedByPlaces
  <2>4. e.address = a
    BY <1>2, <2>1, RoutedByPlaces
  <2> QED
    BY <2>1, <2>2, <2>3, <2>4 DEF a
<1>9. CASE x.socket # s /\ y.socket \notin {s, -1}
  <2>1. e = d
    BY <1>9 DEF x, y
  <2> QED
    BY <2>1, <1>4 DEF HasTwo, x, Names
<1> QED
  BY <1>6, <1>7, <1>8, <1>9

\* What a data frame notes for a known device, before the two are compared.
Heard(d, s, r, g) ==
    IF d.gw[1].socket = s THEN [d EXCEPT !.gw[1] = g]
    ELSE IF d.gw[2].socket \in {s, -1} \/ d.gw[2].rssi < r THEN [d EXCEPT !.gw[2] = g] ELSE d

\* What a data frame makes of a known device.
AfterData(d, s, r, g) ==
    IF Heard(d, s, r, g).gw[2].socket = -1 THEN Heard(d, s, r, g)
    ELSE Devices!Better(Heard(d, s, r, g))

\* A data frame keeps what a device is reached by, and orders the two.
LEMMA DataUpdate ==
    ASSUME Devices!DeviceAssumption, NEW U \in SUBSET GwSocket, NEW d, Routed(d, U),
           NEW s \in U, NEW r \in Rssi,
           NEW e, e = AfterData(d, s, r, [socket |-> s, rssi |-> r])
    PROVE  /\ Routed(e, U) /\ e.address = d.address /\ (HasTwo(d) => e.gw[1].socket \in U)
           /\ e.gw[2].socket # -1 => e.gw[1].rssi >= e.gw[2].rssi
<1> DEFINE a == d.address
           x == d.gw[1]
           y == d.gw[2]
           g == [socket |-> s, rssi |-> r]
           h == Heard(d, s, r, g)
<1> USE DEF Heard, AfterData
<1>1. d \in Dev /\ g \in Devices!Gw /\ g.socket = s /\ s # -1 /\ Names(g, U)
  BY DEF Routed, Devices!Gw, Devices!DeviceAssumption, Names
<1>2. d = Of(a, x, y) /\ a \in Address /\ x \in Devices!Gw /\ y \in Devices!Gw
  BY <1>1, DeviceOf
<1>3. [d EXCEPT !.gw[1] = g] = Of(a, g, y) /\ [d EXCEPT !.gw[2] = g] = Of(a, x, g)
  BY <1>1, Replaced DEF Of
<1>4. Names(x, U) /\ Names(y, U) /\ (x.socket = y.socket => x.socket = -1)
  BY <1>1, <1>2 DEF Routed, Names
<1>5. HasTwo(d) <=> x.socket # -1 /\ y.socket # -1
  BY DEF HasTwo
<1> DEFINE hx == h.gw[1]
           hy == h.gw[2]
<1>6. /\ h = Of(a, hx, hy) /\ hx \in Devices!Gw /\ hy \in Devices!Gw
      /\ Names(hx, U) /\ Names(hy, U) /\ (hx.socket = hy.socket => hx.socket = -1)
      /\ HasTwo(d) => hx.socket # -1 /\ hy.socket # -1
  <2> HIDE DEF a, x, y
  <2>1. CASE x.socket = s
    <3>1. h = Of(a, g, y)
      BY <1>3, <2>1 DEF x
    <3>2. hx = g /\ hy = y
      BY <3>1 DEF Of
    <3> QED
      BY <1>1, <1>2, <1>4, <1>5, <2>1, <3>1, <3>2
  <2>2. CASE x.socket # s /\ h = Of(a, x, g)
    <3>1. hx = x /\ hy = g
      BY <2>2 DEF Of
    <3> QED
      BY <1>1, <1>2, <1>4, <1>5, <2>2, <3>1
  <2>3. CASE x.socket # s /\ h = d
    BY <1>2, <1>4, <1>5, <2>3 DEF x, y
  <2> QED
    BY <1>3, <2>1, <2>2, <2>3 DEF x
<1> HIDE DEF a, x, y, hx, hy
<1>10. Routed(Of(a, hx, hy), U) /\ Routed(Of(a, hy, hx), U)
  <2>1. a \in Address /\ Names(hx, U) /\ Names(hy, U) /\ (hx.socket = hy.socket => hx.socket = -1)
    BY <1>2, <1>6
  <2> QED
    BY <2>1, RoutedByPlaces
<1>7. CASE hy.socket = -1
  <2>1. e = h
    BY <1>7 DEF hy
  <2>2. Routed(e, U) /\ e.address = a /\ e.gw[1] = hx /\ e.gw[2] = hy
    BY <1>6, <1>10, <2>1 DEF Of
  <2> QED
    BY <1>6, <1>7, <2>2 DEF a
<1>8. CASE hy.socket # -1
  <2>1. e = IF hx.rssi < hy.rssi THEN Of(a, hy, hx) ELSE Of(a, hx, hy)
    <3>1. e = Devices!Better(Of(a, hx, hy))
      BY <1>6, <1>8 DEF hy
    <3> QED
      BY <1>2, <1>6, <3>1, BetterKeeps
  <2>2. hx.rssi \in Int /\ hy.rssi \in Int
    BY <1>6 DEF Devices!Gw, Devices!NoGw, Devices!Faint, Devices!DeviceAssumption
  <2>3. CASE hx.rssi < hy.rssi
    <3>1. e = Of(a, hy, hx)
      BY <2>1, <2>3
    <3>2. Routed(e, U) /\ e.address = a /\ e.gw[1] = hy /\ e.gw[2] = hx
      BY <1>10, <3>1 DEF Of
    <3>3. HasTwo(d) => hy.socket \in U
      BY <1>6 DEF Names
    <3>4. hy.rssi >= hx.rssi
      BY <2>2, <2>3
    <3> QED
      BY <3>2, <3>3, <3>4 DEF a
  <2>4. CASE ~ (hx.rssi < hy.rssi)
    <3>1. e = Of(a, hx, hy)
      BY <2>1, <2>4
    <3>2. Routed(e, U) /\ e.address = a /\ e.gw[1] = hx /\ e.gw[2] = hy
      BY <1>10, <3>1 DEF Of
    <3>3. HasTwo(d) => hx.socket \in U
      BY <1>6 DEF Names
    <3>4. hx.rssi >= hy.rssi
      BY <2>2, <2>4
    <3> QED
      BY <3>2, <3>3, <3>4 DEF a
  <2> QED
    BY <2>3, <2>4
<1> QED
  BY <1>7, <1>8

\* A gateway that goes is taken out, and the other one becomes the first.
LEMMA WithoutKeeps ==
    ASSUME Devices!DeviceAssumption, NEW U \in SUBSET GwSocket, NEW d, Routed(d, U), NEW s \in U
    PROVE  /\ Routed(Devices!Without(d, s), U \ {s})
           /\ Devices!Without(d, s).address = d.address
           /\ HasTwo(d) => Devices!Without(d, s).gw[1].socket \in U \ {s}
<1> DEFINE a == d.address
           x == d.gw[1]
           y == d.gw[2]
           e == Devices!Without(d, s)
           none == Devices!NoGw
<1>1. d \in Dev /\ s # -1 /\ none \in Devices!Gw /\ none.socket = -1
  BY DEF Routed, Devices!Gw, Devices!NoGw, Devices!DeviceAssumption
<1>2. d = Of(a, x, y) /\ a \in Address /\ x \in Devices!Gw /\ y \in Devices!Gw
  BY <1>1, DeviceOf
<1>3. [d EXCEPT !.gw = <<y, none>>] = Of(a, y, none) /\ [d EXCEPT !.gw[2] = none] = Of(a, x, none)
  BY <1>1, <1>2, Replaced DEF Of
<1>4. Names(x, U) /\ Names(y, U) /\ (x.socket = y.socket => x.socket = -1)
  BY <1>1, <1>2 DEF Routed, Names
<1>5. HasTwo(d) <=> x.socket # -1 /\ y.socket # -1
  BY DEF HasTwo
<1>6. e = IF x.socket = s THEN Of(a, y, none) ELSE IF y.socket = s THEN Of(a, x, none) ELSE d
  BY <1>3 DEF Devices!Without
<1> HIDE DEF a, x, y, e, none
<1>7. CASE x.socket = s
  <2>1. e = Of(a, y, none)
    BY <1>6, <1>7
  <2>2. Names(y, U \ {s}) /\ Names(none, U \ {s})
    BY <1>1, <1>4, <1>7 DEF Names
  <2>3. Routed(e, U \ {s}) /\ e.address = a /\ e.gw[1] = y
    BY <1>1, <1>2, <2>1, <2>2, RoutedByPlaces
  <2> QED
    BY <1>5, <2>2, <2>3 DEF a, e, Names
<1>8. CASE x.socket # s /\ y.socket = s
  <2>1. e = Of(a, x, none)
    BY <1>6, <1>8
  <2>2. Names(x, U \ {s}) /\ Names(none, U \ {s})
    BY <1>1, <1>4, <1>8 DEF Names
  <2>3. Routed(e, U \ {s}) /\ e.address = a /\ e.gw[1] = x
    BY <1>1, <1>2, <2>1, <2>2, RoutedByPlaces
  <2> QED
    BY <1>5, <2>2, <2>3 DEF a, e, Names
<1>9. CASE x.socket # s /\ y.socket # s
  <2>1. e = Of(a, x, y)
    BY <1>2, <1>6, <1>9
  <2>2. Names(x, U \ {s}) /\ Names(y, U \ {s})
    BY <1>4, <1>9 DEF Names
  <2>3. Routed(e, U \ {s}) /\ e.address = a /\ e.gw[1] = x
    BY <1>2, <1>4, <2>1, <2>2, RoutedByPlaces
  <2> QED
    BY <1>5, <2>2, <2>3 DEF a, e, Names
<1> QED
  BY <1>7, <1>8, <1>9

\* A device with two gateways has a route.
LEMMA TwoAreReached ==
    ASSUME NEW U, NEW d, Routed(d, U), HasTwo(d)
    PROVE  d.gw[1].socket \in U
BY DEF Routed, HasTwo

\* A device enters the list.
LEMMA Entered ==
    ASSUME DevicesInv, NEW d, Routed(d, edUp), UNCHANGED edUp,
           \A k \in 1 .. Len(edList) : edList[k].address # d.address,
           NEW p \in 1 .. Len(edList) + 1,
           edList' = With(edList, p, d)
    PROVE  DevicesInv' /\ CarriedOver
<1>1. edList \in Seq(Dev) /\ Len(edList) \in Nat /\ d \in Dev
  BY DEF DevicesInv, Routed
<1>2. /\ edList' \in Seq(Dev) /\ Len(edList') = Len(edList) + 1
      /\ \A i \in 1 .. Len(edList) + 1 :
            edList'[i] = IF i < p THEN edList[i] ELSE IF i = p THEN d ELSE edList[i - 1]
  <2>1. \A n \in 1 .. Len(edList) + 1 :
            /\ With(edList, n, d) \in Seq(Dev) /\ Len(With(edList, n, d)) = Len(edList) + 1
            /\ \A i \in 1 .. Len(edList) + 1 :
                 With(edList, n, d)[i] = IF i < n THEN edList[i] ELSE IF i = n THEN d ELSE edList[i - 1]
    BY <1>1, Inserted
  <2> QED
    BY <2>1
<1> DEFINE From(i) == IF i < p THEN i ELSE i - 1
<1>3. ASSUME NEW i \in 1 .. Len(edList'), i # p
      PROVE  From(i) \in 1 .. Len(edList) /\ edList'[i] = edList[From(i)]
  BY <1>1, <1>2, <1>3
<1>4. ASSUME NEW i \in 1 .. Len(edList') PROVE Routed(edList'[i], edUp)
  <2>1. CASE i = p
    BY <1>1, <1>2, <2>1
  <2>2. CASE i # p
    BY <1>3, <2>2 DEF DevicesInv
  <2> QED
    BY <2>1, <2>2
<1>5. ASSUME NEW i \in 1 .. Len(edList'), NEW k \in 1 .. Len(edList'),
             edList'[i].address = edList'[k].address
      PROVE  i = k
  <2>1. p \in 1 .. Len(edList') /\ edList'[p] = d
    BY <1>1, <1>2
  <2>2. CASE i # p /\ k # p
    <3>1. From(i) = From(k)
      BY <1>3, <1>5, <2>2 DEF DevicesInv
    <3> QED
      BY <1>1, <1>2, <2>2, <3>1
  <2>3. CASE i = p \/ k = p
    BY <1>3, <1>5, <2>1, <2>3
  <2> QED
    BY <2>2, <2>3
<1>6. DevicesInv'
  BY <1>2, <1>4, <1>5 DEF DevicesInv
<1>7. ASSUME NEW i \in 1 .. Len(edList)
      PROVE  \E k \in 1 .. Len(edList') : edList'[k] = edList[i]
  <2>1. CASE i < p
    BY <1>1, <1>2, <2>1
  <2>2. CASE i >= p
    <3>1. i + 1 \in 1 .. Len(edList) + 1 /\ edList'[i + 1] = edList[i]
      BY <1>1, <1>2, <2>2
    <3> QED
      BY <1>2, <3>1
  <2> QED
    BY <2>1, <2>2
<1>8. CarriedOver
  BY <1>7, TwoAreReached DEF CarriedOver, DevicesInv
<1> QED
  BY <1>6, <1>8

\* A device is brought up to date.
LEMMA Updated ==
    ASSUME DevicesInv, UNCHANGED edUp, NEW i \in 1 .. Len(edList), NEW e,
           Routed(e, edUp), e.address = edList[i].address,
           HasTwo(edList[i]) => e.gw[1].socket \in edUp,
           edList' = [edList EXCEPT ![i] = e]
    PROVE  DevicesInv' /\ CarriedOver
<1>1. edList \in Seq(Dev) /\ Len(edList) \in Nat /\ e \in Dev
  BY DEF DevicesInv, Routed
<1>2. /\ edList' \in Seq(Dev) /\ Len(edList') = Len(edList)
      /\ \A k \in 1 .. Len(edList) : edList'[k] = IF k = i THEN e ELSE edList[k]
  BY <1>1
<1>3. \A k \in 1 .. Len(edList) : edList'[k].address = edList[k].address
  BY <1>2
<1>4. \A k \in 1 .. Len(edList) : Routed(edList'[k], edUp)
  BY <1>2 DEF DevicesInv
<1>5. DevicesInv'
  BY <1>2, <1>3, <1>4 DEF DevicesInv
<1>6. \A k \in 1 .. Len(edList) : HasTwo(edList[k]) => edList'[k].gw[1].socket \in edUp'
  BY <1>2, TwoAreReached DEF DevicesInv
<1> QED
  BY <1>2, <1>3, <1>5, <1>6 DEF CarriedOver

\* The sorting loop stops at a place of the list or behind it.
LEMMA PlaceInList ==
    ASSUME NEW l \in Seq(Dev), NEW a
    PROVE  Devices!Place(l, a) \in 1 .. Len(l) + 1
<1> DEFINE T == {k \in DOMAIN l : l[k].address > a}
<1>1. Len(l) \in Nat /\ DOMAIN l = 1 .. Len(l)
  OBVIOUS
<1>2. T \in SUBSET (Nat \ {0}) /\ T \subseteq 1 .. Len(l)
  BY <1>1
<1>3. Devices!Min0(T) = 0 \/ Devices!Min0(T) \in 1 .. Len(l)
  BY <1>2, FirstPlace
<1> QED
  BY <1>1, <1>3 DEF Devices!Place

\* A join request enters a device in order or updates it.
LEMMA JoinKeepsDevices ==
    ASSUME Devices!DeviceAssumption, DevicesInv,
           NEW a \in Address, NEW s \in GwSocket, NEW r \in Rssi,
           Devices!AddEndDeviceInfo(a, s, r)
    PROVE  DevicesInv' /\ CarriedOver
<1> DEFINE g == [socket |-> s, rssi |-> r]
           i == Devices!FindEndDevice(a)
<1>1. s \in edUp /\ UNCHANGED edUp /\ edUp \in SUBSET GwSocket /\ edList \in Seq(Dev)
  BY DEF Devices!AddEndDeviceInfo, DevicesInv
<1>2. /\ i = 0 => \A k \in 1 .. Len(edList) : edList[k].address # a
      /\ i # 0 => i \in 1 .. Len(edList) /\ edList[i].address = a
  BY <1>1, FoundWhere DEF Devices!FindEndDevice
<1>3. CASE i = 0
  <2> DEFINE d == Devices!NewDevice(a, g)
             p == Devices!Place(edList, a)
  <2>1. Routed(d, edUp) /\ d.address = a
    BY <1>1, NewRouted DEF Devices!NewDevice
  <2>2. p \in 1 .. Len(edList) + 1
    BY <1>1, PlaceInList
  <2>3. edList' = With(edList, p, d)
    BY <1>3 DEF Devices!AddEndDeviceInfo, Devices!Sorted, Devices!NewDevice, With
  <2> HIDE DEF d, p
  <2> QED
    BY <1>1, <1>2, <1>3, <2>1, <2>2, <2>3, Entered
<1>4. CASE i # 0
  <2> DEFINE d == edList[i]
             e == AfterJoin(d, s, g)
  <2>1. edList' = [edList EXCEPT ![i] = e]
    BY <1>4 DEF Devices!AddEndDeviceInfo, AfterJoin
  <2>2. Routed(d, edUp)
    BY <1>2, <1>4 DEF DevicesInv
  <2> HIDE DEF i
  <2>3. Routed(e, edUp) /\ e.address = d.address /\ (HasTwo(d) => e.gw[1].socket \in edUp)
    BY <1>1, <2>2, JoinUpdate
  <2> HIDE DEF e
  <2> QED
    BY <1>1, <1>2, <1>4, <2>1, <2>3, Updated
<1> QED
  BY <1>3, <1>4

\* A data frame puts a new device in front or updates it; then the primary
\* gateway is the better one.
LEMMA DataKeepsDevices ==
    ASSUME Devices!DeviceAssumption, DevicesInv,
           NEW a \in Address, NEW s \in GwSocket, NEW r \in Rssi,
           Devices!RxEndDeviceInfoUpdate(a, s, r)
    PROVE  /\ DevicesInv' /\ CarriedOver
           /\ \E k \in 1 .. Len(edList') :
                 /\ edList'[k].address = a
                 /\ edList'[k].gw[2].socket # -1 => edList'[k].gw[1].rssi >= edList'[k].gw[2].rssi
<1> DEFINE g == [socket |-> s, rssi |-> r]
           i == Devices!FindEndDevice(a)
<1>1. s \in edUp /\ UNCHANGED edUp /\ edUp \in SUBSET GwSocket /\ edList \in Seq(Dev)
  BY DEF Devices!RxEndDeviceInfoUpdate, DevicesInv
<1>2. /\ i = 0 => \A k \in 1 .. Len(edList) : edList[k].address # a
      /\ i # 0 => i \in 1 .. Len(edList) /\ edList[i].address = a
  BY <1>1, FoundWhere DEF Devices!FindEndDevice
<1>3. CASE i = 0
  <2> DEFINE d == Devices!NewDevice(a, g)
  <2>1. Routed(d, edUp) /\ d.address = a /\ d.gw[2].socket = -1
    BY <1>1, NewRouted DEF Devices!NewDevice, Devices!NoGw
  <2>2. edList' = <<d>> \o edList
    BY <1>3 DEF Devices!RxEndDeviceInfoUpdate
  <2> HIDE DEF d
  <2>3. d \in Dev /\ Len(edList) \in Nat
    BY <1>1, <2>1 DEF Routed
  <2>4. edList' = With(edList, 1, d)
    <3>1. SubSeq(edList, 1, 0) = << >> /\ SubSeq(edList, 1, Len(edList)) = edList
      BY <1>1
    <3>2. << >> \o <<d>> = <<d>>
      BY <2>3
    <3> QED
      BY <2>2, <3>1, <3>2 DEF With
  <2>5. DevicesInv' /\ CarriedOver
    BY <1>1, <1>2, <1>3, <2>1, <2>3, <2>4, Entered
  <2>6. Len(edList') = Len(edList) + 1 /\ edList'[1] = d
    BY <1>1, <2>2, <2>3
  <2> QED
    BY <2>1, <2>3, <2>5, <2>6
<1>4. CASE i # 0
  <2> DEFINE d == edList[i]
             e == AfterData(d, s, r, g)
  <2>1. edList' = [edList EXCEPT ![i] = e]
    BY <1>4 DEF Devices!RxEndDeviceInfoUpdate, AfterData, Heard
  <2>2. Routed(d, edUp)
    BY <1>2, <1>4 DEF DevicesInv
  <2> HIDE DEF i
  <2>3. /\ Routed(e, edUp) /\ e.address = d.address /\ (HasTwo(d) => e.gw[1].socket \in edUp)
        /\ e.gw[2].socket # -1 => e.gw[1].rssi >= e.gw[2].rssi
    BY <1>1, <2>2, DataUpdate
  <2> HIDE DEF e
  <2>4. DevicesInv' /\ CarriedOver
    BY <1>1, <1>2, <1>4, <2>1, <2>3, Updated
  <2>5. i \in 1 .. Len(edList') /\ edList'[i] = e
    BY <1>1, <1>2, <1>4, <2>1
  <2> QED
    BY <1>2, <1>4, <2>3, <2>4, <2>5
<1> QED
  BY <1>3, <1>4

\* A gateway that goes is taken out of all devices.
LEMMA GoneKeepsDevices ==
    ASSUME Devices!DeviceAssumption, DevicesInv,
           NEW s \in GwSocket, Devices!RemoveGateWayFromEndDevice(s)
    PROVE  DevicesInv' /\ CarriedOver
<1>1. /\ s \in edUp /\ edUp' = edUp \ {s} /\ edUp \in SUBSET GwSocket /\ edList \in Seq(Dev)
      /\ edList' = [i \in 1 .. Len(edList) |-> Devices!Without(edList[i], s)]
      /\ Len(edList) \in Nat
  BY DEF Devices!RemoveGateWayFromEndDevice, DevicesInv
<1>2. ASSUME NEW i \in 1 .. Len(edList)
      PROVE  /\ Routed(edList'[i], edUp') /\ edList'[i].address = edList[i].address
             /\ HasTwo(edList[i]) => edList'[i].gw[1].socket \in edUp'
  <2>1. edList'[i] = Devices!Without(edList[i], s) /\ Routed(edList[i], edUp)
    BY <1>1 DEF DevicesInv
  <2> DEFINE d == edList[i]
  <2>2. /\ Routed(Devices!Without(d, s), edUp \ {s})
        /\ Devices!Without(d, s).address = d.address
        /\ HasTwo(d) => Devices!Without(d, s).gw[1].socket \in edUp \ {s}
    <3> HIDE DEF d
    <3>1. Routed(d, edUp) /\ s \in edUp /\ edUp \in SUBSET GwSocket
      BY <1>1, <2>1 DEF d
    <3> QED
      BY ONLY <3>1, WithoutKeeps, Devices!DeviceAssumption
  <2> QED
    BY <1>1, <2>1, <2>2
<1>3. \A i \in 1 .. Len(edList) : Devices!Without(edList[i], s) \in Dev
  BY <1>1, <1>2 DEF Routed
<1>4. edList' \in Seq(Dev) /\ Len(edList') = Len(edList)
  BY <1>1, <1>3
<1>5. \A i, k \in 1 .. Len(edList) : edList'[i].address = edList'[k].address => i = k
  BY <1>2 DEF DevicesInv
<1>6. edUp' \subseteq GwSocket
  BY <1>1
<1>7. DevicesInv'
  BY <1>2, <1>4, <1>5, <1>6 DEF DevicesInv
<1> QED
  BY <1>2, <1>4, <1>7 DEF CarriedOver

\* A device with the largest address becomes the last one.
LEMMA LastInOrder ==
    ASSUME NEW k \in Nat \ {0}, NEW f \in [1 .. k -> Dev],
           \A i \in 1 .. k - 1 : ~ (f[i].address > f[k].address)
    PROVE  Devices!SortedToEnd([i \in 1 .. k - 1 |-> f[i]], f[k]) = [i \in 1 .. k |-> f[i]]
<1> DEFINE l == [i \in 1 .. k - 1 |-> f[i]]
           T == {i \in DOMAIN l : l[i].address > f[k].address}
           r == SubSeq(l, 1, k - 1) \o <<f[k]>>
<1>1. l \in Seq(Dev) /\ Len(l) = k - 1 /\ DOMAIN l = 1 .. k - 1 /\ f[k] \in Dev
  OBVIOUS
<1>2. Devices!Min0(T) = 0
  BY <1>1, FirstPlace
<1>3. Devices!Place(l, f[k].address) = k
  BY <1>1, <1>2 DEF Devices!Place
<1>4. Devices!SortedToEnd(l, f[k]) = r
  BY <1>3 DEF Devices!SortedToEnd
<1>5. SubSeq(l, 1, k - 1) = l
  BY <1>1
<1>6. /\ r \in Seq(Dev) /\ Len(r) = k
      /\ \A i \in 1 .. k : r[i] = f[i]
  <2> DEFINE d == <<f[k]>>
  <2>1. d \in Seq(Dev) /\ Len(d) = 1 /\ d[1] = f[k]
    BY <1>1
  <2> HIDE DEF d
  <2>2. /\ l \o d \in Seq(Dev) /\ Len(l \o d) = Len(l) + Len(d)
        /\ \A i \in 1 .. Len(l) + Len(d) : (l \o d)[i] = IF i <= Len(l) THEN l[i] ELSE d[i - Len(l)]
    BY <1>1, <2>1, ConcatProperties
  <2>3. r = l \o d
    BY <1>5 DEF d
  <2> HIDE DEF r
  <2>4. \A i \in 1 .. k : r[i] = f[i]
    <3> SUFFICES ASSUME NEW i \in 1 .. k PROVE r[i] = f[i]
      OBVIOUS
    <3>1. r[i] = IF i <= k - 1 THEN l[i] ELSE d[i - (k - 1)]
      BY <1>1, <2>1, <2>2, <2>3
    <3> QED
      BY <2>1, <3>1
  <2> QED
    BY <1>1, <2>1, <2>2, <2>3, <2>4
<1> HIDE DEF r
<1>7. r = [i \in 1 .. k |-> f[i]]
  BY <1>6
<1> QED
  BY <1>4, <1>7

\* The devices of the start enter one behind the other.
LEMMA PresetEntered ==
    ASSUME Devices!DeviceAssumption, Devices!PreConfigNode
    PROVE  edList' = [i \in 1 .. Len(Preset) |-> Devices!NewDevice(Preset[i], Devices!NoGw)]
<1> DEFINE N == Len(Preset)
           Entry == [i \in 1 .. N |-> Devices!NewDevice(Preset[i], Devices!NoGw)]
           Firsts(k) == [i \in 1 .. k |-> Entry[i]]
           Round(f, k) == IF k = 0 THEN edList
                         ELSE Devices!SortedToEnd(f[k - 1], Devices!NewDevice(Preset[k], Devices!NoGw))
           IsEnter(f) == f = [k \in 0 .. N |-> Round(f, k)]
           all == [k \in 0 .. N |-> Firsts(k)]
           enter == CHOOSE f : IsEnter(f)
<1>1. edList = << >> /\ N \in Nat /\ edList' = enter[N]
  BY DEF Devices!PreConfigNode, Devices!DeviceAssumption
<1>2. \A i \in 1 .. N : /\ Preset[i] \in Address /\ Preset[i] \in Nat
                        /\ \A k \in 1 .. N : i < k => Preset[i] < Preset[k]
  <2>1. Preset \in Seq(Address) /\ Address \subseteq Nat
    BY DEF Devices!DeviceAssumption
  <2>2. DOMAIN Preset = 1 .. N /\ \A i \in 1 .. N : Preset[i] \in Address
    BY <2>1
  <2> QED
    BY <2>1, <2>2 DEF Devices!DeviceAssumption
<1>3. Entry \in [1 .. N -> Dev] /\ \A i \in 1 .. N : Entry[i].address = Preset[i]
  BY <1>2 DEF Devices!NewDevice, Devices!NoGw, Devices!Gw, Dev
<1>4. ASSUME NEW k \in 1 .. N PROVE Devices!SortedToEnd(Firsts(k - 1), Entry[k]) = Firsts(k)
  <2> DEFINE f == Firsts(k)
  <2>1. f \in [1 .. k -> Dev] /\ \A i \in 1 .. k : f[i] = Entry[i]
    BY <1>1, <1>3
  <2>2. \A i \in 1 .. k - 1 : ~ (f[i].address > f[k].address)
    BY <1>1, <1>2, <1>3, <2>1
  <2>3. Firsts(k - 1) = [i \in 1 .. k - 1 |-> f[i]] /\ Firsts(k) = [i \in 1 .. k |-> f[i]]
    BY <1>1, <2>1
  <2>5. f[k] = Entry[k]
    <3> HIDE DEF Entry
    <3>1. k \in 1 .. k
      BY <1>1
    <3> QED
      BY <2>1, <3>1
  <2> HIDE DEF f
  <2>4. Devices!SortedToEnd([i \in 1 .. k - 1 |-> f[i]], f[k]) = [i \in 1 .. k |-> f[i]]
    BY <2>1, <2>2, LastInOrder
  <2> QED
    BY <2>3, <2>4, <2>5
<1>5. IsEnter(all)
  <2> HIDE DEF Entry
  <2>1. ASSUME NEW k \in 0 .. N PROVE Firsts(k) = Round(all, k)
    <3>1. CASE k = 0
      BY <1>1, <3>1
    <3>2. CASE k # 0
      <4>1. k \in 1 .. N /\ k - 1 \in 0 .. N
        BY <1>1, <3>2
      <4>2. all[k - 1] = Firsts(k - 1) /\ Devices!NewDevice(Preset[k], Devices!NoGw) = Entry[k]
        BY <4>1 DEF Entry
      <4> QED
        BY <1>4, <3>2, <4>1, <4>2
    <3> QED
      BY <3>1, <3>2
  <2> QED
    BY <2>1
<1>6. IsEnter(enter)
  <2> HIDE DEF IsEnter, all
  <2> QED
    BY <1>5
<1>7. enter[N] = Firsts(N)
  <2> DEFINE T == {k \in 0 .. N : enter[k] # Firsts(k)}
  <2> HIDE DEF enter, Entry
  <2>1. \A k \in 0 .. N : enter[k] = Round(enter, k)
    BY <1>6
  <2>2. T = {}
    <3> SUFFICES ASSUME T # {} PROVE FALSE
      OBVIOUS
    <3>1. T \in SUBSET Nat
      BY <1>1
    <3>2. PICK k \in T : \A n \in T : k <= n
      BY <3>1, Least
    <3>3. CASE k = 0
      BY <1>1, <2>1, <3>2, <3>3
    <3>4. CASE k # 0
      <4>1. k \in 1 .. N /\ k - 1 \in 0 .. N /\ k - 1 \notin T
        BY <1>1, <3>2, <3>4
      <4>2. enter[k - 1] = Firsts(k - 1) /\ Devices!NewDevice(Preset[k], Devices!NoGw) = Entry[k]
        BY <4>1 DEF Entry
      <4>3. enter[k] = Firsts(k)
        BY <1>4, <2>1, <3>4, <4>1, <4>2
      <4> QED
        BY <3>2, <4>3
    <3> QED
      BY <3>3, <3>4
  <2> QED
    BY <1>1, <2>2
<1> QED
  BY <1>1, <1>7

\* The start keeps the invariant: it enters each device once.
LEMMA PresetKeepsDevices ==
    ASSUME Devices!DeviceAssumption, DevicesInv, Devices!PreConfigNode
    PROVE  DevicesInv' /\ CarriedOver
<1>1. edList = << >> /\ UNCHANGED edUp
  BY DEF Devices!PreConfigNode
<1>2. /\ Len(Preset) \in Nat
      /\ \A i \in 1 .. Len(Preset) : Preset[i] \in Address /\ Preset[i] \in Nat
      /\ \A i, k \in 1 .. Len(Preset) : i < k => Preset[i] < Preset[k]
  <2>1. Preset \in Seq(Address) /\ Address \subseteq Nat
        /\ \A i, k \in DOMAIN Preset : i < k => Preset[i] < Preset[k]
    BY DEF Devices!DeviceAssumption
  <2>2. DOMAIN Preset = 1 .. Len(Preset) /\ Len(Preset) \in Nat
    BY <2>1
  <2>3. \A i \in 1 .. Len(Preset) : Preset[i] \in Address
    BY <2>1
  <2>4. \A i, k \in 1 .. Len(Preset) : i < k => Preset[i] < Preset[k]
    BY <2>1, <2>2, Zenon
  <2> QED
    BY <2>1, <2>2, <2>3, <2>4, Zenon
<1> DEFINE d(i) == Devices!NewDevice(Preset[i], Devices!NoGw)
<1>3. \A i \in 1 .. Len(Preset) : Routed(d(i), edUp) /\ d(i).address = Preset[i]
  BY <1>2 DEF Devices!NewDevice, Devices!NoGw, Devices!Gw, Routed, Dev
<1>4. edList' = [i \in 1 .. Len(Preset) |-> d(i)]
  BY PresetEntered
<1> HIDE DEF d
<1>5. \A i \in 1 .. Len(Preset) : d(i) \in Dev
  BY <1>3 DEF Routed
<1>6. edList' \in Seq(Dev) /\ Len(edList') = Len(Preset)
  BY <1>2, <1>4, <1>5
<1>7. \A i, k \in 1 .. Len(Preset) : Preset[i] = Preset[k] => i = k
  BY <1>2
<1>8. DevicesInv'
  BY <1>1, <1>3, <1>4, <1>6, <1>7 DEF DevicesInv
<1> QED
  BY <1>1, <1>8 DEF CarriedOver

\* Every step keeps the invariant, and each device unless the list is given up.
LEMMA NextKeepsDevices ==
    ASSUME Devices!DeviceAssumption, DevicesInv, [Devices!Next]_(Devices!vars)
    PROVE  DevicesInv' /\ (edList' # << >> => CarriedOver)
<1>1. ASSUME NEW a \in Address, NEW s \in GwSocket, NEW r \in Rssi,
             Devices!AddEndDeviceInfo(a, s, r) \/ Devices!RxEndDeviceInfoUpdate(a, s, r)
      PROVE  DevicesInv' /\ CarriedOver
  BY <1>1, JoinKeepsDevices, DataKeepsDevices
<1>2. ASSUME NEW s \in GwSocket, Devices!RemoveGateWayFromEndDevice(s)
      PROVE  DevicesInv' /\ CarriedOver
  BY <1>2, GoneKeepsDevices
<1>3. ASSUME UNCHANGED edList, edUp \subseteq edUp', edUp' \subseteq GwSocket
      PROVE  DevicesInv' /\ CarriedOver
  <2>1. \A i \in 1 .. Len(edList) : Routed(edList[i], edUp')
    BY <1>3 DEF DevicesInv, Routed
  <2> QED
    BY <1>3, <2>1, TwoAreReached DEF DevicesInv, CarriedOver
<1>4. ASSUME NEW s \in GwSocket, Devices!AddGateWay(s) PROVE DevicesInv' /\ CarriedOver
  BY <1>3, <1>4 DEF Devices!AddGateWay, DevicesInv
<1>5. CASE UNCHANGED Devices!vars
  BY <1>3, <1>5 DEF Devices!vars, DevicesInv
<1>6. CASE Devices!DeinitEndDeviceInfo
  BY <1>6 DEF Devices!DeinitEndDeviceInfo, DevicesInv
<1>7. CASE Devices!PreConfigNode
  BY <1>7, PresetKeepsDevices
<1> QED
  BY <1>1, <1>2, <1>4, <1>5, <1>6, <1>7
     DEF Devices!Next, Devices!Frames, Devices!Gateways

\* What is carried over is found again.
LEMMA CarriedIsFound ==
    ASSUME DevicesInv, DevicesInv', CarriedOver, NEW a, Devices!FindEndDevice(a) # 0
    PROVE  /\ Devices!FindEndDevice(a)' # 0
           /\ HasTwo(edList[Devices!FindEndDevice(a)]) => Devices!FindGWSocket(a)' \in edUp'
<1> DEFINE i == Devices!FindEndDevice(a)
           j == Devices!FindEndDevice(a)'
<1>1. edList \in Seq(Dev) /\ edList' \in Seq(Dev)
  BY DEF DevicesInv
<1>2. i \in 1 .. Len(edList) /\ edList[i].address = a
  BY <1>1, FoundWhere DEF Devices!FindEndDevice
<1>3. PICK k \in 1 .. Len(edList') :
        /\ edList'[k].address = a
        /\ HasTwo(edList[i]) => edList'[k].gw[1].socket \in edUp'
  BY <1>2 DEF CarriedOver
<1>4. j = Devices!Min0({n \in DOMAIN edList' : edList'[n].address = a})
  BY DEF Devices!FindEndDevice
<1>5. /\ j = 0 => \A n \in 1 .. Len(edList') : edList'[n].address # a
      /\ j # 0 => j \in 1 .. Len(edList') /\ edList'[j].address = a
  BY <1>1, <1>4, FoundWhere
<1>6. j # 0 /\ j = k
  BY <1>3, <1>5 DEF DevicesInv
<1>7. Devices!FindGWSocket(a)' = edList'[j].gw[1].socket
  BY <1>6 DEF Devices!FindGWSocket
<1> QED
  BY <1>3, <1>6, <1>7

-----------------------------------------------------------------------------
(* Downlink frames: all of them are routed and whole.                       *)
FramesInv == TypeOK /\ WrittenWhole

LEMMA FramesStart == Init => FramesInv
BY DownlinkAssumption DEF Init, FramesInv, TypeOK, WrittenWhole

LEMMA NextKeepsFrames == FramesInv /\ [Next]_vars => FramesInv'
<1> SUFFICES ASSUME FramesInv, [Next]_vars PROVE FramesInv'
  OBVIOUS
<1> USE DownlinkAssumption DEF FramesInv, TypeOK, status
<1>1. ASSUME NEW d \in Device, NEW size \in AppSize, NEW confirmed \in BOOLEAN,
             SendFrame(d, size, confirmed)
      PROVE  FramesInv'
  <2> DEFINE s == IF d \in known THEN route[d] ELSE -1
             frame == [type |-> IF confirmed THEN "Confirm_Data_Down" ELSE "Unconfirm_Data_Down",
                       to |-> s, device |-> d, count |-> FCntDown, turn |-> turns, ack |-> AckBit,
                       size |-> size, need |-> Full(size), sent |-> Stored(size)]
  <2>1. /\ written' = written \/ (s # -1 /\ written' = written \cup {frame})
        /\ UNCHANGED <<route, known, status>> /\ tries < MaxSent /\ tries' = tries + 1
        /\ FCntDown' = (FCntDown + 1) % Counter /\ turns' = turns + 1
    BY <1>1 DEF SendFrame, Advanced
  <2>2. s \in Socket \cup {-1}
    OBVIOUS
  <2>3. frame.need <= 255 => frame.sent = frame.need
    <3>1. Full(size) \in Nat
      BY DEF Full, Header, Code
    <3>2. Full(size) <= 255 => Full(size) % Index = Full(size)
      BY <3>1
    <3> QED
      BY <3>2 DEF Stored
  <2>4. frame.to = s
    OBVIOUS
  <2> HIDE DEF frame, s
  <2>5. FCntDown' \in 0 .. Counter - 1 /\ tries' \in 0 .. MaxSent /\ turns' \in 0 .. tries'
    BY <2>1
  <2>6. \A f \in written' : f.to \in Socket
    BY <2>1, <2>2, <2>4
  <2>7. WrittenWhole'
    BY <2>1, <2>3 DEF WrittenWhole
  <2> QED
    BY <2>1, <2>5, <2>6, <2>7
<1>2. ASSUME NEW d \in Device, NEW s \in Socket, Join(d, s) PROVE FramesInv'
  <2> DEFINE frame == [type |-> "Join_Accept", to |-> AnswerTo(d, s), device |-> d, count |-> -1,
                       turn |-> -1, ack |-> 0, size |-> 0,
                       need |-> 11 + JoinSize + 1, sent |-> JoinSize + TX_TUNNELING_OVERHEAD]
  <2>1. /\ written' = written \cup {frame}
        /\ known' = known \cup {d} /\ tries < MaxSent /\ tries' = tries + 1
        /\ UNCHANGED <<FCntDown, status, turns>>
        /\ route' = [route EXCEPT ![d] = IF d \in known THEN @ ELSE s]
    BY <1>2 DEF Join, SendJoinAcceptFrame
  <2>2. frame.to \in Socket /\ frame.sent = frame.need
    BY DEF AnswerTo, JoinSize, Code, TX_TUNNELING_OVERHEAD
  <2> HIDE DEF frame
  <2>3. route' \in [Device -> Socket \cup {-1}] /\ known' \subseteq Device
    BY <2>1
  <2>4. \A f \in written' : f.to \in Socket
    BY <2>1, <2>2
  <2>5. WrittenWhole'
    BY <2>1, <2>2 DEF WrittenWhole
  <2>6. tries' \in 0 .. MaxSent /\ turns' \in 0 .. tries'
    BY <2>1
  <2> QED
    BY <2>1, <2>3, <2>4, <2>5, <2>6
<1>3. ASSUME NEW d \in Device, NEW s \in Socket \cup {-1}, Reroute(d, s) PROVE FramesInv'
  BY <1>3 DEF Reroute, WrittenWhole
<1>4. CASE UNCHANGED vars
  BY <1>4 DEF vars, WrittenWhole
<1> QED
  BY <1>1, <1>2, <1>3, <1>4 DEF Next

\* A join is answered where it came from.
LEMMA JoinAnswered ==
    ASSUME NEW d, NEW s, Join(d, s)
    PROVE  \E f \in written' : f.type = "Join_Accept" /\ f.to = s /\ f.device = d
<1> DEFINE frame == [type |-> "Join_Accept", to |-> s, device |-> d, count |-> -1,
                     turn |-> -1, ack |-> 0, size |-> 0,
                     need |-> 11 + JoinSize + 1, sent |-> JoinSize + TX_TUNNELING_OVERHEAD]
<1>1. frame \in written'
  BY DEF Join, SendJoinAcceptFrame, AnswerTo
<1>2. frame.type = "Join_Accept" /\ frame.to = s /\ frame.device = d
  OBVIOUS
<1> QED
  BY <1>1, <1>2

\* After data the device is found with the stronger gateway first.
LEMMA DataGivesPrimary ==
    ASSUME Devices!DeviceAssumption, DevicesInv,
           NEW a \in Address, NEW s \in GwSocket, NEW r \in Rssi,
           Devices!RxEndDeviceInfoUpdate(a, s, r)
    PROVE  LET g == edList'[Devices!FindEndDevice(a)'].gw
           IN  g[2].socket # -1 => g[1].rssi >= g[2].rssi
<1> DEFINE j == Devices!FindEndDevice(a)'
<1>1. DevicesInv'
  BY DataKeepsDevices
<1>2. PICK k \in 1 .. Len(edList') :
        /\ edList'[k].address = a
        /\ edList'[k].gw[2].socket # -1 => edList'[k].gw[1].rssi >= edList'[k].gw[2].rssi
  BY DataKeepsDevices
<1>3. j = Devices!Min0({n \in DOMAIN edList' : edList'[n].address = a})
  BY DEF Devices!FindEndDevice
<1>4. /\ j = 0 => \A n \in 1 .. Len(edList') : edList'[n].address # a
      /\ j # 0 => j \in 1 .. Len(edList') /\ edList'[j].address = a
  BY <1>1, <1>3, FoundWhere DEF DevicesInv
<1>5. j = k
  BY <1>1, <1>2, <1>4 DEF DevicesInv
<1> QED
  BY <1>2, <1>5

\* The invariant is what the run checks.
LEMMA DevicesInvGives ==
    ASSUME Devices!DeviceAssumption, DevicesInv
    PROVE  Devices!TypeOK /\ Devices!NoStaleGateway
<1>1. edList \in Seq(Dev) /\ DOMAIN edList = 1 .. Len(edList)
  BY DEF DevicesInv
<1> QED
  BY <1>1 DEF DevicesInv, Devices!TypeOK, Devices!NoStaleGateway, Routed, Dev

\* Whatever gateways come and go, a device refers to connected gateways only
\* and not twice to one, is reached over the other when one of its two goes,
\* has the stronger one first after data, and is not lost; frames that fit are
\* whole and joins answered where they came from.  For any addresses, gateways,
\* signal strengths, devices of the start and sizes of payloads.
THEOREM DevicesAreRouted == BenchSpec => DevicesRouted
<1> DEFINE PartInv == /\ part = "frames" => FramesInv
                      /\ part = "devices" => DevicesInv
           bench == <<part, vars, edVars, glVars, lsVars, coVars>>
<1> USE PartsAssumption
<1>1. BenchInit => PartInv
  BY FramesStart DEF BenchInit, Devices!Init, DevicesInv
<1>2. ASSUME PartInv, [BenchNext]_bench
      PROVE  /\ PartInv'
             /\ [Devices!Next]_(Devices!vars)
             /\ UNCHANGED Devices!vars \/ part = "devices"
  <2>1. UNCHANGED part
    BY <1>2 DEF BenchNext
  <2>2. part = "frames" => [Next]_vars
    BY <1>2 DEF BenchNext
  <2>3. part = "devices" => [Devices!Next]_(Devices!vars)
    BY <1>2 DEF BenchNext, edVars, Devices!vars
  <2>4. UNCHANGED Devices!vars \/ part = "devices"
    BY <1>2 DEF BenchNext, edVars, Devices!vars
  <2>5. PartInv'
    BY <1>2, <2>1, <2>2, <2>3, NextKeepsFrames, NextKeepsDevices
  <2> QED
    BY <2>3, <2>4, <2>5
<1>3. ASSUME PartInv, [BenchNext]_bench, ~ UNCHANGED Devices!vars
      PROVE  /\ DevicesInv /\ DevicesInv' /\ (edList' # << >> => CarriedOver)
  <2>1. part = "devices" /\ [Devices!Next]_(Devices!vars)
    BY <1>2, <1>3
  <2> QED
    BY <1>3, <2>1, NextKeepsDevices
<1>4. PartInv => /\ part = "frames" => TypeOK /\ WrittenWhole
                 /\ part = "devices" => Devices!TypeOK /\ Devices!NoStaleGateway
  BY DevicesInvGives DEF FramesInv
<1>5. \A d \in Device, s \in Socket :
         Join(d, s) => \E f \in written' : f.type = "Join_Accept" /\ f.to = s /\ f.device = d
  BY JoinAnswered
<1>6. PartInv /\ [BenchNext]_bench =>
        [\A a \in Address :
            (/\ edList' # << >> /\ Devices!FindEndDevice(a) # 0
             /\ \A k \in 1 .. 2 : edList[Devices!FindEndDevice(a)].gw[k].socket # -1)
               => Devices!FindGWSocket(a)' \in edUp']_(Devices!vars)
  BY <1>3, CarriedIsFound DEF HasTwo
<1>7. PartInv /\ [BenchNext]_bench =>
        [\A a \in Address : (edList' # << >> /\ Devices!FindEndDevice(a) # 0)
               => Devices!FindEndDevice(a)' # 0]_(Devices!vars)
  BY <1>3, CarriedIsFound
<1>8. PartInv /\ [BenchNext]_bench =>
        [\A a \in Address, s \in GwSocket, r \in Rssi :
            (Devices!RxEndDeviceInfoUpdate(a, s, r) /\ edList' # edList)
               => LET g == edList'[Devices!FindEndDevice(a)'].gw
                  IN  g[2].socket # -1 => g[1].rssi >= g[2].rssi]_(Devices!vars)
  BY <1>3, DataGivesPrimary
<1> HIDE DEF PartInv
<1> QED
  BY <1>1, <1>2, <1>4, <1>5, <1>6, <1>7, <1>8, PTL
     DEF BenchSpec, DevicesRouted, AnsweredThere, Devices!Failover, Devices!PrimaryAfterData,
         Devices!NoneLost
=============================================================================
