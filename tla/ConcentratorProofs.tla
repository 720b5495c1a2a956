------------------------- MODULE ConcentratorProofs -------------------------
(***************************************************************************)
(* Theorems about the concentrator library.  Register access, for any      *)
(* table of registers, any number of pages and any failed transactions;    *)
(* that the link is sound needs that a device opens again, without it      *)
(* PointerMeansOpen of LgwReg is violated.  Listen before talk, for any    *)
(* counter, channels and packets.  Configuration and start, for any        *)
(* requests and any gain table, of a program that follows the rules of the *)
(* library.  GPS time, for any clocks and any sentences.  The last three   *)
(* are of the parts as MCConcentrator composes them.                       *)
(***************************************************************************)
EXTENDS MCConcentrator, WellFoundedInduction, SequenceTheorems, TLAPS

-----------------------------------------------------------------------------
(* The selected page.                                                       *)

\* The cached page, once there is one, is the chip's or a write of the page
\* has just failed unnoticed, also between a disconnect and the next connect.
PageInv == regpage >= 0 => regpage = chipPage \/ stale

\* A page switch selects the same page on both sides, or leaves it stale.
LEMMA SwitchKeepsPage ==
    ASSUME PageInv, NEW n, NEW ok, page_switch(n, ok)
    PROVE  PageInv'
<1>1. CASE n \in Regs /\ Loregs[n].page # -1 /\ Loregs[n].page # regpage
  <2>1. stale' = ~ ok /\ regpage' = Loregs[n].page
    BY <1>1 DEF page_switch
  <2>2. ok => chipPage' = Loregs[n].page
    BY <1>1 DEF page_switch
  <2> QED
    BY <2>1, <2>2 DEF PageInv
<1>2. CASE ~ (n \in Regs /\ Loregs[n].page # -1 /\ Loregs[n].page # regpage)
  BY <1>2 DEF page_switch, PageInv
<1> QED
  BY <1>1, <1>2

\* Connecting either resets both pages or neither.
LEMMA ConnectKeepsPage ==
    ASSUME PageInv, NEW spiOnly, lgw_connect(spiOnly)
    PROVE  PageInv'
<1>1. \E set \in BOOLEAN :
         /\ chipPage' = IF set THEN 0 ELSE chipPage
         /\ regpage' = IF set THEN 0 ELSE regpage
         /\ stale' = (stale /\ ~ set)
  <2>1. PICK openOk, verOk, fpgaOk, chipOk, pageOk \in BOOLEAN :
           LET ready == (openOk /\ ~ spiOnly /\ verOk) /\ (fpgaOk \/ ~ HasFpga) /\ chipOk
           IN /\ chipPage' = IF ready /\ pageOk THEN 0 ELSE chipPage
              /\ regpage' = IF ready /\ pageOk THEN 0 ELSE regpage
              /\ stale' = (stale /\ ~ (ready /\ pageOk))
    BY DEF lgw_connect
  <2> DEFINE set == (openOk /\ ~ spiOnly /\ verOk) /\ (fpgaOk \/ ~ HasFpga) /\ chipOk /\ pageOk
  <2>2. set \in BOOLEAN
    OBVIOUS
  <2> QED
    BY <2>1, <2>2
<1>2. PICK set \in BOOLEAN :
         /\ chipPage' = IF set THEN 0 ELSE chipPage
         /\ regpage' = IF set THEN 0 ELSE regpage
         /\ stale' = (stale /\ ~ set)
  BY <1>1
<1>3. CASE set
  BY <1>2, <1>3 DEF PageInv
<1>4. CASE ~ set
  <2>1. stale => stale'
    BY <1>2, <1>4, Zenon
  <2> QED
    BY <1>2, <1>4, <2>1 DEF PageInv
<1> QED
  BY <1>3, <1>4

\* Every operation keeps the two pages in step.
LEMMA NextKeepsPage == PageInv /\ [Next]_vars => PageInv'
<1> SUFFICES ASSUME PageInv, [Next]_vars PROVE PageInv'
  OBVIOUS
<1>1. CASE \E spiOnly \in BOOLEAN : lgw_connect(spiOnly)
  BY <1>1, ConnectKeepsPage
<1>2. CASE lgw_disconnect
  BY <1>2 DEF lgw_disconnect, PageInv
<1>3. CASE lgw_soft_reset
  <2>1. PICK ok \in BOOLEAN : stale' = ~ ok /\ chipPage' = IF ok THEN 0 ELSE chipPage
    BY <1>3 DEF lgw_soft_reset
  <2>2. regpage' = 0
    BY <1>3 DEF lgw_soft_reset
  <2> QED
    BY <2>1, <2>2 DEF PageInv
<1>4. CASE \E n \in Registers, v \in Values : lgw_reg_w(n, v) \/ lgw_fpga_reg_w(n, v)
  <2>1. PICK n \in Registers, v \in Values : Write(n, v)
    BY <1>4 DEF lgw_reg_w, lgw_fpga_reg_w
  <2>2. \E ok \in BOOLEAN : page_switch(n, ok)
    BY <2>1 DEF Write
  <2> QED
    BY <2>2, SwitchKeepsPage
<1>5. CASE \E n \in Registers : lgw_reg_r(n) \/ lgw_fpga_reg_r(n)
  <2>1. PICK n \in Registers : Read(n)
    BY <1>5 DEF lgw_reg_r, lgw_fpga_reg_r
  <2>2. \E ok \in BOOLEAN : page_switch(n, ok)
    BY <2>1 DEF Read
  <2> QED
    BY <2>2, SwitchKeepsPage
<1>6. CASE \E n \in Registers, data \in Bursts :
             \/ lgw_reg_wb(n, data) \/ lgw_fpga_reg_wb(n, data)
             \/ lgw_reg_rb(n, Len(data)) \/ lgw_fpga_reg_rb(n, Len(data))
  <2>1. PICK n, size, okChunks : Burst(n, size, okChunks)
    BY <1>6 DEF lgw_reg_wb, lgw_reg_rb, lgw_fpga_reg_wb, lgw_fpga_reg_rb, BurstWrite, BurstRead
  <2>2. \E ok \in BOOLEAN : page_switch(n, ok)
    BY <2>1 DEF Burst
  <2> QED
    BY <2>2, SwitchKeepsPage
<1>7. CASE UNCHANGED vars
  BY <1>7 DEF vars, PageInv
<1> QED
  BY <1>1, <1>2, <1>3, <1>4, <1>5, <1>6, <1>7 DEF Next

(* Through any connects, resets, page switches and failed transactions, the *)
(* page the library believes selected is the chip's whenever registers can  *)
(* be accessed; the only exception is a page write whose failure was        *)
(* dropped, and the next one that goes through ends it.                     *)
THEOREM PageStaysInStep == Spec => []PageInStep
<1>1. Init => PageInv
  BY DEF Init, PageInv
<1>2. PageInv /\ [Next]_vars => PageInv'
  BY NextKeepsPage
<1>3. PageInv => PageInStep
  BY DEF PageInv, PageInStep, Connected
<1> QED
  BY <1>1, <1>2, <1>3, PTL DEF Spec

-----------------------------------------------------------------------------
(* The link.                                                                *)

\* A link that opens is the only one.
LEMMA OpenKeepsTarget ==
    ASSUME TargetOpen, fds \in Nat, NEW ok \in BOOLEAN, SpiOpen(ok), ok \/ target = "null"
    PROVE  TargetOpen' /\ fds' \in Nat
<1>1. CASE ok
  BY <1>1 DEF SpiOpen, lgw_spi_close, Link, TargetOpen
<1>2. CASE ~ ok
  BY <1>2 DEF SpiOpen, lgw_spi_close, Link, TargetOpen
<1> QED
  BY <1>1, <1>2

\* Every operation keeps the pointer and the descriptor together.
LEMMA NextKeepsTarget ==
    ~ OpenFaults /\ fds \in Nat /\ TargetOpen /\ [Next]_vars => fds' \in Nat /\ TargetOpen'
<1> SUFFICES ASSUME ~ OpenFaults, fds \in Nat, TargetOpen, [Next]_vars
             PROVE  fds' \in Nat /\ TargetOpen'
  OBVIOUS
<1>1. CASE \E spiOnly \in BOOLEAN : lgw_connect(spiOnly)
  <2>1. \E ok \in BOOLEAN : SpiOpen(ok) /\ (ok \/ target = "null")
    BY <1>1 DEF lgw_connect
  <2> QED
    BY <2>1, OpenKeepsTarget
<1>2. CASE lgw_disconnect
  BY <1>2 DEF lgw_disconnect, lgw_spi_close, Link, TargetOpen
<1>3. CASE UNCHANGED <<target, fds>>
  BY <1>3 DEF TargetOpen
<1>4. ~ (\E spiOnly \in BOOLEAN : lgw_connect(spiOnly)) /\ ~ lgw_disconnect
      => UNCHANGED <<target, fds>>
  BY DEF Next, vars, lgw_soft_reset, lgw_reg_w, lgw_fpga_reg_w, Write, lgw_reg_r,
         lgw_fpga_reg_r, Read, lgw_reg_wb, lgw_reg_rb, lgw_fpga_reg_wb, lgw_fpga_reg_rb,
         BurstWrite, BurstRead
<1> QED
  BY <1>1, <1>2, <1>3, <1>4

(* As long as the device opens again, the pointer to the link is NULL or    *)
(* that of the only open descriptor: none is lost by connecting twice, and  *)
(* none is used after it was closed.                                        *)
THEOREM LinkSound == ~ OpenFaults => (Spec => []TargetOpen)
<1> SUFFICES ASSUME ~ OpenFaults PROVE Spec => []TargetOpen
  OBVIOUS
<1> DEFINE LinkInv == fds \in Nat /\ TargetOpen
<1>1. Init => LinkInv
  BY DEF Init, TargetOpen
<1>2. LinkInv /\ [Next]_vars => LinkInv'
  BY NextKeepsTarget
<1>3. LinkInv => TargetOpen
  OBVIOUS
<1> HIDE DEF LinkInv
<1> QED
  BY <1>1, <1>2, <1>3, PTL DEF Spec

-----------------------------------------------------------------------------
(* Facts about numbers.                                                     *)

\* A set of natural numbers has a least element.
LEMMA Least ==
    ASSUME NEW T \in SUBSET Nat, T # {}
    PROVE  \E m \in T : \A n \in T : m <= n
<1>1. PICK m \in T : \A y \in T : ~ (<<y, m>> \in OpToRel(<, Nat))
  BY NatLessThanWellFounded, WFMin
<1>2. \A y \in T : ~ (y < m)
  BY <1>1 DEF OpToRel
<1> QED
  BY <1>2

\* Quotient and remainder.
LEMMA Euclid ==
    ASSUME NEW t \in Int, NEW m \in Nat \ {0}
    PROVE  t = m * (t \div m) + (t % m) /\ t \div m \in Int /\ t % m \in 0 .. m - 1
  OBVIOUS

\* How far a multiple is from zero.
LEMMA Multiple ==
    ASSUME NEW m \in Nat \ {0}, NEW q \in Int
    PROVE  /\ m * q \in Int
           /\ q >= 1 => m * q >= m
           /\ q >= 2 => m * q >= 2 * m
           /\ q <= -1 => m * q <= -m
           /\ q = 0 => m * q = 0
           /\ q = 1 => m * q = m
  OBVIOUS

\* The remainder is the only one.
LEMMA RemainderIs ==
    ASSUME NEW m \in Nat \ {0}, NEW q \in Int, NEW r \in 0 .. m - 1
    PROVE  (m * q + r) % m = r
<1>1. PICK u \in Int : u = (m * q + r) \div m
  BY Euclid
<1>2. PICK v \in 0 .. m - 1 : v = (m * q + r) % m
  BY Euclid
<1>3. m * q + r = m * u + v
  BY Euclid, <1>1, <1>2
<1>4. m * (q - u) = v - r
  BY <1>3
<1>5. q - u = 0
  <2>1. q - u \in Int
    OBVIOUS
  <2> QED
    BY <1>4, <2>1, Multiple
<1>6. v = r
  BY <1>4, <1>5
<1> QED
  BY <1>2, <1>6

\* A time as the FPGA keeps it: modulo the counter and cut to a whole number of
\* grains, which loses less than one.
LEMMA MaskIs ==
    ASSUME Grain \in Nat \ {0}, Wrap \in Nat \ {0}, Wrap % Grain = 0, NEW t \in Int
    PROVE  /\ Listen!Mask(t) \in 0 .. Wrap - 1
           /\ Listen!Mask(t) = t - (t % Grain) - Wrap * (t \div Wrap)
           /\ t % Grain \in 0 .. Grain - 1 /\ t \div Wrap \in Int
<1> DEFINE k == t \div Wrap
           s == t % Wrap
           h == Wrap \div Grain
           u == s \div Grain
           r == s % Grain
<1>1. t = Wrap * k + s /\ k \in Int /\ s \in 0 .. Wrap - 1
  BY Euclid
<1>2. s \in Int /\ s >= 0
  BY <1>1
<1>3. Wrap = Grain * h + (Wrap % Grain) /\ h \in Int
  <2>1. Wrap \in Int
    OBVIOUS
  <2> QED
    BY <2>1, Euclid
<1> HIDE DEF k, s
<1>4. s = Grain * u + r /\ u \in Int /\ r \in 0 .. Grain - 1
  BY <1>2, Euclid
<1> HIDE DEF h, u, r
<1>5. Wrap = Grain * h
  <2>1. Grain * h \in Int
    BY <1>3
  <2> QED
    BY <1>3, <2>1
<1>6. t = Grain * (h * k + u) + r /\ h * k + u \in Int
  <2>1. Wrap * k = Grain * (h * k) /\ h * k \in Int
    BY <1>1, <1>3, <1>5
  <2>2. Grain * (h * k + u) = Grain * (h * k) + Grain * u
    BY <1>4, <2>1
  <2>3. Grain * (h * k) \in Int /\ Grain * u \in Int
    BY <1>4, <2>1
  <2>4. h * k + u \in Int
    BY <1>4, <2>1
  <2>5. t = Grain * (h * k) + s
    BY <1>1, <2>1
  <2>6. t = Grain * (h * k) + (Grain * u + r)
    BY <1>4, <2>5
  <2>7. r \in Int
    BY <1>4
  <2> HIDE DEF k
  <2> QED
    BY <2>2, <2>3, <2>4, <2>6, <2>7
<1>7. t % Grain = r
  BY <1>4, <1>6, RemainderIs
<1>8. r <= s
  <2>1. u >= 0
    BY <1>2, <1>4, Multiple
  <2>2. Grain * u >= 0
    BY <1>4, <2>1
  <2> QED
    BY <1>4, <2>2
<1>9. Listen!Mask(t) = s - r
  BY <1>7 DEF Listen!Mask, s
<1>10. Wrap * k \in Int
  BY <1>1
<1>11. Listen!Mask(t) = t - r - Wrap * k
  BY <1>1, <1>4, <1>9, <1>10
<1>12. Listen!Mask(t) \in 0 .. Wrap - 1
  BY <1>1, <1>4, <1>8, <1>9
<1> QED
  BY <1>1, <1>4, <1>7, <1>11, <1>12 DEF k

\* The delay the library computes from two such times is short of the real one by
\* less than three grains, when that is less than a period: both cuts and the
\* comparison of the counters lose less than a grain each.
LEMMA DelayBounded ==
    ASSUME Grain \in Nat \ {0}, Wrap \in Nat \ {0}, Wrap % Grain = 0,
           NEW n \in Int, NEW a \in Nat, NEW l \in Nat, NEW d \in Nat, NEW max \in Nat,
           a + l + d < Wrap,
           Listen!Delta((n - a) % Wrap, Listen!Mask(Listen!Mask(n + l) + d)) < max
    PROVE  a + l + d < max + 3 * Grain
<1> DEFINE lbt == (n - a) % Wrap
           start == Listen!Mask(n + l)
           end == Listen!Mask(start + d)
           k1 == (n - a) \div Wrap
           k2 == (n + l) \div Wrap
           k3 == (start + d) \div Wrap
           r2 == (n + l) % Grain
           r3 == (start + d) % Grain
<1>9. Listen!Delta(lbt, end) < max
  OBVIOUS
<1>1. n - a = Wrap * k1 + lbt /\ k1 \in Int /\ lbt \in 0 .. Wrap - 1
  <2>1. n - a \in Int
    OBVIOUS
  <2> QED
    BY <2>1, Euclid
<1>2. /\ start \in 0 .. Wrap - 1 /\ start = (n + l) - r2 - Wrap * k2
      /\ r2 \in 0 .. Grain - 1 /\ k2 \in Int
  <2>1. n + l \in Int
    OBVIOUS
  <2> QED
    BY <2>1, MaskIs
<1> HIDE DEF start
<1>4. /\ end \in 0 .. Wrap - 1 /\ end = (start + d) - r3 - Wrap * k3
      /\ r3 \in 0 .. Grain - 1 /\ k3 \in Int
  <2>1. start + d \in Int
    BY <1>2
  <2> QED
    BY <2>1, MaskIs
<1> HIDE DEF lbt, end, k1, k2, k3, r2, r3
<1> DEFINE q == k2 + k3 - k1
           D == a + l + d - r2 - r3
<1>5. q \in Int /\ Wrap * q \in Int /\ D \in Int /\ start \in Int /\ end \in Int /\ lbt \in Int
  BY <1>1, <1>2, <1>4
<1>6. D = (end - lbt) + Wrap * q
  <2> DEFINE p1 == Wrap * k1
             p2 == Wrap * k2
             p3 == Wrap * k3
             p == Wrap * q
  <2>1. p = p2 + p3 - p1 /\ p \in Int /\ p1 \in Int /\ p2 \in Int /\ p3 \in Int
    BY <1>1, <1>2, <1>4
  <2>2. n - a = p1 + lbt /\ start = (n + l) - r2 - p2 /\ end = (start + d) - r3 - p3
    BY <1>1, <1>2, <1>4
  <2>3. r2 \in Int /\ r3 \in Int
    BY <1>2, <1>4
  <2> HIDE DEF p1, p2, p3, p
  <2>4. D = (end - lbt) + p
    BY <1>5, <2>1, <2>2, <2>3
  <2> QED
    BY <2>4 DEF p
<1>7. a + l + d <= D + 2 * Grain - 2
  BY <1>2, <1>4
<1>8. D < Wrap
  BY <1>2, <1>4
<1> HIDE DEF D, q
<1>10. CASE q <= -1
  <2>1. Wrap * q <= - Wrap
    BY <1>5, <1>10, Multiple
  <2>2. D < 0
    BY <1>1, <1>4, <1>5, <1>6, <2>1
  <2> QED
    BY <2>2, <1>5, <1>7
<1>11. CASE q = 0
  <2>1. D = end - lbt
    BY <1>11, <1>6, <1>1, <1>4
  <2>2. CASE lbt < end
    BY <1>1, <1>4, <1>5, <1>7, <1>9, <2>1, <2>2 DEF Listen!Delta
  <2>3. CASE ~ (lbt < end)
    <3>1. D <= 0
      BY <1>1, <1>4, <2>1, <2>3
    <3> QED
      BY <1>5, <1>7, <3>1
  <2> QED
    BY <2>2, <2>3
<1>12. CASE q = 1
  <2>1. D = (end - lbt) + Wrap
    BY <1>12, <1>6, <1>1, <1>4
  <2>2. CASE lbt < end
    BY <1>1, <1>4, <1>5, <1>8, <2>1, <2>2
  <2>3. CASE ~ (lbt < end)
    BY <1>1, <1>4, <1>5, <1>7, <1>9, <2>1, <2>3 DEF Listen!Delta
  <2> QED
    BY <2>2, <2>3
<1>13. CASE q >= 2
  <2>1. Wrap * q >= 2 * Wrap
    BY <1>5, <1>13, Multiple
  <2> QED
    BY <1>1, <1>4, <1>5, <1>6, <1>8, <2>1
<1> QED
  BY <1>5, <1>10, <1>11, <1>12, <1>13

-----------------------------------------------------------------------------
(* Listen before talk.                                                      *)

\* From the last time a channel was found free to the end of any packet is less
\* than a period of the counter: what passed before cannot be told by the library.
BelowPeriod ==
    \A lead \in Leads, duration \in Durations :
        MaxBusy + lead + TxStartDelay + duration < Wrap

Chan == [freq : Nat, scan : Nat]

LbtTypes ==
    /\ lbConf.enable \in BOOLEAN
    /\ lbConf.channels \in Seq(Chan) /\ Len(lbConf.channels) \in 0 .. ChannelNb
    /\ lbNow \in 0 .. Wrap - 1 /\ lbRequests \in 0 .. MaxRequests
    /\ DOMAIN lbFpga = Listen!Channels
    /\ \A c \in Listen!Channels : lbFpga[c].offset \in Nat
    /\ \A c \in DOMAIN lbAge : lbAge[c] \in 0 .. MaxBusy \cup {Nil}

\* What runs is what is configured.
LbtScans ==
    lbRunning => /\ lbConf.enable
                 /\ DOMAIN lbAge = DOMAIN lbConf.channels

\* The answer to a request is right about the channels as they are.
LbtInv ==
    /\ LbtTypes /\ LbtScans
    /\ Listen!FpgaAsConfigured /\ Listen!GrantedOnFreeChannel /\ Listen!OverrunBounded

\* What the assumption says, in parts.
LEMMA LbtConstants ==
    /\ ChannelNb \in Nat \ {0} /\ Grain \in Nat \ {0} /\ Wrap \in Nat \ {0}
    /\ Wrap % Grain = 0
    /\ StartFreq \in Nat /\ Margin \in Nat /\ MaxLong \in Nat /\ MaxShort \in Nat
    /\ MaxShort2 \in Nat /\ TxStartDelay \in Nat /\ MaxBusy \in Nat /\ MaxRequests \in Nat
    /\ Leads \subseteq Nat /\ Durations \subseteq Nat
    /\ Margin < MaxShort2 /\ MaxShort2 <= MaxShort /\ MaxShort <= MaxLong
<1>1. Listen!LbtAssumption
  BY PartsAssumption
<1> QED
  BY <1>1 DEF Listen!LbtAssumption

\* The longest time a packet may take after the channel was free is beyond the
\* margin, so that the difference does not wrap.
LEMMA MaxTimeIs ==
    ASSUME NEW c, NEW short \in {MaxShort, MaxShort2}
    PROVE  Listen!MaxTime(c, short) \in Nat /\ Margin < Listen!MaxTime(c, short)
BY LbtConstants DEF Listen!MaxTime

\* The first of a set is one of it.
LEMMA FirstIsOne ==
    ASSUME NEW S \in SUBSET Nat, S # {}
    PROVE  Listen!First(S) \in S
BY Least DEF Listen!First

\* A packet that has a channel has one, or two neighbours, that are configured.
LEMMA DecodedAreChannels ==
    ASSUME LbtTypes, NEW p, Listen!Decoded(p).first # 0
    PROVE  LET d == Listen!Decoded(p)
           IN  /\ d.first \in DOMAIN lbConf.channels /\ d.second \in DOMAIN lbConf.channels
               /\ p.bw = 125 => d.second = d.first
               /\ d.max \in Nat /\ Margin < d.max
<1> DEFINE d == Listen!Decoded(p)
           n == Len(lbConf.channels)
<1>1. n \in Nat /\ DOMAIN lbConf.channels = 1 .. n
  BY DEF LbtTypes
<1>2. Listen!Matching(p) \subseteq 1 .. n /\ Listen!Between(p) \subseteq 1 .. n - 1
  BY DEF Listen!Matching, Listen!Between
<1> HIDE DEF n, d
<1>3. CASE p.bw = 125 /\ Listen!Matching(p) # {}
  <2> DEFINE f == Listen!First(Listen!Matching(p))
  <2>1. d = [first |-> f, second |-> f, max |-> Listen!MaxTime(f, MaxShort)]
    BY <1>3, Zenon DEF d, Listen!Decoded
  <2>2. f \in 1 .. n
    <3>1. Listen!Matching(p) \in SUBSET Nat
      BY <1>1, <1>2
    <3> QED
      BY <1>2, <1>3, <3>1, FirstIsOne
  <2>3. Listen!MaxTime(f, MaxShort) \in Nat /\ Margin < Listen!MaxTime(f, MaxShort)
    BY MaxTimeIs
  <2> HIDE DEF f
  <2>4. d.first = f /\ d.second = f /\ d.max = Listen!MaxTime(f, MaxShort)
    BY <2>1, Zenon
  <2> QED
    BY <1>1, <2>2, <2>3, <2>4, Zenon DEF d
<1>4. CASE ~ (p.bw = 125 /\ Listen!Matching(p) # {}) /\ p.bw = 250 /\ Listen!Between(p) # {}
  <2> DEFINE f == Listen!First(Listen!Between(p))
  <2>1. d = [first |-> f, second |-> f + 1, max |-> Listen!MaxTime(f, MaxShort2)]
    BY <1>4, Zenon DEF d, Listen!Decoded
  <2>2. f \in 1 .. n /\ f + 1 \in 1 .. n
    <3>1. Listen!Between(p) \in SUBSET Nat
      BY <1>1, <1>2
    <3>2. f \in 1 .. n - 1
      BY <1>2, <1>4, <3>1, FirstIsOne
    <3> QED
      BY <1>1, <3>2
  <2>3. Listen!MaxTime(f, MaxShort2) \in Nat /\ Margin < Listen!MaxTime(f, MaxShort2)
    BY MaxTimeIs
  <2> HIDE DEF f
  <2>4. d.first = f /\ d.second = f + 1 /\ d.max = Listen!MaxTime(f, MaxShort2)
    BY <2>1, Zenon
  <2>5. p.bw # 125
    BY <1>4
  <2> QED
    BY <1>1, <2>2, <2>3, <2>4, <2>5, Zenon DEF d
<1>5. CASE ~ (p.bw = 125 /\ Listen!Matching(p) # {}) /\ ~ (p.bw = 250 /\ Listen!Between(p) # {})
  <2>1. d = [first |-> 0, second |-> 0, max |-> 0]
    BY <1>5, Zenon DEF d, Listen!Decoded
  <2>2. d.first = 0
    BY <2>1, Zenon
  <2> QED
    BY <2>2 DEF d
<1> QED
  BY <1>3, <1>4, <1>5, Zenon

\* What is granted is granted on a channel that was free, and not for long.
LEMMA GrantedIsRight ==
    ASSUME LbtTypes, LbtScans, lbRunning, BelowPeriod, NEW p \in Listen!Pkts,
           Listen!lbt_is_channel_free(p) = "free"
    PROVE  LET d == Listen!Decoded(p)
           IN  /\ d.first \in DOMAIN lbAge
               /\ lbAge[d.first] # Nil \/ lbAge[d.second] # Nil
               /\ p.bw = 125 =>
                    lbAge[d.first] + p.lead + p.duration < d.max - Margin + 3 * Grain
<1> DEFINE d == Listen!Decoded(p)
           lbt == Listen!LbtTime(d)
           s == IF p.mode = "ON_GPS" THEN TxStartDelay ELSE 0
<1>1. Listen!Allowed(p)
  BY DEF Listen!lbt_is_channel_free, LbtScans
<1>2. lbt # 0
  BY <1>1 DEF Listen!Allowed
<1>3. d.first # 0
  BY <1>2 DEF Listen!LbtTime
<1>4. /\ d.first \in DOMAIN lbAge /\ d.second \in DOMAIN lbAge
      /\ p.bw = 125 => d.second = d.first
      /\ d.max \in Nat /\ Margin < d.max /\ d.max # 0
  <2>1. Margin \in Nat
    BY LbtConstants
  <2>2. /\ d.first \in DOMAIN lbConf.channels /\ d.second \in DOMAIN lbConf.channels
        /\ p.bw = 125 => d.second = d.first
        /\ d.max \in Nat /\ Margin < d.max
    BY <1>3, DecodedAreChannels
  <2> QED
    BY <2>1, <2>2 DEF LbtScans
<1>5. lbAge[d.first] # Nil \/ lbAge[d.second] # Nil
  BY <1>2, <1>3 DEF Listen!LbtTime, Listen!Stamp
<1>6. ASSUME p.bw = 125
      PROVE  lbAge[d.first] + p.lead + p.duration < d.max - Margin + 3 * Grain
  <2> DEFINE a == lbAge[d.first]
             l == p.lead + s
             m == d.max - Margin
  <2>1. lbt = Listen!Stamp(d.first) /\ a # Nil
    BY <1>3, <1>4, <1>5, <1>6 DEF Listen!LbtTime
  <2>2. a \in 0 .. MaxBusy /\ lbt = (lbNow - a) % Wrap
    BY <1>4, <2>1 DEF LbtTypes, Listen!Stamp
  <2>3. p.lead \in Leads /\ p.duration \in Durations
    BY DEF Listen!Pkts
  <2>4. /\ p.lead \in Nat /\ p.duration \in Nat /\ s \in Nat /\ s <= TxStartDelay
        /\ lbNow \in Int /\ MaxBusy \in Nat /\ TxStartDelay \in Nat
    BY <2>3, LbtConstants DEF LbtTypes
  <2>5. Listen!Delta(lbt, Listen!Mask(Listen!TxStart(p) + p.duration)) < m
    BY <1>1, <1>4 DEF Listen!Allowed
  <2>6. Listen!TxStart(p) = Listen!Mask(lbNow + l)
    <3>1. lbNow + p.lead + s = lbNow + l
      BY <2>4
    <3> QED
      BY <3>1 DEF Listen!TxStart
  <2>7. Listen!Delta((lbNow - a) % Wrap, Listen!Mask(Listen!Mask(lbNow + l) + p.duration)) < m
    BY <2>2, <2>5, <2>6
  <2>8. /\ MaxBusy + p.lead + TxStartDelay + p.duration < Wrap
        /\ Wrap \in Nat \ {0} /\ Grain \in Nat \ {0} /\ Wrap % Grain = 0
    BY <2>3, LbtConstants DEF BelowPeriod
  <2>9. a \in Nat /\ l \in Nat /\ m \in Nat /\ a + l + p.duration < Wrap
    <3>1. Margin \in Nat
      BY LbtConstants
    <3> QED
      BY <1>4, <2>2, <2>4, <2>8, <3>1
  <2> HIDE DEF a, l, m, s
  <2>10. a + l + p.duration < m + 3 * Grain
    BY <2>4, <2>7, <2>8, <2>9, DelayBounded
  <2> QED
    BY <1>4, <2>2, <2>4, <2>8, <2>9, <2>10 DEF a, l, m, s
<1> QED
  BY <1>4, <1>5, <1>6

\* The invariant holds at the start.
LEMMA LbtStarts == Listen!Init => LbtInv
<1> SUFFICES ASSUME Listen!Init PROVE LbtInv
  OBVIOUS
<1>1. /\ lbConf.enable = FALSE /\ lbConf.channels = << >> /\ lbFpga = Listen!Reset
      /\ lbRunning = FALSE /\ lbNow = 0 /\ lbAge = << >> /\ lbVerdict = Nil /\ lbRequests = 0
  BY DEF Listen!Init
<1>2. LbtTypes
  <2>1. lbConf.channels \in Seq(Chan) /\ Len(lbConf.channels) = 0 /\ DOMAIN lbAge = {}
    BY <1>1
  <2>2. 0 \in 0 .. ChannelNb /\ 0 \in 0 .. Wrap - 1 /\ 0 \in 0 .. MaxRequests
    BY LbtConstants
  <2>3. DOMAIN lbFpga = Listen!Channels /\ \A c \in Listen!Channels : lbFpga[c].offset \in Nat
    BY <1>1 DEF Listen!Reset
  <2> QED
    BY <1>1, <2>1, <2>2, <2>3 DEF LbtTypes
<1> QED
  BY <1>1, <1>2 DEF LbtInv, LbtScans, Listen!FpgaAsConfigured,
     Listen!GrantedOnFreeChannel, Listen!OverrunBounded, Listen!Granted

\* A configuration is stored while nothing runs.
LEMMA SetconfKeepsLbt ==
    ASSUME LbtInv, NEW c \in LbtConfigs, Listen!lbt_setconf(c)
    PROVE  LbtInv'
<1>1. /\ ~ lbRunning /\ lbRunning' = lbRunning /\ lbFpga' = lbFpga /\ lbNow' = lbNow
      /\ lbAge' = lbAge /\ lbVerdict' = lbVerdict /\ lbRequests' = lbRequests
      /\ lbConf' = IF Len(c.channels) \in 1 .. ChannelNb THEN c ELSE lbConf
  BY DEF Listen!lbt_setconf
<1>2. c.enable \in BOOLEAN /\ c.channels \in Seq(Chan)
  <2>1. Listen!LbtAssumption
    BY PartsAssumption
  <2> QED
    BY <2>1 DEF Listen!LbtAssumption, Chan
<1>3. /\ lbConf'.enable \in BOOLEAN /\ lbConf'.channels \in Seq(Chan)
      /\ Len(lbConf'.channels) \in 0 .. ChannelNb
  <2>1. CASE Len(c.channels) \in 1 .. ChannelNb
    BY <1>1, <1>2, <2>1, LbtConstants
  <2>2. CASE ~ (Len(c.channels) \in 1 .. ChannelNb)
    BY <1>1, <2>2 DEF LbtInv, LbtTypes
  <2> QED
    BY <2>1, <2>2
<1>4. LbtTypes'
  BY <1>1, <1>3 DEF LbtInv, LbtTypes, Listen!Channels
<1> QED
  BY <1>1, <1>4 DEF LbtInv, LbtScans, Listen!FpgaAsConfigured,
     Listen!GrantedOnFreeChannel, Listen!OverrunBounded, Listen!Granted, Listen!Used

\* A start writes offsets and scan times of the configured channels.
LEMMA StartKeepsLbt ==
    ASSUME LbtInv, Listen!Start
    PROVE  LbtInv'
<1>1. /\ lbConf.enable /\ lbFpga' = Listen!Registers /\ lbRunning' = TRUE
      /\ lbAge' = [c \in DOMAIN lbConf.channels |-> Nil] /\ lbVerdict' = Nil
      /\ lbConf' = lbConf /\ lbNow' = lbNow /\ lbRequests' = lbRequests
      /\ \A c \in DOMAIN lbConf.channels : Listen!SetupOk(lbConf.channels[c])
  BY DEF Listen!Start, Listen!lbt_setup, Listen!lbt_start
<1>2. ASSUME NEW c \in DOMAIN lbConf.channels
      PROVE  /\ c \in Listen!Channels
             /\ lbConf.channels[c].freq \in Nat /\ lbConf.channels[c].freq >= StartFreq
             /\ lbConf.channels[c].scan \in {128, 5000}
  <2>1. c \in 1 .. Len(lbConf.channels) /\ lbConf.channels[c] \in Chan
        /\ Len(lbConf.channels) \in 0 .. ChannelNb
    BY DEF LbtInv, LbtTypes
  <2> QED
    BY <1>1, <2>1, LbtConstants DEF Listen!SetupOk, Listen!Channels, Chan
<1>3. ASSUME NEW c \in Listen!Channels
      PROVE  /\ lbFpga'[c].offset = (Listen!Wanted(c).freq - StartFreq) \div 100000
             /\ lbFpga'[c].scan = IF Listen!Wanted(c).scan = 5000 THEN 5000 ELSE 128
  BY <1>1 DEF Listen!Registers, Listen!Reset
<1>4. ASSUME NEW c \in Listen!Channels
      PROVE  lbFpga'[c].offset \in Nat
  <2>1. Listen!Wanted(c).freq \in Nat /\ Listen!Wanted(c).freq >= StartFreq
    BY <1>2, LbtConstants DEF Listen!Wanted
  <2> QED
    BY <1>3, <2>1, LbtConstants
<1>5. DOMAIN lbFpga' = Listen!Channels
  BY <1>1 DEF Listen!Registers
<1>6. LbtTypes'
  BY <1>1, <1>4, <1>5 DEF LbtInv, LbtTypes, Listen!Channels
<1>7. LbtScans'
  BY <1>1 DEF LbtScans
<1>8. Listen!FpgaAsConfigured'
  <2> SUFFICES ASSUME NEW c \in DOMAIN lbConf.channels
               PROVE  /\ lbFpga'[c].scan = lbConf.channels[c].scan
                      /\ StartFreq + 100000 * lbFpga'[c].offset
                           \in lbConf.channels[c].freq - 99999 .. lbConf.channels[c].freq
    BY <1>1 DEF Listen!FpgaAsConfigured
  <2>1. /\ lbFpga'[c].offset = (lbConf.channels[c].freq - StartFreq) \div 100000
        /\ lbFpga'[c].scan = IF lbConf.channels[c].scan = 5000 THEN 5000 ELSE 128
    BY <1>2, <1>3 DEF Listen!Wanted
  <2>2. lbFpga'[c].scan = lbConf.channels[c].scan
    BY <1>2, <2>1
  <2>3. StartFreq + 100000 * lbFpga'[c].offset
          \in lbConf.channels[c].freq - 99999 .. lbConf.channels[c].freq
    BY <1>2, <2>1, LbtConstants
  <2> QED
    BY <2>2, <2>3
<1> QED
  BY <1>1, <1>6, <1>7, <1>8 DEF LbtInv, Listen!GrantedOnFreeChannel, Listen!OverrunBounded,
     Listen!Granted

\* A scan resets or counts up the ages, below their bound, and an answer is of
\* one unit of time.
LEMMA ScanKeepsLbt ==
    ASSUME LbtInv, NEW free \in SUBSET DOMAIN lbAge, Listen!Scan(free)
    PROVE  LbtInv'
<1>1. /\ lbRunning /\ lbNow' = (lbNow + 1) % Wrap /\ lbVerdict' = Nil
      /\ \A c \in DOMAIN lbAge \ free : lbAge[c] # MaxBusy
      /\ lbAge' = [c \in DOMAIN lbAge |->
                     IF c \in free THEN 0 ELSE IF lbAge[c] = Nil THEN Nil ELSE lbAge[c] + 1]
      /\ lbConf' = lbConf /\ lbFpga' = lbFpga /\ lbRunning' = lbRunning
      /\ lbRequests' = lbRequests
  BY DEF Listen!Scan
<1>2. lbNow' \in 0 .. Wrap - 1
  <2>1. lbNow + 1 \in Int
    BY LbtConstants DEF LbtInv, LbtTypes
  <2> QED
    BY <1>1, <2>1, LbtConstants
<1>3. ASSUME NEW c \in DOMAIN lbAge'
      PROVE  lbAge'[c] \in 0 .. MaxBusy \cup {Nil}
  <2>1. c \in DOMAIN lbAge
    BY <1>1
  <2>2. lbAge[c] \in 0 .. MaxBusy \cup {Nil} /\ MaxBusy \in Nat
    BY <2>1, LbtConstants DEF LbtInv, LbtTypes
  <2>3. CASE c \in free
    BY <1>1, <2>1, <2>2, <2>3
  <2>4. CASE c \notin free /\ lbAge[c] = Nil
    BY <1>1, <2>1, <2>4
  <2>5. CASE c \notin free /\ lbAge[c] # Nil
    <3>1. lbAge'[c] = lbAge[c] + 1 /\ lbAge[c] # MaxBusy
      BY <1>1, <2>1, <2>5
    <3> QED
      BY <2>2, <2>5, <3>1
  <2> QED
    BY <2>3, <2>4, <2>5
<1>4. LbtTypes'
  BY <1>1, <1>2, <1>3 DEF LbtInv, LbtTypes, Listen!Channels
<1>5. LbtScans'
  BY <1>1 DEF LbtInv, LbtScans
<1> QED
  BY <1>1, <1>4, <1>5 DEF LbtInv, Listen!FpgaAsConfigured, Listen!GrantedOnFreeChannel,
     Listen!OverrunBounded, Listen!Granted

\* A request is answered from the channels as they are.
LEMMA RequestKeepsLbt ==
    ASSUME BelowPeriod, LbtInv, NEW p \in Listen!Pkts, Listen!Requested(p)
    PROVE  LbtInv'
<1>1. /\ lbRunning /\ lbRequests < MaxRequests /\ lbRequests' = lbRequests + 1
      /\ lbVerdict' = [pkt |-> p, answer |-> Listen!lbt_is_channel_free(p),
                       chan |-> Listen!Decoded(p)]
      /\ lbConf' = lbConf /\ lbFpga' = lbFpga /\ lbRunning' = lbRunning /\ lbNow' = lbNow
      /\ lbAge' = lbAge
  BY DEF Listen!Requested
<1>2. /\ lbVerdict'.pkt = p /\ lbVerdict'.answer = Listen!lbt_is_channel_free(p)
      /\ lbVerdict'.chan = Listen!Decoded(p)
  BY <1>1
<1>3. Listen!lbt_is_channel_free(p) = "free" =>
        LET d == Listen!Decoded(p)
        IN  /\ d.first \in DOMAIN lbAge
            /\ lbAge[d.first] # Nil \/ lbAge[d.second] # Nil
            /\ p.bw = 125 =>
                 lbAge[d.first] + p.lead + p.duration < d.max - Margin + 3 * Grain
  BY <1>1, GrantedIsRight DEF LbtInv
<1>4. Listen!GrantedOnFreeChannel'
  BY <1>1, <1>2, <1>3 DEF Listen!GrantedOnFreeChannel
<1>5. Listen!OverrunBounded'
  BY <1>1, <1>2, <1>3 DEF Listen!OverrunBounded, Listen!Granted, Listen!Used
<1>6. LbtTypes'
  BY <1>1, LbtConstants DEF LbtInv, LbtTypes, Listen!Channels
<1> QED
  BY <1>1, <1>4, <1>5, <1>6 DEF LbtInv, LbtScans, Listen!FpgaAsConfigured

\* Every step keeps the invariant.
LEMMA NextKeepsLbt == BelowPeriod /\ LbtInv /\ [Listen!Next]_(Listen!vars) => LbtInv'
<1> SUFFICES ASSUME BelowPeriod, LbtInv, [Listen!Next]_(Listen!vars) PROVE LbtInv'
  OBVIOUS
<1>1. CASE \E c \in LbtConfigs : Listen!lbt_setconf(c)
  BY <1>1, SetconfKeepsLbt
<1>2. CASE Listen!Start
  BY <1>2, StartKeepsLbt
<1>3. CASE Listen!Stop
  <2>1. DOMAIN << >> = {}
    OBVIOUS
  <2> QED
    BY <1>3, <2>1 DEF Listen!Stop, LbtInv, LbtTypes, LbtScans, Listen!FpgaAsConfigured,
       Listen!GrantedOnFreeChannel, Listen!OverrunBounded, Listen!Granted, Listen!Channels
<1>4. CASE \E free \in SUBSET DOMAIN lbAge : Listen!Scan(free)
  BY <1>4, ScanKeepsLbt
<1>5. CASE \E p \in Listen!Pkts : Listen!Requested(p)
  BY <1>5, RequestKeepsLbt
<1>6. CASE UNCHANGED Listen!vars
  BY <1>6 DEF Listen!vars, LbtInv, LbtTypes, LbtScans, Listen!FpgaAsConfigured,
     Listen!GrantedOnFreeChannel, Listen!OverrunBounded, Listen!Granted, Listen!Used,
     Listen!Channels
<1> QED
  BY <1>1, <1>2, <1>3, <1>4, <1>5, <1>6 DEF Listen!Next

(* Listen before talk, of the library's parts side by side: a packet is      *)
(* granted only on a channel that was found free since the start, it ends    *)
(* less than three grains after the maximal time, and the FPGA scans what    *)
(* was configured last (loragw_lbt.c:113-363).  Times are taken modulo the   *)
(* counter and cut to its grain, for any counter, grain, configurations and  *)
(* packets, as long as less than a period has passed.                        *)
THEOREM TalksOnlyWhenFree == BelowPeriod => (BenchSpec => []TalksWhenFree)
<1> SUFFICES ASSUME BelowPeriod PROVE BenchSpec => []TalksWhenFree
  OBVIOUS
<1> DEFINE PartInv == part = "lbt" => LbtInv
<1>1. BenchInit => PartInv
  BY LbtStarts DEF BenchInit
<1>2. PartInv /\ [BenchNext]_<<part, vars, haVars, lbVars, seVars, saVars, sbVars, gpVars>>
        => PartInv'
  <2> SUFFICES ASSUME PartInv, part' = "lbt",
                      [BenchNext]_<<part, vars, haVars, lbVars, seVars, saVars, sbVars, gpVars>>
               PROVE  LbtInv'
    OBVIOUS
  <2>1. part = "lbt"
    BY DEF BenchNext
  <2>2. [Listen!Next]_(Listen!vars)
    BY <2>1 DEF BenchNext, Listen!vars, lbVars
  <2> QED
    BY <2>1, <2>2, NextKeepsLbt
<1>3. PartInv => TalksWhenFree
  <2> SUFFICES ASSUME LbtInv PROVE Listen!TypeOK
    BY DEF LbtInv, TalksWhenFree
  <2> QED
    BY DEF LbtInv, LbtTypes, Listen!TypeOK
<1> HIDE DEF PartInv
<1> QED
  BY <1>1, <1>2, <1>3, PTL DEF BenchSpec

-----------------------------------------------------------------------------
(* Configuration and start.                                                 *)

RfConf == [enable : BOOLEAN, freq : Nat, type : Hal!RadioTypes, tx : BOOLEAN, notch : Nat]
IfConf == [enable : BOOLEAN, rf : RfChains, freq : Int]

HalTypes ==
    /\ haRf \in [RfChains -> RfConf]
    /\ \A c \in RfChains : haRf[c].tx => haRf[c].notch = 0 \/ Hal!NotchOk(haRf[c].notch)
    /\ haIfc \in [Hal!IfChains -> IfConf]
    /\ haLut \in [size : 1 .. LutMax, ent : [1 .. LutMax -> Hal!Gain]]
    /\ haStarted \in BOOLEAN
    /\ haPc \in {"idle", "radios", "lbt", "calibrate", "modems", "firmware", "gains", "end"}
    /\ DOMAIN haChip = {"connected", "radios", "modems", "lut", "fw", "agc", "runs"}

\* The radios that are switched on, and the words of the gain table.
Radios == [c \in RfChains |-> haRf[c].enable]
Words  == [i \in 1 .. haLut.size |-> Hal!LoadVal(haLut.ent[i])]

\* The gain table has been handed over up to some entry.
LoadedSoFar ==
    /\ haChip.lut \in Seq(Nat) /\ Len(haChip.lut) <= haLut.size
    /\ \A i \in 1 .. Len(haChip.lut) : haChip.lut[i] = Hal!LoadVal(haLut.ent[i])

\* What the chip has got before each step of lgw_start, and while it runs.
StartedSoFar ==
    /\ haPc # "idle" => ~ haStarted
    /\ haPc \in {"radios", "lbt", "calibrate", "modems", "firmware"} => haChip.lut = << >>
    /\ haPc \in {"lbt", "calibrate", "modems", "firmware", "gains", "end"} =>
         haChip.radios = Radios
    /\ haPc \in {"firmware", "gains", "end"} => haChip.modems = Hal!Modems
    /\ haPc \in {"gains", "end"} => LoadedSoFar
    /\ haPc = "end" => Len(haChip.lut) = haLut.size
    /\ haStarted => /\ haChip.runs /\ haChip.modems = Hal!Modems
                    /\ haChip.radios = Radios /\ haChip.lut = Words

HalInv == HalTypes /\ StartedSoFar /\ Hal!ModemsProgrammable

\* What the assumption says, in parts.
LEMMA HalConstants ==
    /\ RfChains = {0, 1} /\ StdChain # FskChain
    /\ MultiChains \cap {StdChain, FskChain} = {}
    /\ \A r \in RfConfs : r \in RfConf
    /\ \A r \in IfConfs : r.freq \in Int
    /\ \A g \in LutConfs : g \in Seq(Hal!Gain)
    /\ DefaultLut \in Seq(Hal!Gain) /\ Len(DefaultLut) \in 1 .. LutMax /\ LutMax \in Nat
<1>1. Hal!HalAssumption
  BY PartsAssumption
<1> QED
  BY <1>1 DEF Hal!HalAssumption, RfConf

\* A gain is one byte to the firmware.
LEMMA WordIsByte ==
    ASSUME NEW g \in Hal!Gain
    PROVE  Hal!LoadVal(g) \in Nat
<1>1. g.mix \in Nat /\ g.dac \in Nat /\ g.pa \in Nat
  BY DEF Hal!Gain
<1> QED
  BY <1>1 DEF Hal!LoadVal

\* The invariant holds at the start.
LEMMA HalStarts == Hal!Init => HalInv
<1> SUFFICES ASSUME Hal!Init PROVE HalInv
  OBVIOUS
<1>1. haRf \in [RfChains -> RfConf] /\ \A c \in RfChains : ~ haRf[c].tx
  <2> DEFINE off == [enable |-> FALSE, freq |-> 0, type |-> "none", tx |-> FALSE, notch |-> 0]
  <2>3. 0 \in Nat
    OBVIOUS
  <2>1. off \in RfConf /\ ~ off.tx
    <3>1. "none" \in Hal!RadioTypes
      BY DEF Hal!RadioTypes
    <3> QED
      BY <2>3, <3>1 DEF RfConf
  <2>2. haRf = [c \in RfChains |-> off]
    BY DEF Hal!Init
  <2> HIDE DEF off
  <2> QED
    BY <2>1, <2>2
<1>2. haIfc \in [Hal!IfChains -> IfConf] /\ \A c \in Hal!IfChains : ~ haIfc[c].enable
  BY HalConstants DEF Hal!Init, IfConf
<1>3. haLut \in [size : 1 .. LutMax, ent : [1 .. LutMax -> Hal!Gain]]
  <2> DEFINE e == [i \in 1 .. LutMax |->
                     IF i <= Len(DefaultLut) THEN DefaultLut[i] ELSE Hal!ZeroGain]
  <2>1. Hal!ZeroGain \in Hal!Gain
    BY DEF Hal!ZeroGain, Hal!Gain
  <2>2. \A i \in 1 .. LutMax : i <= Len(DefaultLut) => DefaultLut[i] \in Hal!Gain
    BY HalConstants
  <2>3. e \in [1 .. LutMax -> Hal!Gain]
    BY <2>1, <2>2
  <2>4. haLut = [size |-> Len(DefaultLut), ent |-> e]
    BY DEF Hal!Init
  <2> HIDE DEF e
  <2> QED
    BY <2>3, <2>4, HalConstants
<1>4. /\ haStarted = FALSE /\ haPc = "idle"
      /\ DOMAIN haChip = {"connected", "radios", "modems", "lut", "fw", "agc", "runs"}
  BY DEF Hal!Init, Hal!ChipOff
<1>5. Hal!ModemsProgrammable
  BY <1>2 DEF Hal!ModemsProgrammable, Hal!StdProgrammable, Hal!IfChains
<1>6. HalTypes
  BY <1>1, <1>2, <1>3, <1>4, Zenon DEF HalTypes
<1>7. StartedSoFar
  BY <1>4 DEF StartedSoFar
<1> QED
  BY <1>5, <1>6, <1>7 DEF HalInv

\* The calls that configure, of a concentrator that is stopped.
LEMMA RfKeepsHal ==
    ASSUME HalInv, NEW c \in RfChains, NEW r \in RfConfs, Hal!lgw_rxrf_setconf(c, r)
    PROVE  HalInv'
<1> DEFINE n == IF r.tx /\ ~ Hal!NotchOk(r.notch) THEN 0 ELSE r.notch
<1>1. /\ haPc = "idle" /\ ~ haStarted /\ haRf' = [haRf EXCEPT ![c] = [r EXCEPT !.notch = n]]
      /\ haIfc' = haIfc /\ haSfmask' = haSfmask /\ haStd' = haStd /\ haFsk' = haFsk
      /\ haLut' = haLut /\ haStarted' = haStarted /\ haPc' = haPc /\ haChip' = haChip
  BY DEF Hal!lgw_rxrf_setconf
<1>2. r \in RfConf
  BY HalConstants
<1>3. n \in Nat /\ (r.tx => n = 0 \/ Hal!NotchOk(n))
  BY <1>2 DEF RfConf
<1> HIDE DEF n
<1>4. [r EXCEPT !.notch = n] \in RfConf /\ [r EXCEPT !.notch = n].tx = r.tx
      /\ [r EXCEPT !.notch = n].notch = n
  BY <1>2, <1>3 DEF RfConf
<1>5. haRf' \in [RfChains -> RfConf]
  BY <1>1, <1>4 DEF HalInv, HalTypes
<1>6. \A k \in RfChains : haRf'[k].tx => haRf'[k].notch = 0 \/ Hal!NotchOk(haRf'[k].notch)
  BY <1>1, <1>3, <1>4 DEF HalInv, HalTypes
<1>7. HalTypes'
  BY <1>1, <1>5, <1>6 DEF HalInv, HalTypes, Hal!IfChains
<1> QED
  BY <1>1, <1>7 DEF HalInv, StartedSoFar, Hal!ModemsProgrammable, Hal!StdProgrammable

LEMMA IfKeepsHal ==
    ASSUME HalInv, NEW c \in Hal!IfChains, NEW r \in IfConfs, Hal!lgw_rxif_setconf(c, r)
    PROVE  HalInv'
<1>1. /\ haPc = "idle" /\ ~ haStarted /\ Hal!StoreIf(c, r)
      /\ haRf' = haRf /\ haLut' = haLut /\ haStarted' = haStarted /\ haPc' = haPc
      /\ haChip' = haChip
  BY DEF Hal!lgw_rxif_setconf
<1>2. CASE ~ r.enable
  <2>1. /\ haIfc' = [haIfc EXCEPT ![c].enable = FALSE, ![c].freq = 0]
        /\ haSfmask' = haSfmask /\ haStd' = haStd /\ haFsk' = haFsk
    BY <1>1, <1>2 DEF Hal!StoreIf
  <2>2. haIfc \in [Hal!IfChains -> IfConf]
    BY DEF HalInv, HalTypes
  <2> DEFINE old == haIfc[c]
             half == [old EXCEPT !.enable = FALSE]
             off == [half EXCEPT !.freq = 0]
  <2>3. haIfc' = [haIfc EXCEPT ![c] = off]
    BY <2>1, <2>2
  <2>4. old \in IfConf
    BY <2>2
  <2> HIDE DEF old
  <2>5. half \in IfConf /\ half.enable = FALSE
    BY <2>4 DEF IfConf
  <2> HIDE DEF half
  <2>6. off \in IfConf /\ off.enable = FALSE
    BY <2>5 DEF IfConf
  <2> HIDE DEF off
  <2>7. haIfc' \in [Hal!IfChains -> IfConf]
    BY <2>2, <2>3, <2>6
  <2>8. \A k \in Hal!IfChains : haIfc'[k].enable => haIfc[k].enable
    BY <2>2, <2>3, <2>6
  <2>9. Hal!ModemsProgrammable'
    BY <2>1, <2>8 DEF HalInv, Hal!ModemsProgrammable, Hal!StdProgrammable, Hal!IfChains
  <2>10. HalTypes'
    BY <1>1, <2>7 DEF HalInv, HalTypes, Hal!IfChains
  <2> QED
    BY <1>1, <2>9, <2>10 DEF HalInv, StartedSoFar
<1>3. CASE r.enable
  <2>1. /\ r.rf \in RfChains
        /\ Hal!StdSetconf(c, r) \/ Hal!MultiSetconf(c, r) \/ Hal!FskSetconf(c, r)
        /\ haIfc' = [haIfc EXCEPT ![c] = [enable |-> TRUE, rf |-> r.rf, freq |-> r.freq]]
    BY <1>1, <1>3 DEF Hal!StoreIf
  <2>2. haIfc \in [Hal!IfChains -> IfConf]
    BY DEF HalInv, HalTypes
  <2>3. [enable |-> TRUE, rf |-> r.rf, freq |-> r.freq] \in IfConf
    BY <2>1, HalConstants DEF IfConf
  <2>4. haIfc' \in [Hal!IfChains -> IfConf]
    BY <2>1, <2>2, <2>3
  <2>5. \A k \in Hal!IfChains : k # c => haIfc'[k] = haIfc[k]
    BY <2>1, <2>2
  <2>6. StdChain \in Hal!IfChains /\ FskChain \in Hal!IfChains
    BY DEF Hal!IfChains
  <2>7. Hal!StdProgrammable'
    <3>1. CASE c = StdChain
      <4>1. Hal!StdSetconf(c, r)
        BY <2>1, <3>1, HalConstants DEF Hal!MultiSetconf, Hal!FskSetconf
      <4>2. haStd'.bw \in Hal!LoraBws /\ haStd'.sf \in {{s} : s \in Hal!SFs}
        BY <4>1 DEF Hal!StdSetconf
      <4> QED
        BY <4>2 DEF Hal!StdProgrammable, Hal!LoraBws, Hal!SFs
    <3>2. CASE c # StdChain
      <4>1. haStd' = haStd
        BY <2>1, <3>2 DEF Hal!StdSetconf, Hal!MultiSetconf, Hal!FskSetconf
      <4> QED
        BY <2>5, <2>6, <3>2, <4>1 DEF HalInv, Hal!ModemsProgrammable, Hal!StdProgrammable,
           Hal!LoraBws, Hal!SFs
    <3> QED
      BY <3>1, <3>2
  <2>8. haIfc'[FskChain].enable => haFsk'.dr # 0
    <3>1. CASE c = FskChain
      <4>1. Hal!FskSetconf(c, r)
        BY <2>1, <3>1, HalConstants DEF Hal!MultiSetconf, Hal!StdSetconf
      <4>2. Hal!FskRate(haFsk'.dr)
        BY <4>1 DEF Hal!FskSetconf
      <4> QED
        BY <4>2 DEF Hal!FskRate
    <3>2. CASE c # FskChain
      <4>1. haFsk' = haFsk
        BY <2>1, <3>2 DEF Hal!StdSetconf, Hal!MultiSetconf, Hal!FskSetconf
      <4> QED
        BY <2>5, <2>6, <3>2, <4>1 DEF HalInv, Hal!ModemsProgrammable
    <3> QED
      BY <3>1, <3>2
  <2>9. HalTypes'
    BY <1>1, <2>4 DEF HalInv, HalTypes, Hal!IfChains
  <2> QED
    BY <1>1, <2>7, <2>8, <2>9 DEF HalInv, StartedSoFar, Hal!ModemsProgrammable
<1> QED
  BY <1>2, <1>3

LEMMA GainKeepsHal ==
    ASSUME ~ GainAtRun, HalInv, NEW g \in LutConfs, Hal!lgw_txgain_setconf(g)
    PROVE  HalInv'
<1>1. /\ haPc = "idle" /\ ~ haStarted /\ Len(g) \in 1 .. LutMax
      /\ haRf' = haRf /\ haIfc' = haIfc /\ haSfmask' = haSfmask /\ haStd' = haStd
      /\ haFsk' = haFsk /\ haStarted' = haStarted /\ haPc' = haPc /\ haChip' = haChip
  BY DEF Hal!lgw_txgain_setconf, Hal!conf, HalInv, HalTypes
<1>2. haLut' \in [size : 1 .. LutMax, ent : [1 .. LutMax -> Hal!Gain]]
  <2> DEFINE e == [i \in 1 .. LutMax |-> IF i <= Hal!Upto(g) THEN g[i] ELSE haLut.ent[i]]
  <2>1. haLut' = [size |-> Len(g), ent |-> e]
    BY DEF Hal!lgw_txgain_setconf
  <2>2. g \in Seq(Hal!Gain) /\ DOMAIN g = 1 .. Len(g) /\ Len(g) \in Nat
    BY HalConstants
  <2>3. Hal!Upto(g) \in Int /\ Hal!Upto(g) <= Len(g)
    <3>1. CASE Hal!Refused(g) = {}
      BY <2>2, <3>1 DEF Hal!Upto
    <3>2. CASE Hal!Refused(g) # {}
      <4>1. Hal!Refused(g) \in SUBSET Nat /\ Hal!Refused(g) \subseteq 1 .. Len(g)
        BY <2>2 DEF Hal!Refused
      <4>2. (CHOOSE i \in Hal!Refused(g) : \A j \in Hal!Refused(g) : i <= j) \in Hal!Refused(g)
        BY <3>2, <4>1, Least
      <4> QED
        BY <2>2, <3>2, <4>1, <4>2 DEF Hal!Upto
    <3> QED
      BY <3>1, <3>2
  <2>4. haLut.ent \in [1 .. LutMax -> Hal!Gain]
    BY DEF HalInv, HalTypes
  <2>5. \A i \in 1 .. LutMax : i <= Hal!Upto(g) => g[i] \in Hal!Gain
    BY <2>2, <2>3
  <2>6. e \in [1 .. LutMax -> Hal!Gain]
    BY <2>4, <2>5
  <2> HIDE DEF e
  <2> QED
    BY <1>1, <2>1, <2>6
<1>3. HalTypes'
  BY <1>1, <1>2 DEF HalInv, HalTypes, Hal!IfChains
<1> QED
  BY <1>1, <1>3 DEF HalInv, StartedSoFar, Hal!ModemsProgrammable, Hal!StdProgrammable,
     Hal!LoraBws, Hal!SFs

\* The steps of lgw_start.  None changes the configuration, so what is left to
\* show is what the chip has got; a step that fails ends the call.
LEMMA FailKeepsHal ==
    ASSUME HalInv, haPc # "idle", Hal!Fail, DOMAIN haChip' = DOMAIN haChip
    PROVE  HalInv'
<1>1. /\ haRf' = haRf /\ haIfc' = haIfc /\ haSfmask' = haSfmask /\ haStd' = haStd
      /\ haFsk' = haFsk /\ haLut' = haLut /\ haStarted' = haStarted /\ haPc' = "idle"
  BY DEF Hal!Fail, Hal!conf
<1>2. ~ haStarted
  BY DEF HalInv, StartedSoFar
<1>3. HalTypes'
  BY <1>1 DEF HalInv, HalTypes, Hal!IfChains
<1>4. StartedSoFar'
  BY <1>1, <1>2 DEF StartedSoFar
<1> QED
  BY <1>1, <1>3, <1>4 DEF HalInv, Hal!ModemsProgrammable, Hal!StdProgrammable, Hal!LoraBws,
     Hal!SFs

\* What a step that goes on leaves alone.
LEMMA GoKeeps ==
    ASSUME HalInv, NEW next \in {"radios", "lbt", "calibrate", "modems", "firmware", "gains", "end"},
           Hal!Go(next), DOMAIN haChip' = DOMAIN haChip
    PROVE  /\ haPc' = next /\ haLut' = haLut /\ haStarted' = haStarted
           /\ Hal!Modems' = Hal!Modems /\ Radios' = Radios
           /\ HalTypes' /\ Hal!ModemsProgrammable'
<1>1. /\ haRf' = haRf /\ haIfc' = haIfc /\ haSfmask' = haSfmask /\ haStd' = haStd
      /\ haFsk' = haFsk /\ haLut' = haLut /\ haStarted' = haStarted /\ haPc' = next
  BY DEF Hal!Go, Hal!conf
<1>2. HalTypes'
  BY <1>1 DEF HalInv, HalTypes, Hal!IfChains
<1>3. Hal!ModemsProgrammable'
  BY <1>1 DEF HalInv, Hal!ModemsProgrammable, Hal!StdProgrammable, Hal!LoraBws, Hal!SFs
<1>4. Hal!Modems' = Hal!Modems
  BY <1>1 DEF Hal!Modems, Hal!IfChains
<1> QED
  BY <1>1, <1>2, <1>3, <1>4 DEF Radios

LEMMA ConnectKeepsHal ==
    ASSUME ~ Restart, HalInv, Hal!StartConnect
    PROVE  HalInv'
<1>1. haPc = "idle" /\ ~ haStarted
  BY DEF Hal!StartConnect, HalInv, HalTypes
<1>2. CASE Hal!Go("radios") /\ haChip' = [Hal!ChipOff EXCEPT !.connected = TRUE]
  <2>1. DOMAIN haChip' = DOMAIN haChip /\ haChip'.lut = << >>
    BY <1>2 DEF Hal!ChipOff, HalInv, HalTypes
  <2>2. haPc' = "radios" /\ ~ haStarted' /\ HalTypes' /\ Hal!ModemsProgrammable'
    BY <1>1, <1>2, <2>1, GoKeeps
  <2> QED
    BY <2>1, <2>2 DEF HalInv, StartedSoFar
<1>3. CASE Hal!Fail /\ haChip' = [haChip EXCEPT !.connected = FALSE]
  <2>1. /\ haRf' = haRf /\ haIfc' = haIfc /\ haSfmask' = haSfmask /\ haStd' = haStd
        /\ haFsk' = haFsk /\ haLut' = haLut /\ haStarted' = haStarted /\ haPc' = "idle"
        /\ DOMAIN haChip' = DOMAIN haChip
    BY <1>3 DEF Hal!Fail, Hal!conf
  <2>2. HalTypes'
    BY <2>1 DEF HalInv, HalTypes, Hal!IfChains
  <2>3. StartedSoFar'
    BY <1>1, <2>1 DEF StartedSoFar
  <2> QED
    BY <2>1, <2>2, <2>3 DEF HalInv, Hal!ModemsProgrammable, Hal!StdProgrammable, Hal!LoraBws,
       Hal!SFs
<1> QED
  BY <1>2, <1>3 DEF Hal!StartConnect

LEMMA RadiosKeepHal ==
    ASSUME HalInv, Hal!StartRadios
    PROVE  HalInv'
<1>1. haPc = "radios" /\ haChip.lut = << >> /\ ~ haStarted
  BY DEF Hal!StartRadios, HalInv, StartedSoFar
<1> DEFINE next == IF Lbt THEN "lbt" ELSE "calibrate"
<1>2. CASE Hal!Go(next) /\ haChip' = [haChip EXCEPT !.radios = [c \in RfChains |-> haRf[c].enable]]
  <2>1. DOMAIN haChip' = DOMAIN haChip /\ haChip'.lut = << >> /\ haChip'.radios = Radios
    BY <1>1, <1>2 DEF Radios, HalInv, HalTypes
  <2>2. /\ haPc' = next /\ ~ haStarted' /\ Radios' = Radios
        /\ HalTypes' /\ Hal!ModemsProgrammable'
    BY <1>1, <1>2, <2>1, GoKeeps
  <2> QED
    BY <2>1, <2>2 DEF HalInv, StartedSoFar
<1>3. CASE Hal!Fail /\ UNCHANGED haChip
  BY <1>1, <1>3, FailKeepsHal
<1> QED
  BY <1>2, <1>3 DEF Hal!StartRadios

LEMMA LbtKeepsHal ==
    ASSUME HalInv, Hal!StartLbt
    PROVE  HalInv'
<1>1. /\ haPc = "lbt" /\ haChip.lut = << >> /\ haChip.radios = Radios /\ ~ haStarted
      /\ haChip' = haChip
  BY DEF Hal!StartLbt, HalInv, StartedSoFar
<1>2. CASE Hal!Go("calibrate")
  <2>1. /\ haPc' = "calibrate" /\ ~ haStarted' /\ Radios' = Radios
        /\ HalTypes' /\ Hal!ModemsProgrammable'
    BY <1>1, <1>2, GoKeeps
  <2> QED
    BY <1>1, <2>1 DEF HalInv, StartedSoFar
<1>3. CASE Hal!Fail
  BY <1>1, <1>3, FailKeepsHal
<1> QED
  BY <1>2, <1>3 DEF Hal!StartLbt

LEMMA CalibrateKeepsHal ==
    ASSUME HalInv, Hal!StartCalibrate
    PROVE  HalInv'
<1>1. /\ haPc = "calibrate" /\ haChip.lut = << >> /\ haChip.radios = Radios /\ ~ haStarted
      /\ \E program : haChip' = [haChip EXCEPT !.fw = program]
  BY DEF Hal!StartCalibrate, HalInv, StartedSoFar
<1>2. /\ DOMAIN haChip' = DOMAIN haChip /\ haChip'.lut = haChip.lut
      /\ haChip'.radios = haChip.radios
  BY <1>1 DEF HalInv, HalTypes
<1>3. CASE Hal!Go("modems")
  <2>1. /\ haPc' = "modems" /\ ~ haStarted' /\ Radios' = Radios
        /\ HalTypes' /\ Hal!ModemsProgrammable'
    BY <1>1, <1>2, <1>3, GoKeeps
  <2> QED
    BY <1>1, <1>2, <2>1 DEF HalInv, StartedSoFar
<1>4. CASE Hal!Fail
  BY <1>1, <1>2, <1>4, FailKeepsHal
<1> QED
  BY <1>3, <1>4 DEF Hal!StartCalibrate

LEMMA ModemsKeepHal ==
    ASSUME HalInv, Hal!StartModems
    PROVE  HalInv'
<1>1. haPc = "modems" /\ haChip.lut = << >> /\ haChip.radios = Radios /\ ~ haStarted
  BY DEF Hal!StartModems, HalInv, StartedSoFar
<1>2. CASE Hal!Go("firmware") /\ haChip' = [haChip EXCEPT !.modems = Hal!Modems]
  <2>1. /\ DOMAIN haChip' = DOMAIN haChip /\ haChip'.lut = haChip.lut
        /\ haChip'.radios = haChip.radios /\ haChip'.modems = Hal!Modems
    BY <1>2 DEF HalInv, HalTypes
  <2>2. /\ haPc' = "firmware" /\ ~ haStarted' /\ Radios' = Radios /\ Hal!Modems' = Hal!Modems
        /\ HalTypes' /\ Hal!ModemsProgrammable'
    BY <1>1, <1>2, <2>1, GoKeeps
  <2> QED
    BY <1>1, <2>1, <2>2 DEF HalInv, StartedSoFar
<1>3. CASE Hal!Fail /\ UNCHANGED haChip
  BY <1>1, <1>3, FailKeepsHal
<1> QED
  BY <1>2, <1>3 DEF Hal!StartModems

LEMMA FirmwareKeepsHal ==
    ASSUME HalInv, Hal!StartFirmware
    PROVE  HalInv'
<1>1. /\ haPc = "firmware" /\ haChip.lut = << >> /\ haChip.radios = Radios
      /\ haChip.modems = Hal!Modems /\ ~ haStarted
      /\ \E program : haChip' = [haChip EXCEPT !.fw = program, !.agc = "lut"]
  BY DEF Hal!StartFirmware, HalInv, StartedSoFar
<1>2. /\ DOMAIN haChip' = DOMAIN haChip /\ haChip'.lut = haChip.lut
      /\ haChip'.radios = haChip.radios /\ haChip'.modems = haChip.modems
  BY <1>1 DEF HalInv, HalTypes
<1>3. CASE Hal!Go("gains")
  <2>1. /\ haPc' = "gains" /\ ~ haStarted' /\ Radios' = Radios /\ Hal!Modems' = Hal!Modems
        /\ HalTypes' /\ Hal!ModemsProgrammable'
    BY <1>1, <1>2, <1>3, GoKeeps
  <2>2. LoadedSoFar'
    <3>1. haChip'.lut = << >> /\ haLut'.size \in 1 .. LutMax
      BY <1>1, <1>2, <2>1 DEF HalTypes
    <3>2. LutMax \in Nat
      BY HalConstants
    <3>3. << >> \in Seq(Nat) /\ Len(<< >>) = 0
      OBVIOUS
    <3>4. Len(haChip'.lut) = 0
      BY <3>1, <3>3
    <3> QED
      BY <3>1, <3>2, <3>3, <3>4 DEF LoadedSoFar
  <2> QED
    BY <1>1, <1>2, <2>1, <2>2 DEF HalInv, StartedSoFar
<1>4. CASE Hal!Fail
  BY <1>1, <1>2, <1>4, FailKeepsHal
<1> QED
  BY <1>3, <1>4 DEF Hal!StartFirmware


\* The gain table is handed over entry by entry.
LEMMA GainsKeepHal ==
    ASSUME HalInv, Hal!StartGains
    PROVE  HalInv'
<1> DEFINE i == Len(haChip.lut) + 1
           word == Hal!LoadVal(haLut.ent[i])
<1>1. /\ haPc = "gains" /\ haChip.radios = Radios /\ haChip.modems = Hal!Modems /\ ~ haStarted
      /\ LoadedSoFar /\ haLut \in [size : 1 .. LutMax, ent : [1 .. LutMax -> Hal!Gain]]
      /\ LutMax \in Nat
  BY HalConstants DEF Hal!StartGains, HalInv, StartedSoFar, HalTypes
<1>2. CASE /\ i <= haLut.size /\ Hal!Go("gains")
           /\ \E a : haChip' = [haChip EXCEPT !.lut = Append(haChip.lut, word), !.agc = a]
  <2>1. i \in 1 .. LutMax
    BY <1>1, <1>2 DEF LoadedSoFar
  <2>2. word \in Nat
    <3>1. haLut.ent[i] \in Hal!Gain
      BY <1>1, <2>1
    <3> QED
      BY <3>1, WordIsByte
  <2>3. /\ DOMAIN haChip' = DOMAIN haChip /\ haChip'.lut = Append(haChip.lut, word)
        /\ haChip'.radios = haChip.radios /\ haChip'.modems = haChip.modems
    BY <1>2 DEF HalInv, HalTypes
  <2>4. /\ haPc' = "gains" /\ ~ haStarted' /\ haLut' = haLut
        /\ Radios' = Radios /\ Hal!Modems' = Hal!Modems
        /\ HalTypes' /\ Hal!ModemsProgrammable'
    BY <1>1, <1>2, <2>3, GoKeeps
  <2>5. LoadedSoFar'
    <3>1. /\ haChip'.lut \in Seq(Nat) /\ Len(haChip'.lut) = i
          /\ \A k \in 1 .. Len(haChip.lut) : haChip'.lut[k] = haChip.lut[k]
          /\ haChip'.lut[i] = word
      <4> DEFINE s == haChip.lut
      <4>1. s \in Seq(Nat)
        BY <1>1 DEF LoadedSoFar
      <4> HIDE DEF s, word
      <4> QED
        BY <2>2, <2>3, <4>1 DEF s
    <3>2. \A k \in 1 .. i : haChip'.lut[k] = Hal!LoadVal(haLut.ent[k])
      <4> TAKE k \in 1 .. i
      <4>1. CASE k = i
        BY <3>1, <4>1
      <4>2. CASE k # i
        <5>1. Len(haChip.lut) \in Nat
          BY <1>1 DEF LoadedSoFar
        <5>2. k \in 1 .. Len(haChip.lut)
          BY <4>2, <5>1
        <5> QED
          BY <1>1, <3>1, <5>2 DEF LoadedSoFar
      <4> QED
        BY <4>1, <4>2
    <3> HIDE DEF i, word
    <3>3. \A k : Hal!LoadVal(haLut'.ent[k]) = Hal!LoadVal(haLut.ent[k])
      BY <2>4 DEF Hal!LoadVal
    <3> QED
      BY <1>2, <2>4, <3>1, <3>2, <3>3 DEF LoadedSoFar
  <2> QED
    BY <1>1, <2>3, <2>4, <2>5 DEF HalInv, StartedSoFar
<1>3. CASE i > haLut.size /\ haChip' = [haChip EXCEPT !.agc = "freq"] /\ Hal!Go("end")
  <2>1. /\ DOMAIN haChip' = DOMAIN haChip /\ haChip'.lut = haChip.lut
        /\ haChip'.radios = haChip.radios /\ haChip'.modems = haChip.modems
    BY <1>3 DEF HalInv, HalTypes
  <2>2. /\ haPc' = "end" /\ ~ haStarted' /\ haLut' = haLut
        /\ Radios' = Radios /\ Hal!Modems' = Hal!Modems
        /\ HalTypes' /\ Hal!ModemsProgrammable'
    BY <1>1, <1>3, <2>1, GoKeeps
  <2>3. LoadedSoFar'
    BY <1>1, <2>1, <2>2 DEF LoadedSoFar, Hal!LoadVal
  <2>4. Len(haChip'.lut) = haLut'.size
    <3>1. Len(haChip.lut) \in Nat /\ Len(haChip.lut) <= haLut.size /\ haLut.size \in Nat
      BY <1>1 DEF LoadedSoFar
    <3> QED
      BY <1>3, <2>1, <2>2, <3>1
  <2> QED
    BY <1>1, <2>1, <2>2, <2>3, <2>4 DEF HalInv, StartedSoFar
<1>4. CASE Hal!Fail /\ UNCHANGED haChip
  BY <1>1, <1>4, FailKeepsHal
<1> QED
  BY <1>2, <1>3, <1>4 DEF Hal!StartGains

\* At the end the table is the whole table, and the concentrator runs.
LEMMA EndKeepsHal ==
    ASSUME HalInv, Hal!StartEnd
    PROVE  HalInv'
<1>1. /\ haPc = "end" /\ haChip.radios = Radios /\ haChip.modems = Hal!Modems /\ ~ haStarted
      /\ LoadedSoFar /\ Len(haChip.lut) = haLut.size
  BY DEF Hal!StartEnd, HalInv, StartedSoFar
<1>2. CASE /\ haChip' = [haChip EXCEPT !.agc = "ready", !.runs = TRUE]
           /\ haStarted' = TRUE /\ haPc' = "idle" /\ UNCHANGED <<Hal!conf, haLut>>
  <2>1. /\ DOMAIN haChip' = DOMAIN haChip /\ haChip'.lut = haChip.lut
        /\ haChip'.radios = haChip.radios /\ haChip'.modems = haChip.modems
        /\ haChip'.runs = TRUE
    BY <1>2 DEF HalInv, HalTypes
  <2>2. /\ haRf' = haRf /\ haIfc' = haIfc /\ haSfmask' = haSfmask /\ haStd' = haStd
        /\ haFsk' = haFsk /\ haLut' = haLut /\ haStarted' = TRUE /\ haPc' = "idle"
    BY <1>2 DEF Hal!conf
  <2>3. HalTypes'
    BY <2>1, <2>2 DEF HalInv, HalTypes, Hal!IfChains
  <2>4. Hal!ModemsProgrammable'
    BY <2>2 DEF HalInv, Hal!ModemsProgrammable, Hal!StdProgrammable, Hal!LoraBws, Hal!SFs
  <2>5. Radios' = Radios /\ Hal!Modems' = Hal!Modems /\ Words' = Words
    BY <2>2 DEF Radios, Words, Hal!Modems, Hal!IfChains, Hal!LoadVal
  <2>6. haChip.lut = Words
    <3> DEFINE s == haChip.lut
               n == haLut.size
               W(k) == Hal!LoadVal(haLut.ent[k])
    <3>1. s \in Seq(Nat) /\ Len(s) = n /\ \A k \in 1 .. n : s[k] = W(k)
      BY <1>1 DEF LoadedSoFar
    <3> HIDE DEF s, n, W
    <3>2. s = [k \in 1 .. n |-> W(k)]
      BY <3>1
    <3> QED
      BY <3>2 DEF s, n, W, Words
  <2> QED
    BY <1>1, <2>1, <2>2, <2>3, <2>4, <2>5, <2>6 DEF HalInv, StartedSoFar
<1>3. CASE Hal!Fail /\ UNCHANGED haChip
  BY <1>1, <1>3, FailKeepsHal
<1> QED
  BY <1>2, <1>3 DEF Hal!StartEnd

LEMMA StopKeepsHal ==
    ASSUME HalInv, Hal!lgw_stop
    PROVE  HalInv'
<1>1. /\ haPc = "idle" /\ haPc' = haPc /\ haStarted' = FALSE
      /\ DOMAIN haChip' = {"connected", "radios", "modems", "lut", "fw", "agc", "runs"}
      /\ haRf' = haRf /\ haIfc' = haIfc /\ haSfmask' = haSfmask /\ haStd' = haStd
      /\ haFsk' = haFsk /\ haLut' = haLut
  BY DEF Hal!lgw_stop, Hal!conf, Hal!ChipOff
<1>2. HalTypes'
  BY <1>1 DEF HalInv, HalTypes, Hal!IfChains
<1>3. StartedSoFar'
  BY <1>1 DEF StartedSoFar
<1> QED
  BY <1>1, <1>2, <1>3 DEF HalInv, Hal!ModemsProgrammable, Hal!StdProgrammable, Hal!LoraBws,
     Hal!SFs

\* Every step keeps the invariant.
FollowsTheRules == ~ Restart /\ ~ GainAtRun

LEMMA NextKeepsHal == FollowsTheRules /\ HalInv /\ [Hal!Next]_(Hal!vars) => HalInv'
<1> SUFFICES ASSUME ~ Restart, ~ GainAtRun, HalInv, [Hal!Next]_(Hal!vars) PROVE HalInv'
  BY DEF FollowsTheRules
<1>1. CASE \E c \in RfChains, r \in RfConfs : Hal!lgw_rxrf_setconf(c, r)
  BY <1>1, RfKeepsHal
<1>2. CASE \E c \in Hal!IfChains, r \in IfConfs : Hal!lgw_rxif_setconf(c, r)
  BY <1>2, IfKeepsHal
<1>3. CASE \E g \in LutConfs : Hal!lgw_txgain_setconf(g)
  BY <1>3, GainKeepsHal
<1>4. CASE Hal!StartConnect
  BY <1>4, ConnectKeepsHal
<1>5. CASE Hal!StartRadios
  BY <1>5, RadiosKeepHal
<1>6. CASE Hal!StartLbt
  BY <1>6, LbtKeepsHal
<1>7. CASE Hal!StartCalibrate
  BY <1>7, CalibrateKeepsHal
<1>8. CASE Hal!StartModems
  BY <1>8, ModemsKeepHal
<1>9. CASE Hal!StartFirmware
  BY <1>9, FirmwareKeepsHal
<1>10. CASE Hal!StartGains
  BY <1>10, GainsKeepHal
<1>11. CASE Hal!StartEnd
  BY <1>11, EndKeepsHal
<1>12. CASE Hal!lgw_stop
  BY <1>12, StopKeepsHal
<1>13. CASE UNCHANGED Hal!vars
  <2>1. /\ haRf' = haRf /\ haIfc' = haIfc /\ haSfmask' = haSfmask /\ haStd' = haStd
        /\ haFsk' = haFsk /\ haLut' = haLut /\ haStarted' = haStarted /\ haPc' = haPc
        /\ haChip' = haChip
    BY <1>13 DEF Hal!vars
  <2>2. Radios' = Radios /\ Hal!Modems' = Hal!Modems /\ Words' = Words
        /\ LoadedSoFar' = LoadedSoFar
    BY <2>1 DEF Radios, Words, LoadedSoFar, Hal!Modems, Hal!IfChains, Hal!LoadVal
  <2>3. HalTypes'
    BY <2>1 DEF HalInv, HalTypes, Hal!IfChains
  <2>4. StartedSoFar'
    BY <2>1, <2>2 DEF HalInv, StartedSoFar
  <2> QED
    BY <2>1, <2>3, <2>4 DEF HalInv, Hal!ModemsProgrammable, Hal!StdProgrammable, Hal!LoraBws,
       Hal!SFs
<1> QED
  BY <1>1, <1>2, <1>3, <1>4, <1>5, <1>6, <1>7, <1>8, <1>9, <1>10, <1>11, <1>12, <1>13
     DEF Hal!Next

(* The start of a concentrator, of the library's parts side by side: one that *)
(* was started and runs has the modems, the radios and the gain table of its  *)
(* configuration, every configuration that is accepted can be programmed, and *)
(* the AGC gets the whole gain table (loragw_hal.c:454-692, 696-1099).  For   *)
(* any requests and any gain table, of a program that follows the two rules   *)
(* of the library: it stops a concentrator before it starts it again, and     *)
(* before it sets the gains.                                                  *)
THEOREM StartedAsConfigured == FollowsTheRules => (BenchSpec => []RunsAsConfigured)
<1> SUFFICES ASSUME FollowsTheRules PROVE BenchSpec => []RunsAsConfigured
  OBVIOUS
<1> DEFINE PartInv == part = "hal" => HalInv
<1>1. BenchInit => PartInv
  BY HalStarts DEF BenchInit
<1>2. PartInv /\ [BenchNext]_<<part, vars, haVars, lbVars, seVars, saVars, sbVars, gpVars>>
        => PartInv'
  <2> SUFFICES ASSUME PartInv, part' = "hal",
                      [BenchNext]_<<part, vars, haVars, lbVars, seVars, saVars, sbVars, gpVars>>
               PROVE  HalInv'
    OBVIOUS
  <2>1. part = "hal"
    BY DEF BenchNext
  <2>2. [Hal!Next]_(Hal!vars)
    BY <2>1 DEF BenchNext, Hal!vars, haVars
  <2> QED
    BY <2>1, <2>2, NextKeepsHal
<1>3. PartInv => RunsAsConfigured
  <2> SUFFICES ASSUME HalInv
               PROVE  /\ Hal!TypeOK /\ Hal!RunsAsConfigured
                      /\ Hal!ModemsProgrammable /\ Hal!GainsComplete
    BY DEF RunsAsConfigured
  <2>1. Hal!TypeOK
    <3>1. \A c \in RfChains : haRf[c].enable \in BOOLEAN
      BY DEF HalInv, HalTypes, RfConf
    <3>2. \A c \in Hal!IfChains : haIfc[c].enable \in BOOLEAN /\ haIfc[c].rf \in RfChains
      BY DEF HalInv, HalTypes, IfConf
    <3>3. haLut.size \in 1 .. LutMax
      BY DEF HalInv, HalTypes
    <3> QED
      BY <3>1, <3>2, <3>3 DEF HalInv, HalTypes, Hal!TypeOK
  <2>2. Hal!RunsAsConfigured
    BY DEF HalInv, StartedSoFar, Hal!RunsAsConfigured, Radios, Words
  <2>3. Hal!ModemsProgrammable /\ Hal!GainsComplete
    BY DEF HalInv, StartedSoFar, Hal!GainsComplete
  <2> QED
    BY <2>1, <2>2, <2>3
<1> HIDE DEF PartInv
<1> QED
  BY <1>1, <1>2, <1>3, PTL DEF BenchSpec

-----------------------------------------------------------------------------
(* Time from the GPS module.                                                *)

\* What the module may send for a pulse.
IsBurst(b) ==
    /\ b \in Seq([k : Gps!Kinds, q : Gps!Qualities])
    /\ \A i, j \in DOMAIN b : b[i].k = "UBX" /\ b[j].k = "UBX" => i = j

\* The constants of GPS time, as both parts have them.
LEMMA GpsConstants ==
    /\ Cps \in Nat \ {0} /\ Day \in Nat \ {0} /\ CntMod \in Nat \ {0} /\ MaxLine \in Nat \ {0}
    /\ MaxPulses \in Nat /\ PosTime \in Nat /\ Epoch \in Nat
    /\ Sub \in Nat /\ Sub < Cps
    /\ \A b \in TimeBursts \cup PosBursts : IsBurst(b)
<1>1. Gps!GpsAssumption /\ GpsPos!GpsAssumption
  BY PartsAssumption
<1>2. {Cps, Day, CntMod, MaxPulses, MaxLine} \subseteq Nat \ {0} /\ PosTime \in Nat
  BY <1>1 DEF Gps!GpsAssumption, GpsPos!GpsAssumption
<1>3. Sub \in 0 .. (Cps - 1) /\ Epoch \in Nat
  BY <1>1 DEF Gps!GpsAssumption
<1>4. \A b \in TimeBursts : IsBurst(b)
  BY <1>1 DEF Gps!GpsAssumption, IsBurst
<1>5. \A b \in PosBursts : IsBurst(b)
  BY <1>1 DEF GpsPos!GpsAssumption, IsBurst, GpsPos!Kinds, GpsPos!Qualities, Gps!Kinds,
     Gps!Qualities
<1> QED
  BY <1>2, <1>3, <1>4, <1>5

\* Quotient and remainder are the only ones.
LEMMA QuotientIs ==
    ASSUME NEW m \in Nat \ {0}, NEW q \in Int, NEW r \in 0 .. m - 1, NEW t \in Int, t = m * q + r
    PROVE  t \div m = q /\ t % m = r
<1>1. t % m = r
  BY RemainderIs
<1>2. t = m * (t \div m) + r /\ t \div m \in Int
  BY <1>1, Euclid
<1>3. m * (q - (t \div m)) = 0 /\ q - (t \div m) \in Int
  BY <1>2
<1>4. q - (t \div m) = 0
  BY <1>3, Multiple
<1> QED
  BY <1>1, <1>2, <1>4

\* The difference of two counters is that of their times, for less than a period.
LEMMA DifferenceIs ==
    ASSUME NEW m \in Nat \ {0}, NEW a \in Int, NEW d \in 0 .. m - 1
    PROVE  (((a + d) % m) - (a % m)) % m = d /\ ((a % m) + d) % m = (a + d) % m
<1>1. PICK p \in Int : a = m * p + (a % m) /\ a % m \in 0 .. m - 1
  BY Euclid
<1>2. PICK q \in Int : a + d = m * q + ((a + d) % m) /\ (a + d) % m \in 0 .. m - 1
  <2>1. a + d \in Int
    OBVIOUS
  <2> QED
    BY <2>1, Euclid
<1> DEFINE x == a % m
           y == (a + d) % m
           u == q - p
<1>3. u \in Int /\ -u \in Int /\ m * u \in Int /\ m * (-u) = -(m * u) /\ m * u = m * q - m * p
  BY <1>1, <1>2
<1>4. x \in Int /\ y \in Int /\ x + d = m * u + y /\ y - x = m * (-u) + d
  <2>1. a = m * p + x /\ a + d = m * q + y /\ x \in Int /\ y \in Int
    BY <1>1, <1>2
  <2>2. m * p \in Int /\ m * q \in Int
    BY <1>1, <1>2
  <2> HIDE DEF x, y, u
  <2>3. x + d = (m * q - m * p) + y /\ y - x = -(m * q - m * p) + d
    BY <2>1, <2>2
  <2> QED
    BY <1>3, <2>1, <2>3
<1>5. (y - x) % m = d
  BY <1>3, <1>4, RemainderIs
<1>6. (x + d) % m = y
  BY <1>2, <1>3, <1>4, RemainderIs
<1> QED
  BY <1>5, <1>6

\* A conversion from the counter adds the time since the reference.
LEMMA CarryIs ==
    ASSUME NEW base \in Nat, NEW d \in Nat
    PROVE  /\ Gps!Carry(base + (d \div Cps), Sub + (d % Cps)) \in [sec : Int, sub : 0 .. Cps - 1]
           /\ (base * Cps) + Sub + d
              = (Cps * Gps!Carry(base + (d \div Cps), Sub + (d % Cps)).sec)
                + Gps!Carry(base + (d \div Cps), Sub + (d % Cps)).sub
<1> DEFINE q == d \div Cps
           r == d % Cps
           t == Gps!Carry(base + q, Sub + r)
<1>1. Cps \in Nat \ {0} /\ Sub \in Nat /\ Sub < Cps
  BY GpsConstants
<1>2. d = (Cps * q) + r /\ q \in Int /\ r \in 0 .. Cps - 1
  BY <1>1, Euclid
<1>3. Cps * (base + q) = (base * Cps) + (Cps * q) /\ base * Cps \in Int /\ Cps * q \in Int
  BY <1>1, <1>2
<1> HIDE DEF q, r
<1>4. t = IF Sub + r < Cps THEN [sec |-> base + q, sub |-> Sub + r]
          ELSE [sec |-> base + q + 1, sub |-> (Sub + r) - Cps]
  BY DEF Gps!Carry
<1> HIDE DEF t
<1>5. CASE Sub + r < Cps
  <2>1. t.sec = base + q /\ t.sub = Sub + r /\ t = [sec |-> base + q, sub |-> Sub + r]
    BY <1>4, <1>5
  <2>2. base + q \in Int /\ Sub + r \in 0 .. Cps - 1
    BY <1>1, <1>2, <1>5
  <2>3. t \in [sec : Int, sub : 0 .. Cps - 1]
    BY <2>1, <2>2
  <2>4. (base * Cps) + Sub + d = (Cps * (base + q)) + (Sub + r)
    BY <1>1, <1>2, <1>3
  <2> QED
    BY <2>1, <2>3, <2>4 DEF t, q, r
<1>6. CASE ~ (Sub + r < Cps)
  <2>1. /\ t.sec = base + q + 1 /\ t.sub = (Sub + r) - Cps
        /\ t = [sec |-> base + q + 1, sub |-> (Sub + r) - Cps]
    BY <1>4, <1>6
  <2>2. Cps * (base + q + 1) = (base * Cps) + (Cps * q) + Cps
    BY <1>1, <1>2, <1>3
  <2>3. base + q + 1 \in Int /\ (Sub + r) - Cps \in 0 .. Cps - 1
    BY <1>1, <1>2, <1>6
  <2>4. t \in [sec : Int, sub : 0 .. Cps - 1]
    BY <2>1, <2>3
  <2>5. (base * Cps) + Sub + d = (Cps * (base + q + 1)) + ((Sub + r) - Cps)
    BY <1>1, <1>2, <1>3, <2>2
  <2> QED
    BY <2>1, <2>4, <2>5 DEF t, q, r
<1> QED
  BY <1>5, <1>6

\* A message of the line, at a time that has come.
Sentence == [k : Gps!Kinds, q : Gps!Qualities, t : Epoch .. gpNow]

\* The time of the day, of any day; as the parsers and the library keep it.
Parsed == [day : Nat, sec : 0 .. (Day - 1)]

\* Seconds since the origin, of a day and a second.
LEMMA SecondIs ==
    ASSUME NEW p \in Parsed
    PROVE  Gps!Second(p) \in Nat
<1>1. Day \in Nat \ {0} /\ p.day \in Nat /\ p.sec \in 0 .. Day - 1
  BY GpsConstants DEF Parsed
<1>2. p.day * Day = Day * p.day /\ Day * p.day \in Int
  BY <1>1
<1>3. Day * p.day >= 0
  <2>1. p.day = 0 \/ p.day >= 1
    BY <1>1
  <2> QED
    BY <1>1, <2>1, Multiple
<1> QED
  BY <1>1, <1>2, <1>3 DEF Gps!Second

\* The two marks.
LEMMA PairIs ==
    ASSUME NEW x \in BOOLEAN, NEW y \in BOOLEAN
    PROVE  <<x, y>> \in [1 .. 2 -> BOOLEAN]
<1> DEFINE m == <<x, y>>
<1>1. m \in Seq(BOOLEAN) /\ Len(m) = 2
  OBVIOUS
<1> HIDE DEF m
<1>2. m \in [1 .. Len(m) -> BOOLEAN]
  BY <1>1, LenProperties
<1> QED
  BY <1>1, <1>2 DEF m

\* A second split into day and second of the day, and back.
LEMMA SplitIs ==
    ASSUME NEW t \in Nat
    PROVE  /\ Gps!Split(t) \in Parsed
           /\ t = (Day * Gps!Split(t).day) + Gps!Split(t).sec
           /\ Gps!Second(Gps!Split(t)) = t
<1> DEFINE q == t \div Day
           r == t % Day
<1>1. Day \in Nat \ {0}
  BY GpsConstants
<1>2. t = Day * q + r /\ q \in Int /\ r \in 0 .. Day - 1
  BY <1>1, Euclid
<1>3. Gps!Split(t) = [day |-> q, sec |-> r]
  BY DEF Gps!Split
<1> HIDE DEF q, r
<1>4. q >= 0
  <2>1. (q <= -1 => Day * q <= -Day) /\ Day * q \in Int
    BY <1>1, <1>2, Multiple
  <2> QED
    BY <1>1, <1>2, <2>1
<1>5. Day * q = q * Day
  BY <1>1, <1>2
<1> QED
  BY <1>1, <1>2, <1>3, <1>4, <1>5 DEF Parsed, Gps!Second

\* The types, for any time that has come.
GpsTypes ==
    /\ gpNow \in Nat /\ gpNow >= Epoch
    /\ gpLine \in Seq(Sentence) /\ Len(gpLine) <= MaxLine
    /\ gpPort \in {"closed", "open"} /\ gpUbxOn \in BOOLEAN
    /\ gpResult \in {Nil, "success", "error"}
    /\ gpUtcP \in Parsed /\ gpGpsP \in Parsed
    /\ gpTimeOk \in BOOLEAN /\ gpPosOk \in BOOLEAN
    /\ gpPos \in [lat : Nat, lon : Nat, alt : Nat]
    /\ gpRef \in [systime : {0, 1}, cnt : 0 .. (CntMod - 1), utc : Nat, gps : Nat, xtal : {0, 1}]
    /\ gpAber \in [1 .. 2 -> BOOLEAN]
    /\ gpRun \in [right : 0 .. 3, wrong : 0 .. 3, firm : BOOLEAN, of : 0 .. gpNow]

\* Sentences are read in the order of their pulses, one native time of each, and
\* the UTC of the parser is of none that is still to come.
LineInOrder ==
    /\ \A i, j \in 1 .. Len(gpLine) : i <= j => gpLine[i].t <= gpLine[j].t
    /\ \A i, j \in 1 .. Len(gpLine) :
          gpLine[i].k = "UBX" /\ gpLine[j].k = "UBX" /\ gpLine[i].t = gpLine[j].t => i = j
    /\ \A i \in 1 .. Len(gpLine) : Gps!Second(gpUtcP) <= gpLine[i].t
    /\ Gps!Second(gpUtcP) <= gpNow

\* The native time of this pulse has been read.
NativeRead == \A i \in 1 .. Len(gpLine) : gpLine[i].k = "UBX" => gpLine[i].t # gpNow

\* The counter of the reference is of the pulse it was adopted at; a true one was
\* adopted with the native time of that pulse, which comes once.
ReferenceIs ==
    /\ Gps!RefSet => gpRef.cnt = Gps!PulseCnt(gpRun.of)
    /\ Gps!RefTrue /\ gpRun.of = gpNow => NativeRead

\* The counter may have wrapped since the reference.
Paused == (gpNow - gpRef.utc) * Cps >= CntMod

\* The latest points that were right and their marks make the reference true; the
\* marks against a true one that was confirmed are of points that were wrong.
MarksAreTold ==
    /\ gpRun.right >= 1 /\ ~ gpAber[1] => Gps!RefTrue
    /\ gpRun.right >= 2 /\ ~ gpAber[2] => Gps!RefTrue
    /\ gpRun.right = 3 => Gps!RefTrue
    /\ Gps!RefTrue /\ gpRun.firm /\ gpAber[1] => gpRun.wrong >= 1 \/ Paused
    /\ Gps!RefTrue /\ gpRun.firm /\ gpAber[1] /\ gpAber[2] => gpRun.wrong >= 2 \/ Paused

GpsInv ==
    /\ GpsTypes /\ LineInOrder /\ ReferenceIs /\ MarksAreTold
    /\ Gps!PosFromOneSentence

\* A line of which some sentences were read, or all dropped.
Shortened ==
    \/ gpLine' = gpLine
    \/ gpLine' = <<>>
    \/ gpLine # <<>> /\ gpLine' = Tail(gpLine)

\* Such a line is the old one from some sentence on.
LEMMA ShortenedIs ==
    ASSUME gpLine \in Seq(Sentence), Shortened
    PROVE  /\ gpLine' \in Seq(Sentence)
           /\ \E n \in 0 .. Len(gpLine) :
                 /\ Len(gpLine') = Len(gpLine) - n
                 /\ \A i \in 1 .. Len(gpLine') : gpLine'[i] = gpLine[i + n]
<1>1. CASE gpLine' = gpLine
  <2>1. 0 \in 0 .. Len(gpLine) /\ \A i \in 1 .. Len(gpLine) : i + 0 = i
    OBVIOUS
  <2> QED
    BY <1>1, <2>1
<1>2. CASE gpLine' = <<>>
  <2>1. Len(gpLine) \in 0 .. Len(gpLine) /\ Len(gpLine') = Len(gpLine) - Len(gpLine)
    BY <1>2
  <2> QED
    BY <1>2, <2>1
<1>3. CASE gpLine # <<>> /\ gpLine' = Tail(gpLine)
  <2>1. 1 \in 0 .. Len(gpLine) /\ Len(gpLine') = Len(gpLine) - 1
    BY <1>3
  <2>2. \A i \in 1 .. Len(gpLine') : gpLine'[i] = gpLine[i + 1]
    BY <1>3
  <2>3. gpLine' \in Seq(Sentence)
    BY <1>3
  <2> QED
    BY <2>1, <2>2, <2>3
<1> QED
  BY <1>1, <1>2, <1>3 DEF Shortened

\* A step that takes from the line and leaves the pulse as it is keeps the order of
\* the line, when the UTC of the parser is of nothing to come.
LEMMA ShortenedKeeps ==
    ASSUME GpsTypes, LineInOrder, Shortened, gpNow' = gpNow
    PROVE  /\ gpLine' \in Seq(Sentence)' /\ Len(gpLine') <= MaxLine
           /\ \A i, j \in 1 .. Len(gpLine') : i <= j => gpLine'[i].t <= gpLine'[j].t
           /\ \A i, j \in 1 .. Len(gpLine') :
                 gpLine'[i].k = "UBX" /\ gpLine'[j].k = "UBX" /\ gpLine'[i].t = gpLine'[j].t
                 => i = j
           /\ gpUtcP' = gpUtcP => LineInOrder'
           /\ NativeRead => NativeRead'
<1>1. gpLine \in Seq(Sentence) /\ gpLine' \in Seq(Sentence) /\ Sentence' = Sentence
  BY ShortenedIs DEF GpsTypes, Sentence
<1>2. PICK n \in 0 .. Len(gpLine) :
          /\ Len(gpLine') = Len(gpLine) - n
          /\ \A i \in 1 .. Len(gpLine') : gpLine'[i] = gpLine[i + n]
  BY <1>1, ShortenedIs
<1>3. Len(gpLine) \in Nat /\ MaxLine \in Nat /\ Len(gpLine) <= MaxLine
  BY <1>1, GpsConstants DEF GpsTypes
<1>4. \A i \in 1 .. Len(gpLine') : i + n \in 1 .. Len(gpLine)
  BY <1>2, <1>3
<1>5. \A i, j \in 1 .. Len(gpLine') : i <= j => gpLine'[i].t <= gpLine'[j].t
  <2> SUFFICES ASSUME NEW i \in 1 .. Len(gpLine'), NEW j \in 1 .. Len(gpLine'), i <= j
               PROVE  gpLine'[i].t <= gpLine'[j].t
    OBVIOUS
  <2>1. i + n <= j + n
    BY <1>2
  <2> QED
    BY <1>2, <1>4, <2>1 DEF LineInOrder
<1>6. \A i, j \in 1 .. Len(gpLine') :
          gpLine'[i].k = "UBX" /\ gpLine'[j].k = "UBX" /\ gpLine'[i].t = gpLine'[j].t => i = j
  <2> SUFFICES ASSUME NEW i \in 1 .. Len(gpLine'), NEW j \in 1 .. Len(gpLine'),
                      gpLine'[i].k = "UBX", gpLine'[j].k = "UBX", gpLine'[i].t = gpLine'[j].t
               PROVE  i = j
    OBVIOUS
  <2>1. i + n = j + n
    BY <1>2, <1>4 DEF LineInOrder
  <2> QED
    BY <1>2, <2>1
<1>7. ASSUME gpUtcP' = gpUtcP PROVE LineInOrder'
  <2>1. \A i \in 1 .. Len(gpLine') : Gps!Second(gpUtcP) <= gpLine'[i].t
    BY <1>2, <1>4 DEF LineInOrder
  <2>2. Gps!Second(gpUtcP)' = Gps!Second(gpUtcP)
    BY <1>7 DEF Gps!Second
  <2>3. Gps!Second(gpUtcP) <= gpNow
    BY DEF LineInOrder
  <2> QED
    BY <1>5, <1>6, <1>7, <2>1, <2>2, <2>3 DEF LineInOrder
<1>8. ASSUME NativeRead PROVE NativeRead'
  BY <1>2, <1>4, <1>8 DEF NativeRead
<1> QED
  BY <1>1, <1>2, <1>3, <1>5, <1>6, <1>7, <1>8

\* How far a number is ahead of a smaller one.
LEMMA Ahead ==
    ASSUME NEW a \in Nat, NEW b \in Nat, b >= a
    PROVE  \E k \in Nat : b = a + k
<1>1. b - a \in Nat /\ b = a + (b - a)
  OBVIOUS
<1> QED
  BY <1>1

\* What holds of the reference and of the marks is kept when they are left alone.
LEMMA ReferenceStays ==
    ASSUME GpsTypes, ReferenceIs, MarksAreTold, gpRef' = gpRef, gpAber' = gpAber,
           gpRun' = gpRun, gpNow' \in Nat, gpNow' >= gpNow,
           gpNow' = gpNow => (NativeRead => NativeRead')
    PROVE  ReferenceIs' /\ MarksAreTold'
<1>1. /\ Gps!RefSet' = Gps!RefSet /\ Gps!RefTrue' = Gps!RefTrue
      /\ Gps!PulseCnt(gpRun.of)' = Gps!PulseCnt(gpRun.of)
  BY DEF Gps!RefSet, Gps!RefTrue, Gps!PulseCnt, Gps!Cnt
<1>2. Paused => Paused'
  <2>1. gpNow \in Nat /\ gpRef.utc \in Nat /\ Cps \in Nat \ {0} /\ CntMod \in Nat
    BY GpsConstants DEF GpsTypes
  <2>2. PICK k \in Nat : gpNow' = gpNow + k
    <3>1. gpNow' \in Nat /\ gpNow' >= gpNow
      OBVIOUS
    <3> QED
      BY <2>1, <3>1, Ahead
  <2>3. (gpNow' - gpRef.utc) * Cps = (gpNow - gpRef.utc) * Cps + k * Cps
    BY <2>1, <2>2
  <2>4. k * Cps >= 0 /\ k * Cps \in Int /\ (gpNow - gpRef.utc) * Cps \in Int
    BY <2>1, <2>2
  <2>5. (gpNow - gpRef.utc) * Cps >= CntMod => (gpNow' - gpRef.utc) * Cps >= CntMod
    BY <2>1, <2>3, <2>4
  <2> QED
    BY <2>5 DEF Paused
<1>3. ReferenceIs'
  <2>1. gpRun.of \in 0 .. gpNow /\ gpNow \in Nat
    BY DEF GpsTypes
  <2>2. Gps!RefTrue /\ gpRun.of = gpNow' => NativeRead'
    BY <2>1 DEF ReferenceIs
  <2> QED
    BY <1>1, <2>2 DEF ReferenceIs
<1>4. MarksAreTold'
  BY <1>1, <1>2 DEF MarksAreTold
<1> QED
  BY <1>3, <1>4

\* The port is opened and closed.
LEMMA EnableKeepsGps ==
    ASSUME GpsInv, Gps!lgw_gps_enable \/ Gps!lgw_gps_disable
    PROVE  GpsInv'
<1>1. /\ Shortened /\ gpNow' = gpNow /\ gpUtcP' = gpUtcP /\ gpGpsP' = gpGpsP
      /\ gpPos' = gpPos /\ (gpPosOk' = gpPosOk \/ gpPosOk' = FALSE)
      /\ gpTimeOk' \in {gpTimeOk, FALSE} /\ gpUbxOn' \in {gpUbxOn, TRUE}
      /\ gpPort' \in {"closed", "open"} /\ gpResult' \in {"success", "error"}
      /\ gpRef' = gpRef /\ gpAber' = gpAber /\ gpRun' = gpRun
  <2>1. CASE Gps!lgw_gps_enable
    BY <2>1, Zenon DEF Gps!lgw_gps_enable, Gps!syncVars, Shortened, GpsInv, GpsTypes
  <2>2. CASE Gps!lgw_gps_disable
    BY <2>2 DEF Gps!lgw_gps_disable, Gps!syncVars, Gps!gpsVars, Gps!posVars, Shortened, GpsInv, GpsTypes
  <2> QED
    BY <2>1, <2>2
<1>2. GpsTypes /\ LineInOrder /\ gpNow \in Nat
  BY DEF GpsInv, GpsTypes
<1>3. LineInOrder' /\ (NativeRead => NativeRead') /\ gpLine' \in Seq(Sentence)' /\ Len(gpLine') <= MaxLine
  BY <1>1, <1>2, ShortenedKeeps
<1>4. ReferenceIs' /\ MarksAreTold'
  BY <1>1, <1>2, <1>3, ReferenceStays DEF GpsInv
<1>5. GpsTypes'
  BY <1>1, <1>2, <1>3 DEF GpsTypes
<1>6. Gps!PosFromOneSentence'
  BY <1>1 DEF GpsInv, Gps!PosFromOneSentence
<1> QED
  BY <1>3, <1>4, <1>5, <1>6 DEF GpsInv

\* A pulse, and a burst of sentences that goes behind those of the line.
PulseOf(b) ==
    /\ Len(gpLine) + Len(b) <= MaxLine
    /\ gpLine' = IF gpPort = "open" THEN gpLine \o Gps!Stamped(b, gpNow + 1) ELSE gpLine
    /\ gpNow' = gpNow + 1
    /\ UNCHANGED <<gpPort, gpUbxOn, gpResult, gpUtcP, gpGpsP, gpTimeOk, gpPos, gpPosOk,
                   gpRef, gpAber, gpRun>>

\* A burst is of a later pulse than all that is in the line.
LEMMA PulseKeepsGps ==
    ASSUME GpsInv, NEW b, IsBurst(b), PulseOf(b)
    PROVE  GpsInv'
<1> DEFINE n == Len(gpLine)
           s == Gps!Stamped(b, gpNow + 1)
<1>1. GpsTypes /\ LineInOrder /\ gpNow \in Nat /\ gpLine \in Seq(Sentence)
  BY DEF GpsInv, GpsTypes
<1>2. b \in Seq([k : Gps!Kinds, q : Gps!Qualities]) /\ Len(b) \in Nat /\ DOMAIN b = 1 .. Len(b)
  BY DEF IsBurst
<1>3. /\ gpNow' = gpNow + 1 /\ gpPort' = gpPort /\ gpUbxOn' = gpUbxOn /\ gpResult' = gpResult
      /\ gpUtcP' = gpUtcP /\ gpGpsP' = gpGpsP /\ gpTimeOk' = gpTimeOk /\ gpPos' = gpPos
      /\ gpPosOk' = gpPosOk /\ gpRef' = gpRef /\ gpAber' = gpAber /\ gpRun' = gpRun
      /\ n + Len(b) <= MaxLine /\ (gpLine' = gpLine \/ gpLine' = gpLine \o s)
  BY DEF PulseOf
<1>4. /\ s \in Seq(Sentence)' /\ Len(s) = Len(b)
      /\ \A i \in 1 .. Len(b) : s[i].k = b[i].k /\ s[i].t = gpNow + 1
  <2>1. s = [i \in 1 .. Len(b) |-> [k |-> b[i].k, q |-> b[i].q, t |-> gpNow + 1]]
    BY <1>2 DEF Gps!Stamped
  <2>2. gpNow + 1 \in Epoch .. (gpNow + 1)
    BY <1>1, GpsConstants DEF GpsTypes
  <2>3. \A i \in 1 .. Len(b) : b[i].k \in Gps!Kinds /\ b[i].q \in Gps!Qualities
    <3>1. \A i \in 1 .. Len(b) : b[i] \in [k : Gps!Kinds, q : Gps!Qualities]
      BY <1>2, ElementOfSeq
    <3> QED
      BY <3>1
  <2>4. \A i \in 1 .. Len(b) : [k |-> b[i].k, q |-> b[i].q, t |-> gpNow + 1] \in Sentence'
    BY <1>3, <2>2, <2>3 DEF Sentence, Gps!Kinds, Gps!Qualities
  <2> HIDE DEF s
  <2> QED
    BY <1>2, <2>1, <2>4
<1> HIDE DEF s
<1>5. gpLine \in Seq(Sentence)' /\ n \in Nat
  <2>1. Sentence \subseteq Sentence'
    BY <1>1, <1>3, GpsConstants DEF Sentence, Gps!Kinds, Gps!Qualities
  <2> QED
    BY <1>1, <2>1
<1>6. \A i \in 1 .. n : gpLine[i].t \in Int /\ gpLine[i].t <= gpNow
  <2>1. \A i \in 1 .. n : gpLine[i] \in Sentence
    BY <1>1, ElementOfSeq
  <2>2. \A m \in Sentence : m.t \in Epoch .. gpNow
    BY DEF Sentence
  <2> QED
    BY <1>1, <2>1, <2>2, GpsConstants
<1>7. ASSUME gpLine' = gpLine \o s
       PROVE  /\ gpLine' \in Seq(Sentence)' /\ Len(gpLine') = n + Len(b)
              /\ \A i \in 1 .. n : gpLine'[i] = gpLine[i]
              /\ \A i \in n + 1 .. n + Len(b) : gpLine'[i] = s[i - n]
  <2> DEFINE T == Sentence'
             l == gpLine
  <2>1. l \in Seq(T) /\ s \in Seq(T) /\ Len(s) = Len(b)
    BY <1>4, <1>5
  <2> HIDE DEF T, l
  <2>2. /\ l \o s \in Seq(T) /\ Len(l \o s) = Len(l) + Len(s)
        /\ \A i \in 1 .. Len(l) + Len(s) : (l \o s)[i] = IF i <= Len(l) THEN l[i] ELSE s[i - Len(l)]
    BY <2>1, ConcatProperties
  <2>3. /\ l \o s \in Seq(T) /\ Len(l \o s) = Len(l) + Len(b)
        /\ \A i \in 1 .. Len(l) : (l \o s)[i] = l[i]
        /\ \A i \in Len(l) + 1 .. Len(l) + Len(b) : (l \o s)[i] = s[i - Len(l)]
    <3>1. Len(l) \in Nat /\ Len(b) \in Nat
      BY <1>2, <2>1, LenProperties
    <3> HIDE DEF l
    <3> QED
      BY <2>1, <2>2, <3>1
  <2> QED
    BY <1>7, <2>3 DEF T, l
<1>8. ReferenceIs' /\ MarksAreTold'
  BY <1>1, <1>3, ReferenceStays DEF GpsInv
<1>9. Gps!PosFromOneSentence'
  BY <1>3 DEF GpsInv, Gps!PosFromOneSentence
<1>10. gpLine' \in Seq(Sentence)' /\ Len(gpLine') <= MaxLine
  <2>1. CASE gpLine' = gpLine
    BY <1>1, <1>5, <2>1 DEF GpsTypes
  <2>2. CASE gpLine' = gpLine \o s
    BY <1>3, <1>7, <2>2
  <2> QED
    BY <1>3, <2>1, <2>2
<1>11. GpsTypes'
  <2>1. gpRun.of \in 0 .. gpNow => gpRun.of \in 0 .. gpNow + 1
    BY <1>1
  <2>2. gpNow' \in Nat /\ gpNow' >= Epoch
    BY <1>1, <1>3, GpsConstants DEF GpsTypes
  <2>3. gpRun \in [right : 0 .. 3, wrong : 0 .. 3, firm : BOOLEAN, of : 0 .. gpNow']
    <3>1. gpRun \in [right : 0 .. 3, wrong : 0 .. 3, firm : BOOLEAN, of : 0 .. gpNow]
      BY <1>1 DEF GpsTypes
    <3> QED
      BY <1>3, <2>1, <3>1
  <2> QED
    BY <1>1, <1>3, <1>10, <2>2, <2>3 DEF GpsTypes
<1>12. LineInOrder'
  <2>1. Gps!Second(gpUtcP)' = Gps!Second(gpUtcP)
    BY <1>3 DEF Gps!Second
  <2>2. Gps!Second(gpUtcP) \in Int /\ Gps!Second(gpUtcP) <= gpNow
    <3>1. gpUtcP \in Parsed
      BY <1>1 DEF GpsTypes
    <3>2. Gps!Second(gpUtcP) \in Int
      BY <3>1, SecondIs
    <3>3. Gps!Second(gpUtcP) <= gpNow
      BY <1>1 DEF LineInOrder
    <3> QED
      BY <3>2, <3>3
  <2>3. CASE gpLine' = gpLine
    BY <1>1, <1>3, <2>1, <2>2, <2>3 DEF LineInOrder
  <2>4. CASE gpLine' = gpLine \o s
    <3>1. /\ Len(gpLine') = n + Len(b)
          /\ \A i \in 1 .. n : gpLine'[i] = gpLine[i]
          /\ \A i \in n + 1 .. n + Len(b) : gpLine'[i] = s[i - n]
      BY <1>7, <2>4
    <3>2. \A i \in n + 1 .. n + Len(b) : i - n \in 1 .. Len(b)
      BY <1>2, <1>5
    <3>3. \A i \in 1 .. n + Len(b) : i \in 1 .. n \/ i \in n + 1 .. n + Len(b)
      BY <1>2, <1>5
    <3>4. \A i \in n + 1 .. n + Len(b) : gpLine'[i].t = gpNow + 1 /\ gpLine'[i].k = b[i - n].k
      BY <1>4, <3>1, <3>2
    <3>5. \A i, j \in 1 .. n + Len(b) : i <= j => gpLine'[i].t <= gpLine'[j].t
      <4> SUFFICES ASSUME NEW i \in 1 .. n + Len(b), NEW j \in 1 .. n + Len(b), i <= j
                   PROVE  gpLine'[i].t <= gpLine'[j].t
        OBVIOUS
      <4>1. CASE j \in 1 .. n
        <5>1. i \in 1 .. n
          BY <1>5, <4>1
        <5> QED
          BY <1>1, <3>1, <4>1, <5>1 DEF LineInOrder
      <4>2. CASE j \in n + 1 .. n + Len(b)
        BY <1>1, <1>6, <3>1, <3>3, <3>4, <4>2
      <4> QED
        BY <3>3, <4>1, <4>2
    <3>6. \A i, j \in 1 .. n + Len(b) :
              gpLine'[i].k = "UBX" /\ gpLine'[j].k = "UBX" /\ gpLine'[i].t = gpLine'[j].t => i = j
      <4> SUFFICES ASSUME NEW i \in 1 .. n + Len(b), NEW j \in 1 .. n + Len(b),
                          gpLine'[i].k = "UBX", gpLine'[j].k = "UBX", gpLine'[i].t = gpLine'[j].t
                   PROVE  i = j
        OBVIOUS
      <4>1. CASE i \in 1 .. n /\ j \in 1 .. n
        BY <1>1, <3>1, <4>1 DEF LineInOrder
      <4>2. CASE i \in n + 1 .. n + Len(b) /\ j \in n + 1 .. n + Len(b)
        <5>1. i - n \in DOMAIN b /\ j - n \in DOMAIN b /\ b[i - n].k = "UBX" /\ b[j - n].k = "UBX"
          BY <1>2, <3>2, <3>4, <4>2
        <5>2. i - n = j - n
          BY <5>1 DEF IsBurst
        <5> QED
          BY <1>5, <5>2
      <4>3. CASE i \in 1 .. n /\ j \in n + 1 .. n + Len(b)
        <5>1. gpLine'[i].t \in Int /\ gpLine'[i].t <= gpNow /\ gpLine'[j].t = gpNow + 1
          BY <1>6, <3>1, <3>4, <4>3
        <5> QED
          BY <1>1, <5>1
      <4>4. CASE j \in 1 .. n /\ i \in n + 1 .. n + Len(b)
        <5>1. gpLine'[j].t \in Int /\ gpLine'[j].t <= gpNow /\ gpLine'[i].t = gpNow + 1
          BY <1>6, <3>1, <3>4, <4>4
        <5> QED
          BY <1>1, <5>1
      <4> QED
        BY <3>3, <4>1, <4>2, <4>3, <4>4
    <3>7. \A i \in 1 .. n + Len(b) : Gps!Second(gpUtcP) <= gpLine'[i].t
      BY <1>1, <2>2, <3>1, <3>3, <3>4 DEF LineInOrder
    <3> QED
      BY <1>1, <1>3, <2>1, <2>2, <3>1, <3>5, <3>6, <3>7 DEF LineInOrder
  <2> QED
    BY <1>3, <2>3, <2>4
<1> QED
  BY <1>8, <1>9, <1>11, <1>12 DEF GpsInv

\* A sentence that was read is shorter a line, and of a time that has come.
LEMMA ReadShortens ==
    ASSUME GpsTypes, LineInOrder, NEW k, Gps!Read(k)
    PROVE  /\ Shortened /\ gpLine # <<>> /\ Head(gpLine) = gpLine[1] /\ Head(gpLine).k = k
           /\ gpLine[1] \in Sentence /\ 1 \in 1 .. Len(gpLine)
           /\ gpLine' = Tail(gpLine)
BY DEF Gps!Read, Shortened, GpsTypes

\* UTC of a sentence: with a date or without, it is not ahead of the sentence.
LEMMA RmcKeepsGps ==
    ASSUME GpsInv, Gps!ParseRmc
    PROVE  GpsInv'
<1> DEFINE m == gpLine[1]
           d == Gps!Split(m.t)
<1>1. GpsTypes /\ LineInOrder /\ gpNow \in Nat /\ gpLine \in Seq(Sentence)
  BY DEF GpsInv, GpsTypes
<1>2. /\ Shortened /\ gpLine # <<>> /\ Head(gpLine) = m /\ m \in Sentence /\ 1 \in 1 .. Len(gpLine)
      /\ gpLine' = Tail(gpLine)
  BY <1>1, ReadShortens DEF Gps!ParseRmc
<1>3. /\ gpNow' = gpNow /\ gpPort' = gpPort /\ gpUbxOn' = gpUbxOn /\ gpResult' = gpResult
      /\ gpGpsP' = gpGpsP /\ gpPos' = gpPos /\ gpPosOk' = gpPosOk /\ gpRef' = gpRef
      /\ gpAber' = gpAber /\ gpRun' = gpRun /\ gpTimeOk' \in BOOLEAN
      /\ gpUtcP' \in {gpUtcP, d, [gpUtcP EXCEPT !.sec = d.sec]}
  <2>1. /\ gpTimeOk' = (m.q = "fix")
        /\ gpUtcP' = CASE m.q \in {"fix", "nofix"} -> d
                    [] m.q = "nodate" -> [gpUtcP EXCEPT !.sec = d.sec]
                    [] OTHER -> gpUtcP
    BY <1>2 DEF Gps!ParseRmc
  <2> HIDE DEF d, m
  <2> QED
    BY <2>1 DEF Gps!ParseRmc, Gps!posVars, Gps!syncVars
<1>4. m.t \in Nat /\ m.t <= gpNow
  BY <1>1, <1>2, GpsConstants DEF Sentence
<1>5. Day \in Nat \ {0} /\ gpUtcP.day \in Nat /\ gpUtcP.sec \in 0 .. Day - 1 /\ gpUtcP \in Parsed
  BY <1>1, GpsConstants DEF GpsTypes, Parsed
<1> HIDE DEF m
<1>6. d \in Parsed /\ m.t = (Day * d.day) + d.sec /\ Gps!Second(d) = m.t
  BY <1>4, SplitIs
<1> HIDE DEF d
<1>7. d.day \in Nat /\ d.sec \in 0 .. Day - 1
  BY <1>6 DEF Parsed
<1>9. Gps!Second([gpUtcP EXCEPT !.sec = d.sec]) <= m.t /\ [gpUtcP EXCEPT !.sec = d.sec] \in Parsed
  <2> DEFINE y == gpUtcP.day
  <2>1. Gps!Second(gpUtcP) <= m.t
    BY <1>1, <1>2 DEF LineInOrder, m
  <2>2. Day * y <= Day * d.day + d.sec
    <3>1. y * Day = Day * y /\ Day * y \in Int
      BY <1>5
    <3>2. Gps!Second(gpUtcP) = Day * y + gpUtcP.sec
      BY <3>1 DEF Gps!Second
    <3>3. Day * d.day \in Int
      BY <1>5, <1>6, <1>7
    <3> QED
      BY <1>4, <1>5, <1>6, <1>7, <2>1, <3>1, <3>2, <3>3
  <2>3. d.day - y >= 0
    <3>1. d.day - y \in Int /\ Day * (d.day - y) = Day * d.day - Day * y
      BY <1>5, <1>6, <1>7
    <3>2. d.day - y <= -1 => Day * (d.day - y) <= -Day
      BY <1>5, <3>1, Multiple
    <3>3. Day * d.day \in Int /\ Day * y \in Int
      BY <1>5, <1>6, <1>7
    <3> QED
      BY <1>5, <1>6, <1>7, <2>2, <3>1, <3>2, <3>3
  <2>4. Day * (d.day - y) >= 0
    BY <1>5, <1>6, <1>7, <2>3, Multiple
  <2>5. [gpUtcP EXCEPT !.sec = d.sec] = [day |-> y, sec |-> d.sec]
    BY <1>5 DEF Parsed
  <2>6. Gps!Second([day |-> y, sec |-> d.sec]) = Day * y + d.sec
    BY <1>5, <1>6, <1>7 DEF Gps!Second
  <2>7. Day * y + d.sec <= m.t
    <3>1. Day * (d.day - y) = Day * d.day - Day * y /\ Day * d.day \in Int /\ Day * y \in Int
      BY <1>5, <1>6, <1>7
    <3> QED
      BY <1>4, <1>6, <1>7, <2>4, <3>1
  <2>8. [day |-> y, sec |-> d.sec] \in Parsed
    BY <1>5, <1>6, <1>7 DEF Parsed
  <2> QED
    BY <2>5, <2>6, <2>7, <2>8
<1>10. gpUtcP' \in Parsed /\ (gpUtcP' = gpUtcP \/ Gps!Second(gpUtcP') <= m.t)
  BY <1>3, <1>4, <1>5, <1>6, <1>9
<1>11. LineInOrder'
  <2>1. CASE gpUtcP' = gpUtcP
    BY <1>1, <1>2, <1>3, <2>1, ShortenedKeeps
  <2>2. CASE Gps!Second(gpUtcP') <= m.t
    <3>1. Gps!Second(gpUtcP)' = Gps!Second(gpUtcP') /\ Gps!Second(gpUtcP') \in Int
      <4>1. Gps!Second(gpUtcP') \in Int
        BY <1>10, SecondIs
      <4> QED
        BY <4>1 DEF Gps!Second
    <3>2. \A i \in 1 .. Len(gpLine') : gpLine'[i] = gpLine[i + 1] /\ i + 1 \in 1 .. Len(gpLine)
      BY <1>1, <1>2
    <3>3. \A i \in 1 .. Len(gpLine') : gpLine'[i].t \in Int /\ m.t <= gpLine'[i].t
      <4> SUFFICES ASSUME NEW i \in 1 .. Len(gpLine')
                   PROVE  gpLine'[i].t \in Int /\ m.t <= gpLine'[i].t
        OBVIOUS
      <4>1. i + 1 \in 1 .. Len(gpLine) /\ 1 <= i + 1 /\ gpLine[i + 1] \in Sentence
        BY <1>1, <3>2
      <4>2. gpLine[1].t <= gpLine[i + 1].t
        BY <1>1, <1>2, <4>1 DEF LineInOrder
      <4> QED
        BY <3>2, <4>1, <4>2, GpsConstants DEF m, Sentence
    <3>4. \A i \in 1 .. Len(gpLine') : Gps!Second(gpUtcP') <= gpLine'[i].t
      BY <1>4, <2>2, <3>1, <3>3
    <3>5. Gps!Second(gpUtcP') <= gpNow'
      <4> DEFINE x == Gps!Second(gpUtcP')
      <4>1. x \in Int /\ x <= m.t /\ m.t \in Nat /\ m.t <= gpNow /\ gpNow \in Nat
        BY <1>1, <1>4, <2>2, <3>1
      <4> HIDE DEF x
      <4>2. x <= gpNow
        BY <4>1
      <4> QED
        BY <1>3, <4>2 DEF x
    <3>6. /\ \A i, j \in 1 .. Len(gpLine') : i <= j => gpLine'[i].t <= gpLine'[j].t
          /\ \A i, j \in 1 .. Len(gpLine') :
                gpLine'[i].k = "UBX" /\ gpLine'[j].k = "UBX" /\ gpLine'[i].t = gpLine'[j].t
                => i = j
      BY <1>1, <1>2, <1>3, ShortenedKeeps
    <3> QED
      BY <3>1, <3>4, <3>5, <3>6 DEF LineInOrder
  <2> QED
    BY <1>10, <2>1, <2>2
<1>12. (NativeRead => NativeRead') /\ gpLine' \in Seq(Sentence)' /\ Len(gpLine') <= MaxLine
  BY <1>1, <1>2, <1>3, ShortenedKeeps
<1>13. ReferenceIs' /\ MarksAreTold'
  BY <1>1, <1>3, <1>12, ReferenceStays DEF GpsInv
<1>14. GpsTypes'
  BY <1>1, <1>3, <1>10, <1>12 DEF GpsTypes
<1>15. Gps!PosFromOneSentence'
  BY <1>3 DEF GpsInv, Gps!PosFromOneSentence
<1> QED
  BY <1>11, <1>13, <1>14, <1>15 DEF GpsInv

\* Positions, and sentences that say nothing.
LEMMA GgaKeepsGps ==
    ASSUME GpsInv, Gps!ParseGga \/ Gps!Ignore
    PROVE  GpsInv'
<1> DEFINE m == gpLine[1]
<1>1. GpsTypes /\ LineInOrder /\ gpNow \in Nat /\ gpLine \in Seq(Sentence)
  BY DEF GpsInv, GpsTypes
<1>2. Shortened /\ gpLine # <<>> /\ Head(gpLine) = m /\ m \in Sentence
  <2>1. gpLine # <<>> /\ gpLine' = Tail(gpLine)
    BY DEF Gps!ParseGga, Gps!Ignore, Gps!Read
  <2> QED
    BY <1>1, <2>1 DEF Shortened
<1>3. m.t \in Nat
  BY <1>2, GpsConstants DEF Sentence
<1>4. /\ gpNow' = gpNow /\ gpPort' = gpPort /\ gpUbxOn' = gpUbxOn /\ gpResult' = gpResult
      /\ gpGpsP' = gpGpsP /\ gpUtcP' = gpUtcP /\ gpRef' = gpRef
      /\ gpAber' = gpAber /\ gpRun' = gpRun /\ gpTimeOk' = gpTimeOk
      /\ gpPosOk' \in BOOLEAN /\ gpPos' \in [lat : Nat, lon : Nat, alt : Nat]
      /\ Gps!PosFromOneSentence'
  <2>1. CASE Gps!Ignore
    <3>1. gpPos' = gpPos /\ gpPosOk' = gpPosOk
      BY <2>1 DEF Gps!Ignore, Gps!posVars
    <3>2. Gps!PosFromOneSentence' /\ gpPosOk' \in BOOLEAN /\ gpPos' \in [lat : Nat, lon : Nat, alt : Nat]
      BY <1>1, <3>1 DEF GpsInv, GpsTypes, Gps!PosFromOneSentence
    <3> QED
      BY <2>1, <3>2 DEF Gps!Ignore, Gps!gpsVars, Gps!syncVars
  <2>2. CASE Gps!ParseGga
    <3>1. /\ gpPos' = IF m.q = "fix" THEN [lat |-> m.t, lon |-> m.t, alt |-> m.t]
                      ELSE [gpPos EXCEPT !.lat = m.t, !.lon = m.t]
          /\ gpPosOk' = (m.q = "fix")
      BY <1>2, <2>2 DEF Gps!ParseGga
    <3>2. Gps!PosFromOneSentence' /\ gpPosOk' \in BOOLEAN /\ gpPos' \in [lat : Nat, lon : Nat, alt : Nat]
      <4> HIDE DEF m
      <4> QED
        BY <1>1, <1>3, <3>1 DEF GpsTypes, Gps!PosFromOneSentence
    <3> QED
      BY <2>2, <3>2 DEF Gps!ParseGga, Gps!gpsVars, Gps!syncVars
  <2> QED
    BY <2>1, <2>2
<1>5. LineInOrder' /\ (NativeRead => NativeRead') /\ gpLine' \in Seq(Sentence)' /\ Len(gpLine') <= MaxLine
  BY <1>1, <1>2, <1>4, ShortenedKeeps
<1>6. ReferenceIs' /\ MarksAreTold'
  BY <1>1, <1>4, <1>5, ReferenceStays DEF GpsInv
<1>7. GpsTypes'
  BY <1>1, <1>4, <1>5 DEF GpsTypes
<1> QED
  BY <1>4, <1>5, <1>6, <1>7 DEF GpsInv

\* Against a true reference whose counter has not wrapped, a point is in range if
\* and only if its UTC is that of the pulse, and a later one than the reference.
LEMMA InRangeIsRight ==
    ASSUME GpsTypes, ReferenceIs, Gps!RefTrue, ~ Paused, NEW u \in Int, NEW g
    PROVE  Gps!InRange([cnt |-> Gps!PulseCnt(gpNow), utc |-> u, gps |-> g])
           <=> u = gpNow /\ u # gpRun.of
<1> DEFINE p == [cnt |-> Gps!PulseCnt(gpNow), utc |-> u, gps |-> g]
           o == gpRun.of
           a == (o * Cps) + Sub
           e == (gpNow - o) * Cps
<1>1. /\ gpNow \in Nat /\ o \in 0 .. gpNow /\ o \in Nat /\ gpRef.utc = o
      /\ Cps \in Nat \ {0} /\ CntMod \in Nat \ {0} /\ Sub \in Nat
  BY GpsConstants DEF GpsTypes, Gps!RefTrue
<1>2. a \in Int /\ (gpNow * Cps) + Sub = a + e /\ e \in Int
  BY <1>1
<1>3. e \in 0 .. CntMod - 1
  <2>1. e < CntMod
    BY <1>1, <1>2 DEF Paused
  <2>2. e >= 0
    <3>1. e = Cps * (gpNow - o) /\ gpNow - o \in Int /\ gpNow - o >= 0
      BY <1>1
    <3>2. gpNow - o = 0 \/ gpNow - o >= 1
      BY <3>1
    <3> QED
      BY <1>1, <3>1, <3>2, Multiple
  <2> QED
    BY <1>1, <1>2, <2>1, <2>2
<1>4. p.cnt = (a + e) % CntMod /\ gpRef.cnt = a % CntMod /\ p.utc = u
  <2>1. gpRef.cnt = Gps!PulseCnt(o)
    BY DEF ReferenceIs, Gps!RefTrue
  <2> QED
    BY <1>2, <2>1 DEF Gps!PulseCnt, Gps!Cnt
<1> HIDE DEF p, a, e
<1>5. (p.cnt - gpRef.cnt) % CntMod = e
  <2>1. (((a + e) % CntMod) - (a % CntMod)) % CntMod = e
    BY <1>1, <1>2, <1>3, DifferenceIs
  <2> QED
    BY <1>4, <2>1
<1>6. Gps!InRange(p) <=> ((u - o) * Cps # 0 /\ e = (u - o) * Cps)
  BY <1>1, <1>4, <1>5 DEF Gps!InRange
<1>7. (u - o) * Cps = 0 <=> u = o
  <2>1. (u - o) * Cps = Cps * (u - o) /\ u - o \in Int
    BY <1>1
  <2>2. u - o >= 1 \/ u - o <= -1 \/ u - o = 0
    BY <1>1
  <2>3. u - o = 0 <=> u = o
    BY <1>1
  <2>4. Cps * (u - o) \in Int
    BY <1>1
  <2> QED
    BY <1>1, <2>1, <2>2, <2>3, <2>4, Multiple
<1>8. e = (u - o) * Cps <=> u = gpNow
  <2>1. e = (gpNow - o) * Cps
    BY DEF e
  <2>2. (gpNow - o) * Cps - (u - o) * Cps = Cps * (gpNow - u) /\ gpNow - u \in Int
    BY <1>1
  <2>3. gpNow - u >= 1 \/ gpNow - u <= -1 \/ gpNow - u = 0
    BY <2>2
  <2>4. gpNow - u = 0 <=> u = gpNow
    BY <1>1
  <2>5. (gpNow - o) * Cps \in Int /\ (u - o) * Cps \in Int /\ Cps * (gpNow - u) \in Int
    BY <1>1, <2>2
  <2> QED
    BY <1>1, <2>1, <2>2, <2>3, <2>4, <2>5, Multiple
<1> QED
  BY <1>6, <1>7, <1>8 DEF p

\* What a native time does: nothing to the reference when it is not valid, else a
\* point of this pulse with the UTC of the parser.
NewPoint(g) == [cnt |-> Gps!PulseCnt(gpNow), utc |-> Gps!Second(gpUtcP), gps |-> g]

\* (When the UTC is of this pulse, so is the native time: it was not read before.)
LEMMA UbxIs ==
    ASSUME GpsInv, Gps!ParseUbx
    PROVE  /\ Shortened /\ gpNow' = gpNow /\ gpPort' = gpPort /\ gpUbxOn' = gpUbxOn
           /\ gpUtcP' = gpUtcP /\ gpPos' = gpPos /\ gpPosOk' = gpPosOk
           /\ gpResult' \in {"success", "error"}
           /\ gpGpsP' \in Parsed /\ gpTimeOk' \in BOOLEAN
           /\ \/ gpRef' = gpRef /\ gpAber' = gpAber /\ gpRun' = gpRun
              \/ \E g \in Nat : Gps!lgw_gps_sync(NewPoint(g))
           /\ Gps!Second(gpUtcP) = gpNow => ~ (Gps!RefTrue /\ gpRun.of = gpNow) /\ NativeRead'
<1> DEFINE m == gpLine[1]
           d == Gps!Split(m.t)
<1>1. GpsTypes /\ LineInOrder /\ gpNow \in Nat /\ gpLine \in Seq(Sentence)
  BY DEF GpsInv, GpsTypes
<1>2. /\ Shortened /\ gpLine # <<>> /\ Head(gpLine) = m /\ m \in Sentence /\ 1 \in 1 .. Len(gpLine)
      /\ m.k = "UBX" /\ gpLine' = Tail(gpLine)
  BY <1>1, ReadShortens DEF Gps!ParseUbx
<1>3. m.t \in Nat /\ m.t <= gpNow
  BY <1>1, <1>2, GpsConstants DEF Sentence
<1>4. Day \in Nat \ {0} /\ gpGpsP \in Parsed
  BY <1>1, GpsConstants DEF GpsTypes
<1> HIDE DEF m
<1>5. d \in Parsed
  BY <1>3, SplitIs
<1> HIDE DEF d
<1>6. gpGpsP' \in Parsed
  <2>1. gpGpsP' = CASE m.q = "both" -> d
                    [] m.q = "week" -> [d EXCEPT !.sec = 0]
                    [] m.q = "tow"  -> [d EXCEPT !.day = 0]
                    [] OTHER -> gpGpsP
    BY <1>2 DEF Gps!ParseUbx, Gps!Native, d
  <2>2. [d EXCEPT !.sec = 0] \in Parsed /\ [d EXCEPT !.day = 0] \in Parsed
    BY <1>4, <1>5 DEF Parsed
  <2> QED
    BY <1>4, <1>5, <2>1, <2>2
<1>7. gpTimeOk' = (m.q # "none") /\ gpTimeOk' \in BOOLEAN
  BY <1>2 DEF Gps!ParseUbx
<1>8. Gps!Second(gpGpsP') \in Nat
  BY <1>6, SecondIs
<1>9. \/ gpRef' = gpRef /\ gpAber' = gpAber /\ gpRun' = gpRun /\ gpResult' = "error"
      \/ \E g \in Nat : Gps!lgw_gps_sync(NewPoint(g))
  <2>1. CASE gpTimeOk'
    <3>1. Gps!lgw_gps_sync(NewPoint(Gps!Second(gpGpsP')))
      BY <2>1 DEF Gps!ParseUbx, NewPoint
    <3> QED
      BY <1>8, <3>1
  <2>2. CASE ~ gpTimeOk'
    BY <2>2 DEF Gps!ParseUbx, Gps!syncVars
  <2> QED
    BY <2>1, <2>2
<1>10. (\E g \in Nat : Gps!lgw_gps_sync(NewPoint(g))) => gpResult' \in {"success", "error"}
  BY DEF Gps!lgw_gps_sync
<1>11. ASSUME Gps!Second(gpUtcP) = gpNow
       PROVE  ~ (Gps!RefTrue /\ gpRun.of = gpNow) /\ NativeRead'
  <2>1. m.t = gpNow
    <3>1. Gps!Second(gpUtcP) <= m.t
      BY <1>1, <1>2 DEF LineInOrder, m
    <3> QED
      BY <1>1, <1>3, <1>11, <3>1
  <2>2. ~ NativeRead
    BY <1>2, <2>1 DEF NativeRead, m
  <2>3. NativeRead'
    <3> SUFFICES ASSUME NEW i \in 1 .. Len(gpLine'), gpLine'[i].k = "UBX", gpLine'[i].t = gpNow
                 PROVE  FALSE
      BY DEF NativeRead, Gps!ParseUbx
    <3>1. gpLine'[i] = gpLine[i + 1] /\ i + 1 \in 1 .. Len(gpLine)
      BY <1>1, <1>2
    <3>2. i + 1 = 1
      BY <1>1, <1>2, <2>1, <3>1 DEF LineInOrder, m
    <3> QED
      BY <3>2
  <2> QED
    BY <2>2, <2>3 DEF GpsInv, ReferenceIs
<1> QED
  BY <1>2, <1>6, <1>7, <1>9, <1>10, <1>11 DEF Gps!ParseUbx, Gps!posVars

\* The reference and the marks after a point, with its value in range or not and
\* right or not.
LEMMA SyncIs ==
    ASSUME GpsTypes, NEW g \in Nat, Gps!lgw_gps_sync(NewPoint(g))
    PROVE  LET inRange == Gps!InRange(NewPoint(g))
               right == Gps!Second(gpUtcP) = gpNow
               adopted == inRange \/ (gpAber[1] /\ gpAber[2])
           IN  /\ gpAber' = <<~ inRange, gpAber[1]>>
               /\ adopted => /\ gpRef'.systime = 1 /\ gpRef'.xtal = 1
                             /\ gpRef'.cnt = Gps!PulseCnt(gpNow)
                             /\ gpRef'.utc = Gps!Second(gpUtcP)
                             /\ gpRun'.of = gpNow
               /\ ~ adopted => gpRef' = gpRef /\ gpRun'.of = gpRun.of
               /\ gpRun'.firm = (inRange \/ (gpRun.firm /\ ~ (gpAber[1] /\ gpAber[2])))
               /\ right => /\ gpRun'.right = (IF gpRun.right < 3 THEN gpRun.right + 1 ELSE 3)
                           /\ gpRun'.wrong = 0
               /\ ~ right => /\ gpRun'.right = 0
                             /\ gpRun'.wrong = (IF gpRun.wrong < 3 THEN gpRun.wrong + 1 ELSE 3)
               /\ gpRef' \in [systime : {0, 1}, cnt : 0 .. (CntMod - 1), utc : Nat, gps : Nat, xtal : {0, 1}]
               /\ gpAber' \in [1 .. 2 -> BOOLEAN]
               /\ gpRun' \in [right : 0 .. 3, wrong : 0 .. 3, firm : BOOLEAN, of : 0 .. gpNow]
<1> DEFINE p == NewPoint(g)
           inRange == Gps!InRange(p)
           right == Gps!Second(gpUtcP) = gpNow
           third == gpAber[1] /\ gpAber[2]
           N(n, counts) == IF ~ counts THEN 0 ELSE IF n < 3 THEN n + 1 ELSE 3
<1>1. /\ p.cnt = Gps!PulseCnt(gpNow) /\ p.utc = Gps!Second(gpUtcP) /\ p.gps = g
      /\ Gps!Right(p) = right /\ Gps!ThirdAberrant = third
  BY DEF NewPoint, Gps!Right, Gps!ThirdAberrant
<1>2. inRange \in BOOLEAN /\ right \in BOOLEAN
  BY DEF Gps!InRange
<1>3. p.cnt \in 0 .. (CntMod - 1) /\ p.utc \in Nat
  <2>1. gpNow * Cps + Sub \in Int /\ CntMod \in Nat \ {0} /\ Day \in Nat
    BY GpsConstants DEF GpsTypes
  <2>2. Gps!PulseCnt(gpNow) \in 0 .. (CntMod - 1)
    BY <2>1, Euclid DEF Gps!PulseCnt, Gps!Cnt
  <2>3. Gps!Second(gpUtcP) \in Nat
    BY SecondIs DEF GpsTypes
  <2> QED
    BY <1>1, <2>2, <2>3
<1> HIDE DEF p, inRange, right, third
<1>4. gpAber' = <<~ inRange, gpAber[1]>>
  BY DEF Gps!lgw_gps_sync, inRange, p
<1>5. gpRef' = IF inRange \/ third THEN Gps!Adopt(p, inRange) ELSE gpRef
  BY <1>1 DEF Gps!lgw_gps_sync, inRange, p
<1>6. gpRun' = [right |-> N(gpRun.right, right), wrong |-> N(gpRun.wrong, ~ right),
                firm |-> inRange \/ (gpRun.firm /\ ~ third),
                of |-> IF inRange \/ third THEN gpNow ELSE gpRun.of]
  BY <1>1 DEF Gps!lgw_gps_sync, inRange, p
<1>7. /\ gpRun.right \in 0 .. 3 /\ gpRun.wrong \in 0 .. 3 /\ gpRun.firm \in BOOLEAN
      /\ gpRun.of \in 0 .. gpNow /\ gpNow \in 0 .. gpNow
  BY DEF GpsTypes
<1>8. gpAber[1] \in BOOLEAN /\ gpAber[2] \in BOOLEAN /\ third \in BOOLEAN
  BY DEF GpsTypes, third
<1>9. gpRun' \in [right : 0 .. 3, wrong : 0 .. 3, firm : BOOLEAN, of : 0 .. gpNow]
  <2>1. N(gpRun.right, right) \in 0 .. 3 /\ N(gpRun.wrong, ~ right) \in 0 .. 3
    BY <1>2, <1>7
  <2>2. (inRange \/ (gpRun.firm /\ ~ third)) \in BOOLEAN
    BY <1>2, <1>7, <1>8
  <2>3. (IF inRange \/ third THEN gpNow ELSE gpRun.of) \in 0 .. gpNow
    BY <1>7
  <2> HIDE DEF N
  <2> QED
    BY <1>6, <2>1, <2>2, <2>3
<1>10. /\ Gps!Adopt(p, inRange).systime = 1 /\ Gps!Adopt(p, inRange).cnt = p.cnt
       /\ Gps!Adopt(p, inRange).utc = p.utc /\ Gps!Adopt(p, inRange).xtal = 1
       /\ Gps!Adopt(p, inRange) \in
             [systime : {0, 1}, cnt : 0 .. (CntMod - 1), utc : Nat, gps : Nat, xtal : {0, 1}]
  BY <1>1, <1>3 DEF Gps!Adopt
<1>11. gpRef' \in [systime : {0, 1}, cnt : 0 .. (CntMod - 1), utc : Nat, gps : Nat, xtal : {0, 1}]
  BY <1>5, <1>10 DEF GpsTypes
<1>12. gpAber' \in [1 .. 2 -> BOOLEAN]
  BY <1>2, <1>4, <1>8, PairIs
<1>13. inRange \/ third => /\ gpRef'.systime = 1 /\ gpRef'.xtal = 1
                           /\ gpRef'.cnt = Gps!PulseCnt(gpNow)
                           /\ gpRef'.utc = Gps!Second(gpUtcP)
                           /\ gpRun'.of = gpNow
  BY <1>1, <1>5, <1>6, <1>10
<1>14. ~ (inRange \/ third) => gpRef' = gpRef /\ gpRun'.of = gpRun.of
  BY <1>5, <1>6
<1>15. gpRun'.firm = (inRange \/ (gpRun.firm /\ ~ third))
  BY <1>6
<1>16. /\ right => /\ gpRun'.right = (IF gpRun.right < 3 THEN gpRun.right + 1 ELSE 3)
                   /\ gpRun'.wrong = 0
       /\ ~ right => /\ gpRun'.right = 0
                     /\ gpRun'.wrong = (IF gpRun.wrong < 3 THEN gpRun.wrong + 1 ELSE 3)
  BY <1>6
<1> QED
  BY <1>4, <1>9, <1>11, <1>12, <1>13, <1>14, <1>15, <1>16 DEF p, inRange, right, third

\* A point keeps the invariant, and loses a true and confirmed reference to a third
\* wrong point or after a pause only.
LEMMA SyncKeepsGps ==
    ASSUME GpsTypes, ReferenceIs, MarksAreTold, gpNow' = gpNow,
           Gps!Second(gpUtcP) = gpNow => ~ (Gps!RefTrue /\ gpRun.of = gpNow) /\ NativeRead',
           NativeRead => NativeRead',
           NEW g \in Nat, Gps!lgw_gps_sync(NewPoint(g))
    PROVE  /\ ReferenceIs' /\ MarksAreTold'
           /\ Gps!RefTrue /\ gpRun.firm /\ ~ Gps!RefTrue' => gpRun'.wrong = 3 \/ Paused
<1> DEFINE inRange == Gps!InRange(NewPoint(g))
           right == Gps!Second(gpUtcP) = gpNow
           third == gpAber[1] /\ gpAber[2]
<1>1. /\ gpAber' = <<~ inRange, gpAber[1]>>
      /\ inRange \/ third => /\ gpRef'.systime = 1 /\ gpRef'.xtal = 1
                             /\ gpRef'.cnt = Gps!PulseCnt(gpNow)
                             /\ gpRef'.utc = Gps!Second(gpUtcP)
                             /\ gpRun'.of = gpNow
      /\ ~ (inRange \/ third) => gpRef' = gpRef /\ gpRun'.of = gpRun.of
      /\ gpRun'.firm = (inRange \/ (gpRun.firm /\ ~ third))
      /\ right => /\ gpRun'.right = (IF gpRun.right < 3 THEN gpRun.right + 1 ELSE 3)
                  /\ gpRun'.wrong = 0
      /\ ~ right => /\ gpRun'.right = 0
                    /\ gpRun'.wrong = (IF gpRun.wrong < 3 THEN gpRun.wrong + 1 ELSE 3)
  BY SyncIs
<1>2. /\ gpRun.right \in 0 .. 3 /\ gpRun.wrong \in 0 .. 3 /\ gpNow \in Nat
      /\ gpRun.of \in 0 .. gpNow
  BY DEF GpsTypes
<1>3. gpAber'[1] = ~ inRange /\ gpAber'[2] = gpAber[1]
  BY <1>1
<1>4. Gps!RefTrue /\ ~ Paused => (inRange <=> right /\ ~ (gpRun.of = gpNow))
  <2>1. Gps!Second(gpUtcP) \in Int
    BY SecondIs DEF GpsTypes
  <2> QED
    BY <1>2, <2>1, InRangeIsRight DEF NewPoint
<1>5. Gps!RefTrue /\ right /\ ~ inRange => Paused
  BY <1>4
<1>6. Gps!RefTrue /\ ~ right /\ inRange => Paused
  BY <1>4
<1>7. inRange \/ third => (Gps!RefTrue' <=> right)
  BY <1>1 DEF Gps!RefTrue, Gps!RefSet
<1>8. ~ (inRange \/ third) => (Gps!RefTrue' <=> Gps!RefTrue) /\ (Gps!RefSet' <=> Gps!RefSet)
                              /\ (Paused' <=> Paused)
  BY <1>1 DEF Gps!RefTrue, Gps!RefSet, Paused
<1> HIDE DEF inRange, right, third
<1>9. ReferenceIs'
  <2>1. CASE inRange \/ third
    <3>1. Gps!PulseCnt(gpRun.of)' = gpRef'.cnt
      BY <1>1, <2>1 DEF Gps!PulseCnt, Gps!Cnt
    <3>2. Gps!RefTrue' => NativeRead'
      BY <1>7, <2>1 DEF right
    <3> QED
      BY <3>1, <3>2 DEF ReferenceIs
  <2>2. CASE ~ (inRange \/ third)
    <3>1. Gps!PulseCnt(gpRun.of)' = Gps!PulseCnt(gpRun.of) /\ gpRef' = gpRef /\ gpRun'.of = gpRun.of
      BY <1>1, <2>2 DEF Gps!PulseCnt, Gps!Cnt
    <3> QED
      BY <1>8, <2>2, <3>1 DEF ReferenceIs
  <2> QED
    BY <2>1, <2>2
<1>10. gpRun'.right >= 1 => right
  BY <1>1
<1>11. gpRun'.right >= 2 => gpRun.right >= 1
  BY <1>1, <1>2, <1>10
<1>12. gpRun'.right = 3 => gpRun.right >= 2
  BY <1>1, <1>2, <1>10
<1>13. ~ right => gpRun'.wrong >= 1
  BY <1>1, <1>2
<1>14. ~ right /\ gpRun.wrong >= 1 => gpRun'.wrong >= 2
  BY <1>1, <1>2
<1>15. ~ right /\ gpRun.wrong >= 2 => gpRun'.wrong = 3
  BY <1>1, <1>2
<1>16. gpRun'.right >= 1 /\ ~ gpAber'[1] => Gps!RefTrue'
  BY <1>3, <1>7, <1>10
<1>17. gpRun'.right >= 2 /\ ~ gpAber'[2] => Gps!RefTrue'
  <2> SUFFICES ASSUME gpRun'.right >= 2, ~ gpAber[1] PROVE Gps!RefTrue'
    BY <1>3
  <2>1. right /\ Gps!RefTrue /\ ~ third
    <3>1. gpRun'.right \in Int /\ gpRun'.right >= 1
      BY <1>1, <1>2
    <3> QED
      BY <1>10, <1>11, <3>1 DEF MarksAreTold, third
  <2> QED
    BY <1>7, <1>8, <2>1
<1>18. gpRun'.right = 3 => Gps!RefTrue'
  <2> SUFFICES ASSUME gpRun'.right = 3, ~ (inRange \/ third) PROVE Gps!RefTrue
    BY <1>7, <1>8, <1>10
  <2>1. gpRun.right >= 2 /\ gpRun.right >= 1
    BY <1>2, <1>12
  <2> QED
    BY <2>1 DEF MarksAreTold, third
<1>19. Gps!RefTrue' /\ gpRun'.firm /\ gpAber'[1] => gpRun'.wrong >= 1 \/ Paused'
  <2> SUFFICES ASSUME Gps!RefTrue', gpRun'.firm, ~ inRange PROVE gpRun'.wrong >= 1 \/ Paused'
    BY <1>3
  <2>1. ~ third /\ Gps!RefTrue
    BY <1>1, <1>8 DEF third
  <2> QED
    BY <1>5, <1>8, <1>13, <2>1
<1>20. Gps!RefTrue' /\ gpRun'.firm /\ gpAber'[1] /\ gpAber'[2] => gpRun'.wrong >= 2 \/ Paused'
  <2> SUFFICES ASSUME Gps!RefTrue', gpRun'.firm, ~ inRange, gpAber[1]
               PROVE  gpRun'.wrong >= 2 \/ Paused'
    BY <1>3
  <2>1. ~ third /\ Gps!RefTrue /\ gpRun.firm
    BY <1>1, <1>8 DEF third
  <2>2. gpRun.wrong >= 1 \/ Paused
    BY <2>1 DEF MarksAreTold
  <2> QED
    BY <1>5, <1>8, <1>14, <2>1, <2>2
<1>21. Gps!RefTrue /\ gpRun.firm /\ ~ Gps!RefTrue' => gpRun'.wrong = 3 \/ Paused
  <2> SUFFICES ASSUME Gps!RefTrue, gpRun.firm, ~ Gps!RefTrue' PROVE gpRun'.wrong = 3 \/ Paused
    OBVIOUS
  <2>1. ~ right /\ (inRange \/ third)
    BY <1>7, <1>8
  <2>2. third => gpRun.wrong >= 2 \/ Paused
    BY DEF MarksAreTold, third
  <2> QED
    BY <1>6, <1>15, <2>1, <2>2
<1>22. MarksAreTold'
  BY <1>16, <1>17, <1>18, <1>19, <1>20 DEF MarksAreTold
<1> QED
  BY <1>9, <1>21, <1>22

\* A native time, with or without a point.
LEMMA UbxKeepsGps ==
    ASSUME GpsInv, Gps!ParseUbx
    PROVE  /\ GpsInv'
           /\ Gps!RefTrue /\ gpRun.firm /\ ~ Gps!RefTrue' => gpRun'.wrong = 3 \/ Paused
<1>1. GpsTypes /\ LineInOrder /\ ReferenceIs /\ MarksAreTold /\ gpNow \in Nat
  BY DEF GpsInv, GpsTypes
<1>2. /\ Shortened /\ gpNow' = gpNow /\ gpPort' = gpPort /\ gpUbxOn' = gpUbxOn
      /\ gpUtcP' = gpUtcP /\ gpPos' = gpPos /\ gpPosOk' = gpPosOk
      /\ gpResult' \in {"success", "error"}
      /\ gpGpsP' \in Parsed /\ gpTimeOk' \in BOOLEAN
      /\ Gps!Second(gpUtcP) = gpNow => ~ (Gps!RefTrue /\ gpRun.of = gpNow) /\ NativeRead'
  BY UbxIs
<1>3. LineInOrder' /\ (NativeRead => NativeRead') /\ gpLine' \in Seq(Sentence)' /\ Len(gpLine') <= MaxLine
  BY <1>1, <1>2, ShortenedKeeps
<1>4. Gps!PosFromOneSentence'
  BY <1>2 DEF GpsInv, Gps!PosFromOneSentence
<1>5. CASE gpRef' = gpRef /\ gpAber' = gpAber /\ gpRun' = gpRun
  <2>1. ReferenceIs' /\ MarksAreTold'
    BY <1>1, <1>2, <1>3, <1>5, ReferenceStays
  <2>2. GpsTypes'
    BY <1>1, <1>2, <1>3, <1>5 DEF GpsTypes, Parsed
  <2>3. Gps!RefTrue' = Gps!RefTrue
    BY <1>5 DEF Gps!RefTrue, Gps!RefSet
  <2> QED
    BY <1>3, <1>4, <2>1, <2>2, <2>3 DEF GpsInv
<1>6. CASE \E g \in Nat : Gps!lgw_gps_sync(NewPoint(g))
  <2>1. PICK g \in Nat : Gps!lgw_gps_sync(NewPoint(g))
    BY <1>6
  <2>2. /\ ReferenceIs' /\ MarksAreTold'
        /\ Gps!RefTrue /\ gpRun.firm /\ ~ Gps!RefTrue' => gpRun'.wrong = 3 \/ Paused
    BY <1>1, <1>2, <1>3, <2>1, SyncKeepsGps
  <2>3. /\ gpRef' \in [systime : {0, 1}, cnt : 0 .. (CntMod - 1), utc : Nat, gps : Nat, xtal : {0, 1}]
        /\ gpAber' \in [1 .. 2 -> BOOLEAN]
        /\ gpRun' \in [right : 0 .. 3, wrong : 0 .. 3, firm : BOOLEAN, of : 0 .. gpNow]
    BY <1>1, <2>1, SyncIs
  <2>4. GpsTypes'
    BY <1>1, <1>2, <1>3, <2>3 DEF GpsTypes, Parsed
  <2> QED
    BY <1>3, <1>4, <2>2, <2>4 DEF GpsInv
<1> QED
  BY <1>5, <1>6, UbxIs

\* A step of either part, of times or of positions.
GpsMove ==
    \/ Gps!lgw_gps_enable \/ Gps!lgw_gps_disable
    \/ \E b \in TimeBursts \cup PosBursts : PulseOf(b)
    \/ Gps!ParseRmc \/ Gps!ParseGga \/ Gps!ParseUbx \/ Gps!Ignore

\* The two parts differ in their bursts and their length only.
LEMMA NextIsMove == Gps!Next \/ GpsPos!Next => GpsMove
<1>1. Gps!Pulse => \E b \in TimeBursts : PulseOf(b)
  BY DEF Gps!Pulse, PulseOf, Gps!gpsVars, Gps!posVars, Gps!syncVars
<1>2. GpsPos!Pulse => \E b \in PosBursts : PulseOf(b)
  BY DEF GpsPos!Pulse, PulseOf, GpsPos!gpsVars, GpsPos!posVars, GpsPos!syncVars, GpsPos!Stamped, Gps!Stamped
<1>3. GpsPos!lgw_gps_enable => Gps!lgw_gps_enable
  BY DEF GpsPos!lgw_gps_enable, Gps!lgw_gps_enable, GpsPos!syncVars, Gps!syncVars
<1>4. GpsPos!lgw_gps_disable => Gps!lgw_gps_disable
  BY DEF GpsPos!lgw_gps_disable, Gps!lgw_gps_disable, GpsPos!syncVars, Gps!syncVars,
     GpsPos!gpsVars, Gps!gpsVars, GpsPos!posVars, Gps!posVars
<1>5. GpsPos!ParseRmc => Gps!ParseRmc
  BY DEF GpsPos!ParseRmc, Gps!ParseRmc, GpsPos!Read, Gps!Read, GpsPos!Split, Gps!Split,
     GpsPos!syncVars, Gps!syncVars, GpsPos!posVars, Gps!posVars
<1>6. GpsPos!ParseGga => Gps!ParseGga
  BY DEF GpsPos!ParseGga, Gps!ParseGga, GpsPos!Read, Gps!Read, GpsPos!syncVars, Gps!syncVars,
     GpsPos!gpsVars, Gps!gpsVars
<1>7. GpsPos!ParseUbx => Gps!ParseUbx
  BY DEF GpsPos!ParseUbx, Gps!ParseUbx, GpsPos!Read, Gps!Read, GpsPos!Native, Gps!Native,
     GpsPos!Split, Gps!Split, GpsPos!lgw_gps_sync, Gps!lgw_gps_sync, GpsPos!InRange, Gps!InRange,
     GpsPos!Adopt, Gps!Adopt, GpsPos!ThirdAberrant, Gps!ThirdAberrant, GpsPos!Right, Gps!Right,
     GpsPos!PulseCnt, Gps!PulseCnt, GpsPos!Cnt, Gps!Cnt, GpsPos!Second, Gps!Second,
     GpsPos!syncVars, Gps!syncVars, GpsPos!posVars, Gps!posVars
<1>8. GpsPos!Ignore => Gps!Ignore
  BY DEF GpsPos!Ignore, Gps!Ignore, GpsPos!syncVars, Gps!syncVars, GpsPos!gpsVars, Gps!gpsVars,
     GpsPos!posVars, Gps!posVars
<1> QED
  BY <1>1, <1>2, <1>3, <1>4, <1>5, <1>6, <1>7, <1>8 DEF GpsMove, Gps!Next, GpsPos!Next

\* Every step keeps the invariant and a confirmed reference.
LEMMA NextKeepsGps ==
    ASSUME GpsInv, GpsMove \/ UNCHANGED gpVars
    PROVE  /\ GpsInv'
           /\ Gps!RefTrue /\ gpRun.firm /\ ~ Gps!RefTrue' => gpRun'.wrong = 3 \/ Paused
<1>1. CASE Gps!lgw_gps_enable \/ Gps!lgw_gps_disable
  <2>1. gpRef' = gpRef /\ gpRun' = gpRun
    BY <1>1 DEF Gps!lgw_gps_enable, Gps!lgw_gps_disable, Gps!syncVars
  <2>2. Gps!RefTrue' = Gps!RefTrue
    BY <2>1 DEF Gps!RefTrue, Gps!RefSet
  <2> QED
    BY <1>1, <2>2, EnableKeepsGps
<1>2. CASE \E b \in TimeBursts \cup PosBursts : PulseOf(b)
  <2>1. GpsInv'
    BY <1>2, GpsConstants, PulseKeepsGps
  <2>2. gpRef' = gpRef /\ gpRun' = gpRun
    BY <1>2 DEF PulseOf
  <2>3. Gps!RefTrue' = Gps!RefTrue
    BY <2>2 DEF Gps!RefTrue, Gps!RefSet
  <2> QED
    BY <2>1, <2>3
<1>3. CASE Gps!ParseRmc
  <2>1. gpRef' = gpRef /\ gpRun' = gpRun
    BY <1>3 DEF Gps!ParseRmc, Gps!syncVars
  <2>2. Gps!RefTrue' = Gps!RefTrue
    BY <2>1 DEF Gps!RefTrue, Gps!RefSet
  <2> QED
    BY <1>3, <2>2, RmcKeepsGps
<1>4. CASE Gps!ParseGga \/ Gps!Ignore
  <2>1. gpRef' = gpRef /\ gpRun' = gpRun
    BY <1>4 DEF Gps!ParseGga, Gps!Ignore, Gps!syncVars
  <2>2. Gps!RefTrue' = Gps!RefTrue
    BY <2>1 DEF Gps!RefTrue, Gps!RefSet
  <2> QED
    BY <1>4, <2>2, GgaKeepsGps
<1>5. CASE Gps!ParseUbx
  BY <1>5, UbxKeepsGps
<1>6. CASE UNCHANGED gpVars
  <2>1. /\ gpNow' = gpNow /\ gpLine' = gpLine /\ gpPort' = gpPort /\ gpUbxOn' = gpUbxOn
        /\ gpResult' = gpResult /\ gpUtcP' = gpUtcP /\ gpGpsP' = gpGpsP /\ gpTimeOk' = gpTimeOk
        /\ gpPos' = gpPos /\ gpPosOk' = gpPosOk /\ gpRef' = gpRef /\ gpAber' = gpAber /\ gpRun' = gpRun
    BY <1>6 DEF gpVars
  <2>2. GpsTypes /\ LineInOrder /\ gpNow \in Nat /\ Shortened
    BY <2>1 DEF GpsInv, GpsTypes, Shortened
  <2>3. LineInOrder' /\ (NativeRead => NativeRead') /\ gpLine' \in Seq(Sentence)' /\ Len(gpLine') <= MaxLine
    BY <2>1, <2>2, ShortenedKeeps
  <2>4. ReferenceIs' /\ MarksAreTold'
    BY <2>1, <2>2, <2>3, ReferenceStays DEF GpsInv
  <2>5. GpsTypes'
    BY <2>1, <2>2, <2>3 DEF GpsTypes
  <2>6. Gps!PosFromOneSentence' /\ Gps!RefTrue' = Gps!RefTrue
    BY <2>1 DEF GpsInv, Gps!PosFromOneSentence, Gps!RefTrue, Gps!RefSet
  <2> QED
    BY <2>3, <2>4, <2>5, <2>6 DEF GpsInv
<1> QED
  BY <1>1, <1>2, <1>3, <1>4, <1>5, <1>6 DEF GpsMove

\* The start: nothing read, no reference.
LEMMA GpsStarts == Gps!Init => GpsInv
<1> SUFFICES ASSUME Gps!Init PROVE GpsInv
  OBVIOUS
<1>1. /\ gpNow = Epoch /\ gpLine = <<>> /\ gpPort = "closed" /\ gpUbxOn = FALSE /\ gpResult = Nil
      /\ gpUtcP = Gps!Split(0) /\ gpGpsP = Gps!Split(0) /\ gpTimeOk = FALSE
      /\ gpPos = [lat |-> 0, lon |-> 0, alt |-> 0] /\ gpPosOk = FALSE
      /\ gpRef = [systime |-> 0, cnt |-> 0, utc |-> 0, gps |-> 0, xtal |-> 0]
      /\ gpAber = <<FALSE, FALSE>>
      /\ gpRun = [right |-> 0, wrong |-> 0, firm |-> FALSE, of |-> 0]
  BY DEF Gps!Init
<1>2. /\ Day \in Nat \ {0} /\ CntMod \in Nat \ {0} /\ MaxLine \in Nat \ {0} /\ Epoch \in Nat
  BY GpsConstants
<1>3. Gps!Split(0) \in Parsed /\ Gps!Second(Gps!Split(0)) = 0
  BY SplitIs
<1>4. GpsTypes
  <2>1. gpAber \in [1 .. 2 -> BOOLEAN]
    BY <1>1, PairIs
  <2>2. gpLine \in Seq(Sentence) /\ Len(gpLine) = 0
    BY <1>1
  <2>3. gpRun \in [right : 0 .. 3, wrong : 0 .. 3, firm : BOOLEAN, of : 0 .. gpNow]
    BY <1>1, <1>2
  <2>4. gpRef \in [systime : {0, 1}, cnt : 0 .. (CntMod - 1), utc : Nat, gps : Nat, xtal : {0, 1}]
    BY <1>1, <1>2
  <2>5. gpPos \in [lat : Nat, lon : Nat, alt : Nat]
    BY <1>1
  <2>6. gpNow \in Nat /\ gpNow >= Epoch /\ Len(gpLine) <= MaxLine
    BY <1>1, <1>2
  <2>7. gpUtcP \in Parsed /\ gpGpsP \in Parsed
    BY <1>1, <1>3
  <2>8. /\ gpPort \in {"closed", "open"} /\ gpUbxOn \in BOOLEAN
        /\ gpResult \in {Nil, "success", "error"} /\ gpTimeOk \in BOOLEAN /\ gpPosOk \in BOOLEAN
    BY <1>1
  <2> QED
    BY <2>1, <2>2, <2>3, <2>4, <2>5, <2>6, <2>7, <2>8 DEF GpsTypes
<1>5. LineInOrder
  BY <1>1, <1>2, <1>3 DEF LineInOrder
<1>6. ~ Gps!RefSet /\ ~ Gps!RefTrue
  BY <1>1 DEF Gps!RefSet, Gps!RefTrue
<1>7. ReferenceIs /\ MarksAreTold
  BY <1>1, <1>6 DEF ReferenceIs, MarksAreTold
<1>8. Gps!PosFromOneSentence
  BY <1>1 DEF Gps!PosFromOneSentence
<1> QED
  BY <1>4, <1>5, <1>7, <1>8 DEF GpsInv

\* A time made from the reference leads back to the counter it was made from.
LEMMA BackToCount ==
    ASSUME GpsTypes, ReferenceIs, Gps!RefSet, NEW d \in 0 .. CntMod - 1, NEW base \in Nat,
           NEW t, t.sec \in Int, t.sub \in Int,
           (base * Cps) + Sub + d = (Cps * t.sec) + t.sub
    PROVE  Gps!ToCnt(base, t) = Gps!Cnt((gpRun.of * Cps) + Sub + d)
<1> DEFINE a == (gpRun.of * Cps) + Sub
<1>1. /\ Cps \in Nat \ {0} /\ CntMod \in Nat \ {0} /\ Sub \in Nat /\ gpNow \in Nat
      /\ gpRun.of \in 0 .. gpNow
  BY GpsConstants DEF GpsTypes
<1>2. a \in Int /\ gpRun.of * Cps \in Int
  BY <1>1
<1>3. gpRef.cnt = a % CntMod
  BY DEF ReferenceIs, Gps!PulseCnt, Gps!Cnt
<1>4. ((t.sec - base) * Cps) + (t.sub - Sub) = d
  <2> DEFINE x == Cps * t.sec
             y == base * Cps
             z == (t.sec - base) * Cps
             r == t.sub
  <2>1. z = x - y /\ x \in Int /\ y \in Int
    BY <1>1
  <2>2. y + Sub + d = x + r /\ r \in Int /\ Sub \in Int /\ d \in Int
    BY <1>1
  <2> HIDE DEF x, y, z, r
  <2>3. z + (r - Sub) = d
    BY <2>1, <2>2
  <2> QED
    BY <2>3 DEF z, r
<1>5. Gps!ToCnt(base, t) = (gpRef.cnt + d) % CntMod
  BY <1>4 DEF Gps!ToCnt
<1> HIDE DEF a
<1>6. (gpRef.cnt + d) % CntMod = (a + d) % CntMod
  <2>1. ((a % CntMod) + d) % CntMod = (a + d) % CntMod
    BY <1>1, <1>2, DifferenceIs
  <2> QED
    BY <1>3, <2>1
<1> QED
  BY <1>5, <1>6 DEF Gps!Cnt, a

\* Stamps made since a true reference are right.
LEMMA StampsAreRight ==
    ASSUME GpsTypes, ReferenceIs
    PROVE  Gps!StampRight
<1> SUFFICES ASSUME Gps!RefTrue, NEW d \in 0 .. (CntMod - 1)
             PROVE  LET true == (gpRef.utc * Cps) + Sub + d
                        t    == [sec |-> true \div Cps, sub |-> true % Cps]
                    IN  /\ Gps!lgw_cnt2utc(Gps!Cnt(true)) = t /\ Gps!lgw_utc2cnt(t) = Gps!Cnt(true)
                        /\ Gps!lgw_gps2cnt(Gps!lgw_cnt2gps(Gps!Cnt(true))) = Gps!Cnt(true)
  BY Zenon DEF Gps!StampRight
<1> DEFINE a == (gpRef.utc * Cps) + Sub
           true == a + d
           t == [sec |-> true \div Cps, sub |-> true % Cps]
           c == Gps!Cnt(true)
           u == Gps!CntTo(gpRef.utc, c)
           v == Gps!CntTo(gpRef.gps, c)
<1>1. /\ Cps \in Nat \ {0} /\ CntMod \in Nat \ {0} /\ Sub \in Nat /\ gpRef.utc = gpRun.of
      /\ gpRef.utc \in Nat /\ gpRef.gps \in Nat /\ Gps!RefSet /\ d \in Nat
  BY GpsConstants DEF GpsTypes, Gps!RefTrue
<1>2. a \in Int /\ true \in Int
  BY <1>1
<1>3. gpRef.cnt = a % CntMod
  BY <1>1 DEF ReferenceIs, Gps!PulseCnt, Gps!Cnt
<1>4. c = (a + d) % CntMod
  BY DEF Gps!Cnt
<1> HIDE DEF a
<1>5. (c - gpRef.cnt) % CntMod = d
  <2>1. (((a + d) % CntMod) - (a % CntMod)) % CntMod = d
    BY <1>1, <1>2, DifferenceIs
  <2> HIDE DEF c
  <2> QED
    BY <1>3, <1>4, <2>1
<1> HIDE DEF c
<1>6. /\ u = Gps!Carry(gpRef.utc + (d \div Cps), Sub + (d % Cps))
      /\ v = Gps!Carry(gpRef.gps + (d \div Cps), Sub + (d % Cps))
  BY <1>5 DEF Gps!CntTo
<1> HIDE DEF u, v
<1>7. /\ u = [sec |-> u.sec, sub |-> u.sub] /\ u.sec \in Int /\ u.sub \in 0 .. Cps - 1
      /\ (gpRef.utc * Cps) + Sub + d = (Cps * u.sec) + u.sub
  BY <1>1, <1>6, CarryIs
<1>8. /\ v.sec \in Int /\ v.sub \in 0 .. Cps - 1
      /\ (gpRef.gps * Cps) + Sub + d = (Cps * v.sec) + v.sub
  BY <1>1, <1>6, CarryIs
<1>9. true = (Cps * u.sec) + u.sub
  BY <1>7 DEF a
<1>10. true \div Cps = u.sec /\ true % Cps = u.sub
  BY <1>1, <1>2, <1>7, <1>9, QuotientIs
<1>11. u = t
  BY <1>7, <1>10
<1>12. Gps!ToCnt(gpRef.utc, u) = c
  BY <1>1, <1>7, BackToCount DEF c, a
<1>13. Gps!ToCnt(gpRef.gps, v) = c
  BY <1>1, <1>8, BackToCount DEF c, a
<1> HIDE DEF true, t
<1>14. Gps!lgw_cnt2utc(c) = t /\ Gps!lgw_utc2cnt(t) = c /\ Gps!lgw_gps2cnt(Gps!lgw_cnt2gps(c)) = c
  BY <1>11, <1>12, <1>13 DEF Gps!lgw_cnt2utc, Gps!lgw_utc2cnt, Gps!lgw_cnt2gps, Gps!lgw_gps2cnt,
     u, v
<1> QED
  BY <1>14 DEF c, t, true, a

(* The times of the GPS module, of the library's parts side by side: three    *)
(* right points in a row leave a true reference whatever came before them, a  *)
(* confirmed one is kept through two wrong points when the counter has not    *)
(* wrapped meanwhile, a stamp made since a true reference converts to its UTC *)
(* and back, and a position is of one sentence (loragw_gps.c:529-592,         *)
(* 664-812).  For any length of the day and of a second, any counter, also    *)
(* one that wraps within a second, and any bursts of sentences with one       *)
(* native time at most, read as late as the line allows.                      *)
THEOREM GpsTimeIsSound == BenchSpec => GpsTimeSound
<1> DEFINE Within == part = "gps" => gpNow <= Epoch + MaxPulses
           Lost == Gps!RefTrue /\ gpRun.firm /\ ~ Gps!RefTrue'
           Held == (part = "gps" => Gps!TypeOK /\ Gps!RecoversInThree /\ Gps!StampRight)
           PosHeld == (part = "gpsPos" => GpsPos!PosFromOneSentence)
           Kept == [Lost => (gpRun'.wrong = 3 \/ (gpNow - gpRef.utc) * Cps >= CntMod)]_(Gps!vars)
<1>1. BenchInit => GpsInv /\ Within
  <2> SUFFICES ASSUME BenchInit PROVE GpsInv /\ Within
    OBVIOUS
  <2>1. Gps!Init
    BY DEF BenchInit
  <2>2. gpNow = Epoch /\ Epoch \in Nat /\ MaxPulses \in Nat
    BY <2>1, GpsConstants DEF Gps!Init
  <2> QED
    BY <2>1, <2>2, GpsStarts
<1>2. GpsInv /\ Within /\ [BenchNext]_<<part, vars, haVars, lbVars, seVars, saVars, sbVars, gpVars>>
        => (GpsInv /\ Within)' /\ Kept
  <2> SUFFICES ASSUME GpsInv, Within,
                      [BenchNext]_<<part, vars, haVars, lbVars, seVars, saVars, sbVars, gpVars>>
               PROVE  GpsInv' /\ Within' /\ Kept
    OBVIOUS
  <2>1. GpsMove \/ UNCHANGED gpVars
    BY NextIsMove DEF BenchNext
  <2>2. GpsInv' /\ (Lost => gpRun'.wrong = 3 \/ Paused)
    BY <2>1, NextKeepsGps
  <2>3. Kept
    BY <2>2 DEF Paused
  <2>4. Within'
    <3> SUFFICES ASSUME part' = "gps" PROVE gpNow' <= Epoch + MaxPulses
      OBVIOUS
    <3>1. part = "gps" /\ gpNow \in Nat /\ gpNow <= Epoch + MaxPulses
      BY DEF BenchNext, GpsInv, GpsTypes
    <3>2. Gps!Next \/ gpNow' = gpNow
      BY <3>1 DEF BenchNext, gpVars
    <3>3. Gps!Next => gpNow' <= Epoch + MaxPulses
      <4>1. Gps!Pulse => gpNow < Epoch + MaxPulses /\ gpNow' = gpNow + 1
        BY DEF Gps!Pulse
      <4>2. Gps!Next => Gps!Pulse \/ gpNow' = gpNow
        BY DEF Gps!Next, Gps!lgw_gps_enable, Gps!lgw_gps_disable, Gps!ParseRmc, Gps!ParseGga,
           Gps!ParseUbx, Gps!Ignore
      <4> QED
        BY <3>1, <4>1, <4>2, GpsConstants
    <3> QED
      BY <3>1, <3>2, <3>3
  <2> QED
    BY <2>2, <2>3, <2>4
<1>3. GpsInv /\ Within => Held /\ PosHeld
  <2> SUFFICES ASSUME GpsInv, Within PROVE Held /\ PosHeld
    OBVIOUS
  <2>1. GpsPos!PosFromOneSentence
    BY DEF GpsInv, Gps!PosFromOneSentence, GpsPos!PosFromOneSentence
  <2>2. Gps!RecoversInThree
    BY DEF GpsInv, MarksAreTold, Gps!RecoversInThree
  <2>3. Gps!StampRight
    BY StampsAreRight DEF GpsInv
  <2>4. part = "gps" => Gps!TypeOK
    BY GpsConstants DEF GpsInv, GpsTypes, Parsed, Sentence, Gps!TypeOK
  <2> QED
    BY <2>1, <2>2, <2>3, <2>4
<1>4. Gps!KeptThroughTwo <=> [][Lost => (gpRun'.wrong = 3 \/ (gpNow - gpRef.utc) * Cps >= CntMod)]_(Gps!vars)
  BY PTL DEF Gps!KeptThroughTwo
<1>5. GpsTimeSound <=> ([]Held /\ []PosHeld /\ Gps!KeptThroughTwo)
  BY PTL DEF GpsTimeSound
<1> HIDE DEF Within, Held, PosHeld
<1> QED
  BY <1>1, <1>2, <1>3, <1>4, <1>5, PTL DEF BenchSpec
=============================================================================
