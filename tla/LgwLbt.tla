------------------------------- MODULE LgwLbt -------------------------------
(***************************************************************************)
(* Listen-before-talk (loragw_lbt.c).  The FPGA scans the configured        *)
(* channels and keeps, for each, the last time it was free; a packet may    *)
(* be sent when it ends within the maximal time after that.                 *)
(*                                                                         *)
(* Times are in units of the FPGA time stamp (256 microseconds in the       *)
(* code); Grain is the granularity of LBT_TIMESTAMP_MASK (4096), Wrap its   *)
(* period (2^23) and Margin the 2048 of the comparison.  The FPGA is taken  *)
(* to report times in the same period.                                      *)
(***************************************************************************)
EXTENDS Integers, Sequences, FiniteSets

CONSTANTS
    Configs,      (* configurations: enable, channels: freq and scan *)
    StartFreq,    (* lbt_start_freq, from the FPGA *)
    ChannelNb,    (* LBT_CHANNEL_FREQ_NB *)
    Grain, Wrap, Margin,
    MaxLong, MaxShort, MaxShort2, (* tx_max_time: 4 s, 400 ms, 200 ms *)
    TxStartDelay,   (* tx_start_delay *)
    Freqs,        (* frequencies of packets *)
    Leads,        (* times from the request to the start of a packet *)
    Durations,    (* times on air *)
    MaxBusy,      (* bound: how long a channel is busy *)
    MaxRequests,  (* bound: requests *)
    None

LbtAssumption ==
    /\ \A c \in Configs :
          c.enable \in BOOLEAN /\ c.channels \in Seq([freq : Nat, scan : Nat])
    /\ {ChannelNb, Grain, Wrap} \subseteq Nat \ {0} /\ Wrap % Grain = 0
    /\ {StartFreq, Margin, MaxLong, MaxShort, MaxShort2, TxStartDelay, MaxBusy,
        MaxRequests} \cup Freqs \cup Leads \cup Durations \subseteq Nat
    /\ Margin < Grain /\ Margin < MaxShort2 /\ MaxShort2 <= MaxShort /\ MaxShort <= MaxLong

VARIABLES
    conf,     (* lbt_enable and lbt_channel_cfg *)
    fpga,     (* offset and scan time registers, by channel *)
    running,  (* the scan of the FPGA runs *)
    now,      (* the counter *)
    age,      (* time since each active channel was free, or None *)
    verdict,  (* the last answer of lbt_is_channel_free, or None *)
    requests

vars == <<conf, fpga, running, now, age, verdict, requests>>

Channels == 1 .. ChannelNb
Reset == [c \in Channels |-> [offset |-> 0, scan |-> 128]]
Mask(t) == (t % Wrap) - (t % Grain)

Abs(x) == IF x < 0 THEN -x ELSE x
is_equal_freq(a, b) == Abs(a - b) <= 10000

(***************************************************************************)
(* Configuration.                                                          *)
(***************************************************************************)

Init ==
    /\ conf = [enable |-> FALSE, channels |-> << >>]
    /\ fpga = Reset /\ running = FALSE
    /\ now = 0 /\ age = << >>
    /\ verdict = None /\ requests = 0

(* Called while the concentrator is stopped.  A number of channels out of    *)
(* range leaves the old configuration.                                       *)
lbt_setconf(c) ==
    /\ ~running
    /\ conf' = IF Len(c.channels) \in 1 .. ChannelNb THEN c ELSE conf
    /\ UNCHANGED <<fpga, running, now, age, verdict, requests>>

SetupOk_AnyFreq(ch) == ch.scan \in {128, 5000}   \* mutant: the frequency is not tested

SetupOk(ch) == ch.freq >= StartFreq /\ ch.scan \in {128, 5000}

(* What a channel of the FPGA is set to: those that are not active are put   *)
(* at the start frequency.                                                   *)
Wanted(c) ==
    IF c \in DOMAIN conf.channels THEN conf.channels[c]
    ELSE [freq |-> StartFreq, scan |-> 128]

(* mutant: the channels are written without the reset of lgw_connect *)
Registers_NoReset ==
    [c \in Channels |->
        [offset |-> (Wanted(c).freq - StartFreq) \div 100000,
         scan |-> IF Wanted(c).scan = 5000 THEN 5000 ELSE fpga[c].scan]]

(* The registers after the reset of the FPGA at the connect: offsets in      *)
(* units of 100 kHz, a scan time written only where it is not the default.   *)
Registers ==
    [c \in Channels |->
        [offset |-> (Wanted(c).freq - StartFreq) \div 100000,
         scan |-> IF Wanted(c).scan = 5000 THEN 5000 ELSE Reset[c].scan]]

(* An error stops lgw_start. *)
lbt_setup ==
    /\ ~running /\ conf.enable
    /\ \A c \in DOMAIN conf.channels : SetupOk(conf.channels[c])
    /\ fpga' = Registers

lbt_start ==
    /\ running' = TRUE
    /\ age' = [c \in DOMAIN conf.channels |-> None]

(* lgw_start, as far as it is about listen-before-talk. *)
Start ==
    /\ lbt_setup /\ lbt_start
    /\ verdict' = None
    /\ UNCHANGED <<conf, now, requests>>

Stop ==
    /\ running
    /\ running' = FALSE /\ age' = << >> /\ verdict' = None
    /\ UNCHANGED <<conf, fpga, now, requests>>

(* The FPGA: a unit of time in which the channels of free were free. *)
Scan(free) ==
    /\ running
    /\ now' = (now + 1) % Wrap
    /\ \A c \in DOMAIN age \ free : age[c] # MaxBusy
    /\ age' = [c \in DOMAIN age |->
                 IF c \in free THEN 0 ELSE IF age[c] = None THEN None ELSE age[c] + 1]
    /\ verdict' = None
    /\ UNCHANGED <<conf, fpga, running, requests>>

(***************************************************************************)
(* lbt_is_channel_free.                                                    *)
(***************************************************************************)

MaxTime(c, short) == IF conf.channels[c].scan = 5000 THEN MaxLong ELSE short

(* The channels a packet may be on, and the first ones of two neighbours it  *)
(* is in the middle of.                                                      *)
Freq(c) == conf.channels[c].freq
Matching(p) == {c \in 1 .. Len(conf.channels) : is_equal_freq(p.freq, Freq(c))}
Between(p) ==
    {c \in 1 .. Len(conf.channels) - 1 :
        /\ is_equal_freq(p.freq, (Freq(c) + Freq(c + 1)) \div 2)
        /\ Freq(c + 1) - Freq(c) = 200000}
First(S) == CHOOSE c \in S : \A d \in S : c <= d

(* The channels a packet uses: the first that matches; for 250 kHz, the      *)
(* first two neighbours the packet is in the middle of.                      *)
Decoded(p) ==
    IF p.bw = 125 /\ Matching(p) # {}
    THEN LET c == First(Matching(p))
         IN  [first |-> c, second |-> c, max |-> MaxTime(c, MaxShort)]
    ELSE IF p.bw = 250 /\ Between(p) # {}
    THEN LET c == First(Between(p))
         IN  [first |-> c, second |-> c + 1, max |-> MaxTime(c, MaxShort2)]
    ELSE [first |-> 0, second |-> 0, max |-> 0]

(* LGW_FPGA_LBT_TIMESTAMP_CH: 0 before the channel was found free. *)
Stamp(c) == IF age[c] = None THEN 0 ELSE (now - age[c]) % Wrap

LbtTime(d) ==
    IF d.first = 0 THEN 0
    ELSE IF Stamp(d.second) < Stamp(d.first) THEN Stamp(d.second) ELSE Stamp(d.first)

(* The start asked for; of a packet for the next pulse, the time of the last *)
(* one plus a second and the start delay.                                    *)
TxStart(p) == Mask(now + p.lead + (IF p.mode = "ON_GPS" THEN TxStartDelay ELSE 0))

Delta_NoWrap(lbt, end) == IF lbt < end THEN end - lbt ELSE end  \* mutant: as if it had wrapped at lbt

Delta(lbt, end) == IF lbt < end THEN end - lbt ELSE (Wrap - Grain - lbt) + end

Allowed_StampIgnored(p) ==    \* mutant: a stamp of 0 is not refused
    LET d == Decoded(p)
        delta == Delta(LbtTime(d), Mask(TxStart(p) + p.duration))
    IN d.max = 0 \/ delta < d.max - Margin

(* Without a channel the maximal time is 0 and its difference to the margin  *)
(* wraps; such a packet is refused for its stamp alone.                      *)
Allowed(p) ==
    LET d == Decoded(p)
        delta == Delta(LbtTime(d), Mask(TxStart(p) + p.duration))
    IN (d.max = 0 \/ delta < d.max - Margin) /\ LbtTime(d) # 0

(* An immediate packet is an error, an FSK packet is refused. *)
lbt_is_channel_free(p) ==
    IF ~conf.enable THEN "free"
    ELSE IF p.mod # "lora" THEN "busy"
    ELSE IF p.mode \notin {"TIMESTAMPED", "ON_GPS"} THEN "error"
    ELSE IF Allowed(p) THEN "free" ELSE "busy"

Requested(p) ==
    /\ running /\ requests < MaxRequests
    /\ requests' = requests + 1
    /\ verdict' = [pkt |-> p, answer |-> lbt_is_channel_free(p), chan |-> Decoded(p)]
    /\ UNCHANGED <<conf, fpga, running, now, age>>

Pkts == [mod : {"lora", "fsk"}, mode : {"IMMEDIATE", "TIMESTAMPED", "ON_GPS"}, bw : {125, 250},
         freq : Freqs, lead : Leads, duration : Durations]

Next == \/ \E c \in Configs : lbt_setconf(c)
        \/ Start \/ Stop
        \/ \E free \in SUBSET DOMAIN age : Scan(free)
        \/ \E p \in Pkts : Requested(p)

Spec == Init /\ [][Next]_vars

-----------------------------------------------------------------------------
(***************************************************************************)
(* Properties.                                                             *)
(***************************************************************************)

Granted(bw) == verdict # None /\ verdict.answer = "free" /\ verdict.pkt.bw = bw

(* From the last time a channel was free to the end of the granted packet. *)
Used(c) == age[c] + verdict.pkt.lead + verdict.pkt.duration

TypeOK ==
    /\ now \in 0 .. Wrap - 1 /\ requests \in 0 .. MaxRequests
    /\ DOMAIN fpga = Channels /\ \A c \in Channels : fpga[c].offset >= 0
    /\ \A c \in DOMAIN age : age[c] \in 0 .. MaxBusy \cup {None}

(* A packet is granted only on an active channel that was found free since   *)
(* the start, although the comparison alone would grant it.                  *)
GrantedOnFreeChannel ==
    (verdict # None /\ verdict.answer = "free") =>
        /\ verdict.chan.first \in DOMAIN age
        /\ age[verdict.chan.first] # None \/ age[verdict.chan.second] # None

(* A granted packet of 125 kHz exceeds the maximal time by less than three   *)
(* grains: one each for the cut of its start, the cut of its end and the     *)
(* wrap, as long as the busy time stays below the period.                    *)
OverrunBounded ==
    Granted(125) => Used(verdict.chan.first) < verdict.chan.max - Margin + 3 * Grain

(* While the scan runs, the registers are those of the configuration, also   *)
(* after a restart with another one.                                         *)
FpgaAsConfigured ==
    running => \A c \in DOMAIN conf.channels :
        /\ fpga[c].scan = conf.channels[c].scan
        /\ StartFreq + 100000 * fpga[c].offset \in conf.channels[c].freq - 99999 .. conf.channels[c].freq

(* libloragw/readme.md:261 "if ((PKT_END_TIME - LBT_TIME) < TX_MAX_TIME)     *)
(* ALLOWED = TRUE else ALLOWED = FALSE".                                     *)
WithinMaxTime == Granted(125) => Used(verdict.chan.first) < verdict.chan.max

(* libloragw/readme.md:267 "the maximum time allowed to send a packet since  *)
(* the last channel free time (this depends on the channel scan time )":     *)
(* for both channels of a packet of 250 kHz, with the same tolerance.        *)
BothChannelsFree ==
    Granted(250) =>
        \A c \in {verdict.chan.first, verdict.chan.second} :
            age[c] # None /\ Used(c) < MaxTime(c, MaxShort2) - Margin + 3 * Grain

(* libloragw/readme.md:249 "the FPGA keeps the last instant when each        *)
(* channel was free": a packet on a channel that is free now, short enough,  *)
(* is granted.                                                               *)
FreeIsGranted ==
    LET v == verdict IN
    (v # None /\ v.pkt.mod = "lora" /\ v.pkt.mode = "TIMESTAMPED" /\ v.pkt.bw = 125
        /\ v.chan.first # 0 /\ age[v.chan.first] = 0 /\ Used(v.chan.first) < MaxShort - Margin)
      => v.answer = "free"
=============================================================================
