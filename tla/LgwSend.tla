------------------------------ MODULE LgwSend -------------------------------
(***************************************************************************)
(* Emission (lgw_send, lgw_status, lgw_abort_tx, lgw_time_on_air and their  *)
(* helpers in loragw_hal.c).  lgw_send sets the gain and start delay        *)
(* registers, aborts what is scheduled or on the air, fills the transmit    *)
(* buffer, asks listen-before-talk and arms a trigger; the concentrator     *)
(* goes on meanwhile.  The counter of the concentrator has 2^Width ticks    *)
(* (32 bits in the code); the buffer is a record of what its bytes say.     *)
(***************************************************************************)
EXTENDS Integers, Sequences, FiniteSets

CONSTANTS
    Packets,      (* packets the program sends *)
    Lut,          (* txgain_lut: rf_power by index, from 1 *)
    Chains,       (* RF chains with rf_enable and rf_tx_enable *)
    RadioShift,   (* 7 for an SX1255, 8 for an SX1257 *)
    DelayDefault, (* TX_START_DELAY_DEFAULT, in microseconds *)
    NotchNs,      (* lgw_fpga_get_tx_notch_delay, in nanoseconds *)
    SyncSize,     (* fsk_sync_word_size *)
    Width,
    Lbt,          (* answers of lbt_is_channel_free *)
    MaxSends,     (* bound: calls of lgw_send *)
    None

SendAssumption ==
    /\ Lut # << >> /\ Lut \in Seq(Int) /\ RadioShift \in {7, 8}
    /\ DelayDefault \in Nat /\ NotchNs \in Nat /\ Width \in Nat \ {0}
    /\ Lbt \subseteq {"free", "busy", "error"}

VARIABLES
    count,    (* the counter of the concentrator *)
    delay,    (* register TX_START_DELAY *)
    gain,     (* index whose gains and offsets are in the registers *)
    buffer,   (* transmit data buffer, or None *)
    trigger,  (* the armed trigger, or None *)
    air,      (* the emission that has begun, or None *)
    call,     (* the packet lgw_send is busy with and how far it is *)
    sends,    (* calls so far *)
    accepted, (* the packet of the last call that returned success, or None *)
    last      (* the last emission that ended by itself, or None *)

vars == <<count, delay, gain, buffer, trigger, air, call, sends, accepted, last>>

U(x) == x % 2^Width
Idle == [at |-> "idle", pkt |-> None]

(***************************************************************************)
(* What lgw_send computes.                                                 *)
(***************************************************************************)
Accepts_AnySize(p) == p.chain \in Chains    \* mutant: the size is not tested

(* The input checks. *)
Accepts(p) ==
    /\ p.chain \in Chains
    /\ p.mode \in {"IMMEDIATE", "TIMESTAMPED", "ON_GPS"}
    /\ p.size <= 255
    /\ \/ p.mod = "lora" /\ p.bw \in {125, 250, 500} /\ p.sf \in 7 .. 12 /\ p.cr \in 1 .. 4
       \/ p.mod = "fsk" /\ p.fdev \in 1 .. 200 /\ p.dr \in 500 .. 250000

Notch(p) == p.mod = "lora" /\ p.bw = 125

(* The delay from the trigger to the start of the packet, cut to whole       *)
(* microseconds.                                                             *)
StartDelay(p) ==
    (1000 * DelayDefault - (IF p.mod = "lora" /\ p.bw = 125 THEN 1500 ELSE 0)
                         - (IF Notch(p) THEN NotchNs ELSE 0)) \div 1000

PowIndex_FromSecond(p) == IF Len(Lut) > 1 THEN 2 ELSE 1   \* mutant: no search

PowIndex_Zero(p) ==    \* mutant: the search runs past the first entry
    LET low == {i \in DOMAIN Lut : Lut[i] <= p.power} IN
    IF low = {} THEN 0 ELSE CHOOSE i \in low : \A j \in low : j <= i

(* From the last entry down to the first: the first whose power is not above *)
(* the one asked for, or the first entry of the table.                       *)
PowIndex(p) ==
    LET low == {i \in DOMAIN Lut : Lut[i] <= p.power} IN
    IF low = {} THEN 1 ELSE CHOOSE i \in low : \A j \in low : j <= i

(* part_int and part_frac; SX125x_32MHz_FRAC is 15625. *)
Pll_NoCarry(p) == [int |-> p.freq \div (15625 * 2^RadioShift), frac |-> 0]   \* mutant
Pll(p) ==
    LET step == 15625 * 2^RadioShift IN
    [int |-> p.freq \div step, frac |-> ((p.freq % step) * 2^(16 - RadioShift)) \div 15625]

(* SET_PPM_ON. *)
Ppm(p) == (p.bw = 125 /\ p.sf >= 11) \/ (p.bw = 250 /\ p.sf = 12)

Atleast(n, least, default) == IF n = 0 THEN default ELSE IF n < least THEN least ELSE n

Preamble_AsGiven(p) == p.preamble    \* mutant: a preamble of 0 stays 0

(* STD_LORA_PREAMBLE, MIN_LORA_PREAMBLE, STD_FSK_PREAMBLE, MIN_FSK_PREAMBLE. *)
Preamble(p) == IF p.mod = "lora" THEN Atleast(p.preamble, 6, 8) ELSE Atleast(p.preamble, 3, 5)

(* Metadata 9 to 15 of a LoRa packet and, with the size once more in front   *)
(* of the payload, of an FSK packet; bytes is the transfer size.             *)
MetaLora(p) == [sf |-> p.sf, cr |-> p.cr, crc |-> p.crc, ppm |-> Ppm(p), header |-> p.header,
                preamble |-> Preamble(p), bytes |-> 16 + p.size]
MetaFsk(p) == [fdev |-> p.fdev, crc |-> p.crc, baud |-> 32000000 \div p.dr,
               preamble |-> Preamble(p), bytes |-> 17 + p.size]

Buffer(p) ==
    [pkt |-> p, pll |-> Pll(p), trig |-> U(p.count_us - StartDelay(p)),
     meta |-> IF p.mod = "lora" THEN MetaLora(p) ELSE MetaFsk(p)]

CeilDiv(a, b) == -((-a) \div b)

(* Symbols of the payload of a LoRa packet, with low data rate optimisation  *)
(* when lowDr; overhead is 16 for the check sum less 20 without header.      *)
Symbols(p, lowDr, overhead) ==
    8 + CeilDiv(8 * p.size - 4 * p.sf + 28 + overhead, 4 * (p.sf - 2 * lowDr)) * (p.cr + 4)

TimeOnAir_NoLowDr(p) ==    \* mutant: no low data rate optimisation
    ((4 * p.preamble + 17 + 4 * Symbols(p, 0, 16)) * 2^p.sf) \div (4 * p.bw)

(* In milliseconds, cut; the optimisation is taken from the spreading factor *)
(* alone.                                                                    *)
lgw_time_on_air(p) ==
    IF p.mod = "fsk"
    THEN (8000 * (p.preamble + SyncSize + 1 + p.size + (IF p.crc THEN 2 ELSE 0))) \div p.dr + 1
    ELSE ((4 * p.preamble + 17
           + 4 * Symbols(p, IF p.sf >= 11 THEN 1 ELSE 0, IF p.header THEN 16 ELSE -4)) * 2^p.sf)
         \div (4 * p.bw)

(* What listen-before-talk is asked for: the packet with its final preamble. *)
Asked(p) == [p EXCEPT !.preamble = Preamble(p)]

-----------------------------------------------------------------------------
Init ==
    /\ count = 0 /\ delay = DelayDefault /\ gain = 1
    /\ buffer = None /\ trigger = None /\ air = None
    /\ call = Idle /\ sends = 0
    /\ accepted = None /\ last = None

(***************************************************************************)
(* lgw_send.                                                               *)
(***************************************************************************)

(* mutant: the start delay register keeps its old value *)
SendPrepare_OldDelay(p) ==
    /\ call = Idle /\ sends < MaxSends
    /\ sends' = sends + 1
    /\ IF Accepts(p)
       THEN gain' = PowIndex(p) /\ call' = [at |-> "load", pkt |-> p]
       ELSE UNCHANGED <<gain, call>>
    /\ UNCHANGED <<count, delay, buffer, trigger, air, accepted, last>>

(* The checks, the registers of the gain and of the start delay.  They are   *)
(* written while an earlier packet may still be scheduled.                   *)
SendPrepare(p) ==
    /\ call = Idle /\ sends < MaxSends
    /\ sends' = sends + 1
    /\ IF Accepts(p)
       THEN /\ gain' = PowIndex(p)
            /\ delay' = StartDelay(p)
            /\ call' = [at |-> "load", pkt |-> p]
       ELSE UNCHANGED <<gain, delay, call>>
    /\ UNCHANGED <<count, buffer, trigger, air, accepted, last>>

(* lgw_abort_tx: writes 0 to the trigger register. *)
lgw_abort_tx == trigger' = None /\ air' = None

(* mutant: the buffer is written without the abort *)
SendLoad_NoAbort ==
    /\ call.at = "load"
    /\ buffer' = Buffer(call.pkt)
    /\ call' = [call EXCEPT !.at = "trigger"]
    /\ UNCHANGED <<count, delay, gain, sends, accepted, last, trigger, air>>

(* The abort, then metadata and payload. *)
SendLoad ==
    /\ call.at = "load"
    /\ lgw_abort_tx
    /\ buffer' = Buffer(call.pkt)
    /\ call' = [call EXCEPT !.at = "trigger"]
    /\ UNCHANGED <<count, delay, gain, sends, accepted, last>>

Emission == [pkt |-> buffer.pkt, at |-> U(count' + delay), gain |-> gain]

(* mutant: a packet that waits for the next pulse is not armed *)
SendTrigger_NoGps(lbt) ==
    /\ call.at = "trigger"
    /\ call' = Idle /\ accepted' = call.pkt
    /\ trigger' = IF call.pkt.mode = "TIMESTAMPED" THEN "delayed" ELSE None
    /\ UNCHANGED <<count, delay, gain, buffer, sends, last, air>>

(* lbt_is_channel_free and the trigger of the mode: an immediate packet      *)
(* starts at once.                                                           *)
SendTrigger(lbt) ==
    /\ call.at = "trigger"
    /\ call' = Idle
    /\ UNCHANGED <<count, delay, gain, buffer, sends, last>>
    /\ IF lbt # "free"
       THEN UNCHANGED <<trigger, air, accepted>>
       ELSE /\ accepted' = call.pkt
            /\ CASE call.pkt.mode = "IMMEDIATE" -> air' = Emission /\ UNCHANGED trigger
                 [] call.pkt.mode = "TIMESTAMPED" -> trigger' = "delayed" /\ UNCHANGED air
                 [] call.pkt.mode = "ON_GPS" -> trigger' = "gps" /\ UNCHANGED air

(* lgw_status(TX_STATUS): bit 4 is programmed, bits 5 and 6 on the air. *)
lgw_status == IF trigger = None /\ air = None THEN "TX_FREE"
              ELSE IF air # None THEN "TX_EMITTING" ELSE "TX_SCHEDULED"

(***************************************************************************)
(* The concentrator.                                                       *)
(***************************************************************************)
Fire(due) ==
    IF due
    THEN trigger' = None /\ air' = Emission
    ELSE UNCHANGED <<trigger, air>>

Tick ==
    /\ count' = U(count + 1)
    /\ Fire(trigger = "delayed" /\ buffer.trig = count')
    /\ UNCHANGED <<delay, gain, buffer, call, sends, accepted, last>>

(* The pulse of the GPS receiver. *)
Pps ==
    /\ trigger = "gps"
    /\ UNCHANGED <<count, delay, gain, buffer, call, sends, accepted, last>>
    /\ Fire(TRUE)

(* A packet is on the air for longer than a call of lgw_send takes. *)
EmitEnd ==
    /\ air # None /\ call = Idle
    /\ last' = air /\ air' = None
    /\ UNCHANGED <<count, delay, gain, buffer, trigger, call, sends, accepted>>

Concentrator == Tick \/ Pps \/ EmitEnd
Driver == SendLoad \/ \E l \in Lbt : SendTrigger(l)

Next == \/ \E p \in Packets : SendPrepare(p)
        \/ Driver \/ Concentrator

Spec == Init /\ [][Next]_vars

(* A program that, as the manual asks, waits for TX_FREE before the next     *)
(* call.                                                                     *)
PoliteNext == \/ lgw_status = "TX_FREE" /\ \E p \in Packets : SendPrepare(p)
              \/ Driver \/ Concentrator

(* The concentrator runs by itself; a call that has begun is carried on.     *)
PoliteSpec ==
    /\ Init /\ [][PoliteNext]_vars
    /\ WF_vars(Driver) /\ WF_vars(Tick) /\ WF_vars(Pps) /\ WF_vars(EmitEnd)

-----------------------------------------------------------------------------
(***************************************************************************)
(* Properties.                                                             *)
(***************************************************************************)

TypeOK ==
    /\ count \in 0 .. 2^Width - 1
    /\ delay \in 0 .. DelayDefault /\ gain \in DOMAIN Lut
    /\ trigger \in {None, "delayed", "gps"} /\ sends \in 0 .. MaxSends
    /\ call.at \in {"idle", "load", "trigger"}
    /\ accepted \in Packets \cup {None}

(* A packet sent for a time starts at that time: the trigger leads it by the *)
(* start delay of this packet, whatever was sent before it, and the          *)
(* subtraction may wrap.                                                     *)
StartsOnTime ==
    (last # None /\ last.pkt.mode = "TIMESTAMPED") => last.at = U(last.pkt.count_us)

(* A packet is emitted with a power of the table that is not above the one   *)
(* asked for, as high as possible, or the first of the table: also when the  *)
(* registers were written while another packet was scheduled.                *)
PowerWithin ==
    last # None =>
        LET p == Lut[last.gain] IN
        /\ p <= last.pkt.power \/ last.gain = 1
        /\ \A i \in DOMAIN Lut : Lut[i] <= last.pkt.power => Lut[i] <= p

(* Between calls, what is scheduled or on the air is the packet of the last  *)
(* call that returned success and the one in the buffer.                     *)
ScheduledWasAccepted ==
    (call = Idle /\ lgw_status # "TX_FREE") => buffer.pkt = accepted

(* A packet is emitted from a buffer that holds it: a packet refused by      *)
(* listen-before-talk is never on the air.                                   *)
EmittedIsBuffered ==
    /\ (air # None /\ call.at # "load") => air.pkt = buffer.pkt
    /\ last # None => last.pkt \in Packets /\ Accepts(last.pkt)

(* The buffer of 256 + 16 bytes takes metadata and payload; the extra size   *)
(* byte of the largest FSK packet is the last that fits.                     *)
BufferFits == buffer # None => buffer.meta.bytes <= 256 + 16

(* The frequency of the PLL words is at most one step (2^-RadioShift of      *)
(* 15625 Hz) below the one asked for.                                        *)
FrequencyWithin ==
    buffer # None =>
        LET f == buffer.pll.int * 15625 * 2^RadioShift
                 + (buffer.pll.frac * 15625) \div 2^(16 - RadioShift)
        IN buffer.pkt.freq - f \in 0 .. 15625 \div 2^(16 - RadioShift) + 1

(* The time listen-before-talk allows for covers the packet as it is sent,   *)
(* up to the millisecond that was cut: with the final preamble, and with     *)
(* the optimisation of the metadata, not of lgw_time_on_air.                 *)
AirtimeCovers ==
    (buffer # None /\ buffer.pkt.mod = "lora") =>
        LET p == buffer.pkt
            overhead == (IF p.crc THEN 16 ELSE 0) - (IF p.header THEN 0 ELSE 20)
            symbols == Symbols(p, IF buffer.meta.ppm THEN 1 ELSE 0, overhead)
        IN (4 * buffer.meta.preamble + 17 + 4 * symbols) * 2^p.sf
             <= (lgw_time_on_air(Asked(p)) + 1) * 4 * p.bw

(* A polite program has every accepted packet emitted whole, also one whose  *)
(* time had passed when the trigger was armed: it goes out when the counter  *)
(* has come round.                                                           *)
AcceptedIsEmitted ==
    \A p \in Packets : (accepted = p) ~> (last # None /\ last.pkt = p)
=============================================================================
