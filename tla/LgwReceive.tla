----------------------------- MODULE LgwReceive -----------------------------
(***************************************************************************)
(* Reception (lgw_receive of loragw_hal.c): the demodulators put packets   *)
(* in the FIFO of the concentrator, the program fetches up to max_pkt of   *)
(* them per call and derives their status, modem parameters and the time   *)
(* of their end from the metadata.  The concentrator stamps a packet when  *)
(* its processing ends; the delay of the processing is computed from the   *)
(* size, the spreading factor and the modem and subtracted, all in         *)
(* unsigned arithmetic of Width bits (32 in the code).                     *)
(***************************************************************************)
EXTENDS Integers, Sequences, FiniteSets, SequencesExt

CONSTANTS
    FifoDepth,   (* LGW_PKT_FIFO_SIZE *)
    Packets,     (* packets on the air: modem, sf, cr, size, crc, stamp *)
    StdBw,       (* lora_rx_bw *)
    FskDr,       (* fsk_rx_dr *)
    MaxPkt,      (* values of max_pkt the program uses *)
    Width,
    MaxArrivals, (* bound: packets on the air *)
    MaxFaults    (* bound: packets whose metadata is read with an error *)

ASSUME ReceiveAssumption ==
    /\ FifoDepth \in Nat \ {0} /\ Width \in Nat \ {0}
    /\ MaxPkt \subseteq 0 .. 255
    /\ \A p \in Packets : p.modem \in {"multi", "std", "fsk"} /\ p.crc \in {"ok", "bad", "none"}

VARIABLES
    arrived,     (* packets the FIFO took, in their order *)
    aired,       (* packets on the air so far *)
    fifo,
    fetched,     (* what lgw_receive handed to the program *)
    faults

vars == <<arrived, aired, fifo, fetched, faults>>

U(x) == x % 2^Width

(***************************************************************************)
(* Metadata.                                                               *)
(***************************************************************************)

(* stat_fifo & 0x07: 5, 7 and 1. *)
Status(p) == CASE p.crc = "ok" -> "STAT_CRC_OK" [] p.crc = "bad" -> "STAT_CRC_BAD"
               [] p.crc = "none" -> "STAT_NO_CRC"

Bandwidth(p) == IF p.modem = "multi" THEN 125000 ELSE StdBw

Ppm(p) == IF \/ (Bandwidth(p) = 125000 /\ p.sf \in {11, 12})
             \/ (Bandwidth(p) = 250000 /\ p.sf = 12)
          THEN 1 ELSE 0

(* delay_x and bw_pow, per modem. *)
DelayX(p) == CASE p.modem = "multi" -> 114 [] Bandwidth(p) = 125000 -> 64
               [] Bandwidth(p) = 250000 -> 32 [] Bandwidth(p) = 500000 -> 16
BwPow(p) == Bandwidth(p) \div 125000

(* delay_y and delay_z.  The differences are unsigned in the code, where one *)
(* below 0 becomes a large number.                                           *)
Delays(p, unsigned) ==
    LET Arith(x) == IF unsigned THEN U(x) ELSE x
        crc == IF p.crc = "none" THEN 0 ELSE 1
        bytes == p.size + 2 * crc
    IN IF Arith(2 * bytes - (p.sf - 7)) <= 0       \* all in the first 8 symbols
       THEN (2^(p.sf - 1) * (p.sf + 1) + 3 * 2^(p.sf - 4)) \div BwPow(p)
            + (32 * (2 * bytes + 5)) \div BwPow(p)
       ELSE (2^(p.sf - 1) * (p.sf + 1) + (4 - Ppm(p)) * 2^(p.sf - 4)) \div BwPow(p)
            + ((16 + 4 * p.cr) * ((Arith(2 * bytes - p.sf + 6) % (p.sf - 2 * Ppm(p))) + 1))
              \div BwPow(p)

(* The FSK modem's own correction; a sensor channel with a spreading factor  *)
(* out of range has none.                                                    *)
Correction(p, unsigned) ==
    IF p.modem = "fsk" THEN 680000 \div FskDr - 20
    ELSE IF p.sf \in 6 .. 12 THEN DelayX(p) + Delays(p, unsigned) ELSE 0

CountUs_NoCrc(p) == U(p.stamp - Correction([p EXCEPT !.crc = "none"], TRUE))  \* mutant
CountUs_Signed(p) == p.stamp - Correction(p, TRUE)    \* mutant: not cut to the width

CountUs(p) == U(p.stamp - Correction(p, TRUE))

RxPkt(p) == [pkt |-> p, status |-> Status(p), count_us |-> CountUs(p)]

(***************************************************************************)
(* Steps.                                                                  *)
(***************************************************************************)
Init ==
    /\ arrived = << >> /\ aired = 0
    /\ fifo = << >> /\ fetched = << >>
    /\ faults = 0

(* A packet ends; a full FIFO does not take it. *)
Arrive(p) ==
    /\ aired < MaxArrivals
    /\ aired' = aired + 1
    /\ IF Len(fifo) < FifoDepth
       THEN fifo' = Append(fifo, p) /\ arrived' = Append(arrived, p)
       ELSE UNCHANGED <<fifo, arrived>>
    /\ UNCHANGED <<fetched, faults>>

(* mutant: the FIFO is advanced past the packet that stopped the loop *)
lgw_receive_Skips(max) ==
    /\ max \in 1 .. FifoDepth
    /\ LET most == IF Len(fifo) < max THEN Len(fifo) ELSE max IN
       \E n \in 0 .. most :
         /\ n < most => faults < MaxFaults
         /\ faults' = IF n < most THEN faults + 1 ELSE faults
         /\ fetched' = fetched \o [i \in 1 .. n |-> RxPkt(fifo[i])]
         /\ fifo' = SubSeq(fifo, (IF n < most THEN n + 2 ELSE n + 1), Len(fifo))
    /\ UNCHANGED <<arrived, aired>>

(* mutant: one packet is always left in the FIFO *)
lgw_receive_LeavesOne(max) ==
    /\ max \in 1 .. FifoDepth
    /\ IF Len(fifo) > 1
       THEN fetched' = Append(fetched, RxPkt(fifo[1])) /\ fifo' = Tail(fifo)
       ELSE UNCHANGED <<fetched, fifo>>
    /\ UNCHANGED <<arrived, aired, faults>>

(* lgw_receive refuses 0 packets or more than the FIFO holds.  It stops when *)
(* the FIFO is empty, and at a number of packets or an IF chain that cannot  *)
(* be, without advancing the FIFO: the packet is read again next time.       *)
lgw_receive(max) ==
    /\ max \in 1 .. FifoDepth
    /\ LET most == IF Len(fifo) < max THEN Len(fifo) ELSE max IN
       \E n \in 0 .. most :
         /\ n < most => faults < MaxFaults
         /\ faults' = IF n < most THEN faults + 1 ELSE faults
         /\ fetched' = fetched \o [i \in 1 .. n |-> RxPkt(fifo[i])]
         /\ fifo' = SubSeq(fifo, n + 1, Len(fifo))
    /\ UNCHANGED <<arrived, aired>>

Next ==
    \/ \E p \in Packets : Arrive(p)
    \/ \E max \in MaxPkt : lgw_receive(max)

Spec == Init /\ [][Next]_vars

(* The fetch thread calls lgw_receive in a loop that nothing blocks. *)
FairSpec == Spec /\ WF_vars(\E max \in MaxPkt : lgw_receive(max))

-----------------------------------------------------------------------------
(***************************************************************************)
(* Properties.                                                             *)
(***************************************************************************)

TypeOK ==
    /\ Len(fifo) <= FifoDepth
    /\ faults \in 0 .. MaxFaults
    /\ \A i \in DOMAIN fetched : fetched[i].count_us \in 0 .. 2^Width - 1

(* Every packet the FIFO took is fetched once, in order, also when a fetch   *)
(* was abandoned in the middle: what was fetched and what is still in the    *)
(* FIFO make up what arrived.                                                *)
FetchedOnceInOrder ==
    [i \in DOMAIN fetched |-> fetched[i].pkt] \o fifo = arrived

(* Abandoned fetches do not keep packets in the FIFO for ever. *)
FifoDrained == <>[](fifo = << >>)

(* The end of a packet is its stamp less the processing delay of the         *)
(* formula taken over the integers, for every packet of more than two bytes, *)
(* whose differences stay above 0; the stamp may have wrapped since.         *)
TimestampRight ==
    \A i \in DOMAIN fetched :
        LET p == fetched[i].pkt IN
        (p.modem = "fsk" \/ p.size > 2)
            => fetched[i].count_us = U(p.stamp - Correction(p, FALSE))

(* loragw_hal.c:1261 "payload fits entirely in first 8 symbols": the same    *)
(* for every packet.                                                         *)
ShortTimestampRight ==
    \A i \in DOMAIN fetched :
        fetched[i].count_us =
            U(fetched[i].pkt.stamp - Correction(fetched[i].pkt, FALSE))
=============================================================================
