----------------------------- MODULE DownlinkPath ----------------------------
(***************************************************************************)
(* A message's way down: thread_downstream of the server writes it as a    *)
(* JSON datagram (lora_network_server.c 710-967), one gateway's connection *)
(* carries it, thread_down of the gateway reads it back                    *)
(* (rtlora_gw.c 1253-1560) and hands a packet to the just-in-time queue,   *)
(* which GwDownlink takes over from there.                                 *)
(*                                                                         *)
(* A JSON object is a function from the names of its fields to values; the *)
(* value BROKEN stands for text that is no JSON.  A datagram of n units    *)
(* takes n units of the stream; a read takes one unit or more.             *)
(***************************************************************************)
EXTENDS Integers, Sequences, SequencesExt, Functions

CONSTANTS Msgs,          (* messages, as functions from fields to values       *)
          Foreign,       (* objects another server may send                    *)
          BROKEN, NULL,
          txlut,         (* the transmit powers of the gateway                 *)
          antenna_gain,
          MIN_LORA_PREAMB, STD_LORA_PREAMB,
          Units,         (* a datagram's length in units                       *)
          ReadMax,       (* what the gateway's buff_down of 1024 bytes holds   *)
          MaxSent,       (* bound: datagrams                                   *)
          Paced          (* a datagram is sent when the last one was read      *)

DownlinkPathAssumption ==
    /\ antenna_gain \in Int /\ txlut \subseteq Int
    /\ MIN_LORA_PREAMB \in Nat /\ STD_LORA_PREAMB \in Nat
    /\ Units \in Nat \ {0} /\ ReadMax \in Nat \ {0} /\ MaxSent \in Nat
    /\ Paced \in BOOLEAN

VARIABLES sent,       (* the objects sent                                    *)
          meant,      (* the message behind each, NULL for a foreign one     *)
          stream,     (* the units under way                                 *)
          accepted,   (* the packets handed to jit_enqueue, with the number  *)
                      (* of their datagram                                   *)
          trees,      (* JSON trees that were parsed and never freed         *)
          server      (* "runs", or "exited" on a message it cannot write    *)

vars == <<sent, meant, stream, accepted, trees, server>>
-----------------------------------------------------------------------------
(* thread_downstream: the datagram of a message.                            *)

SFs == {"SF7", "SF8", "SF9", "SF10", "SF11", "SF12"}
BWs == {125, 250, 500}
CRs == {"4/5", "4/6", "4/7", "4/8"}

\* What the server can write; it exits on anything else.
Writable(m) ==
    \/ /\ m.modulation = "LORA"
       /\ m.datarate \in SFs /\ m.bandwidth \in BWs /\ m.coderate \in CRs \cup {"OFF"}
    \/ m.modulation = "FSK"

\* A writer that always names the spreading factor 7.
Compose_SF7(m) ==
    [tm |-> m.tm, imme |-> TRUE, rfch |-> m.rf_chain, freq |-> m.freq,
     powe |-> m.rf_power, modu |-> m.modulation,
     datr |-> <<"SF7", m.bandwidth>>, codr |-> m.coderate,
     ipol |-> m.invert_pol, prea |-> m.preamble, size |-> m.size, data |-> m.payload]

\* Every message is "immediate".  For inverted polarity the index is moved one
\* byte too far and the fields ipol are written twice: the byte between them
\* is what an earlier message left there and no JSON.
Compose(m) ==
    IF m.invert_pol THEN BROKEN
    ELSE IF m.modulation = "LORA"
    THEN [tm |-> m.tm, imme |-> TRUE, rfch |-> m.rf_chain, freq |-> m.freq,
          powe |-> m.rf_power, modu |-> "LORA",
          datr |-> <<m.datarate, m.bandwidth>>, codr |-> m.coderate,
          ipol |-> FALSE, prea |-> m.preamble, size |-> m.size, data |-> m.payload]
    ELSE [tm |-> m.tm, imme |-> TRUE, rfch |-> m.rf_chain, freq |-> m.freq,
          powe |-> m.rf_power, modu |-> "FSK", datr |-> m.datarate,
          ipol |-> FALSE, prea |-> m.preamble, size |-> m.size, data |-> m.payload]
-----------------------------------------------------------------------------
(* thread_down: the packet of a datagram.                                   *)

Has(obj, names) == names \subseteq DOMAIN obj

\* The fields whose absence aborts the transmission, up to the modulation.
RadioFields == {"tm", "freq", "rfch", "modu"}

\* datr names a spreading factor and a bandwidth, codr a coding rate; the
\* server's "OFF" is none.
LoraFieldsOk(obj) ==
    /\ Has(obj, {"datr", "codr"})
    /\ obj.datr \in SFs \X BWs
    /\ obj.codr \in CRs \cup {"2/3", "1/2"}

PayloadFieldsOk(obj) == Has(obj, {"size", "data"})

CodingRate(codr) == CASE codr = "2/3" -> "4/6" [] codr = "1/2" -> "4/8"
                      [] codr \notin {"2/3", "1/2"} -> codr

Preamble(obj) ==
    IF ~ Has(obj, {"prea"}) THEN STD_LORA_PREAMB
    ELSE IF obj.prea >= MIN_LORA_PREAMB THEN obj.prea ELSE MIN_LORA_PREAMB

\* A reader that leaves the antenna's gain out.
Power_NoGain(obj) == IF Has(obj, {"powe"}) THEN obj.powe ELSE 0

\* The antenna adds its gain to the transmit power; no field, no power.
Power(obj) == IF Has(obj, {"powe"}) THEN obj.powe - antenna_gain ELSE 0

Parsable(obj) ==
    /\ obj # BROKEN
    /\ Has(obj, RadioFields) /\ obj.modu = "LORA"
    /\ LoraFieldsOk(obj) /\ PayloadFieldsOk(obj)

\* The packet for the concentrator.
TxPkt(obj) ==
    [tm |-> obj.tm,
     tx_mode    |-> IF Has(obj, {"imme"}) /\ obj.imme THEN "IMMEDIATE" ELSE "TIMESTAMPED",
     freq_hz    |-> obj.freq, rf_chain |-> obj.rfch, rf_power |-> Power(obj),
     datarate   |-> obj.datr[1], bandwidth |-> obj.datr[2],
     coderate   |-> CodingRate(obj.codr),
     invert_pol |-> Has(obj, {"ipol"}) /\ obj.ipol,
     preamble   |-> Preamble(obj),
     size       |-> obj.size, payload |-> obj.data]

PowerSupported(pkt) == pkt.rf_power \in txlut

\* A reader that frees the tree on the good path only.
Leaks_OnReject(obj) == obj # BROKEN /\ ~ Parsable(obj)

\* Every path frees the tree, but for the one of FSK.
Leaks(obj) == obj # BROKEN /\ Has(obj, RadioFields) /\ obj.modu = "FSK"
-----------------------------------------------------------------------------
Init ==
    /\ sent = << >> /\ meant = << >> /\ stream = << >>
    /\ accepted = << >> /\ trees = 0
    /\ server = "runs"

\* A writer that counts the terminating zero.
Put_OneUnitMore(obj, m) ==
    /\ sent' = Append(sent, obj)
    /\ meant' = Append(meant, m)
    /\ stream' = stream \o [k \in 1 .. Units + 1 |-> [dgram |-> Len(sent) + 1, unit |-> k]]

Put(obj, m) ==
    /\ sent' = Append(sent, obj)
    /\ meant' = Append(meant, m)
    /\ stream' = stream \o [k \in 1 .. Units |-> [dgram |-> Len(sent) + 1, unit |-> k]]

MaySend == Len(sent) < MaxSent /\ (Paced => stream = << >>)

\* thread_downstream sends a message of the MAC.
ThreadDownstream ==
    /\ server = "runs" /\ MaySend
    /\ \E m \in Msgs :
         IF Writable(m)
         THEN Put(Compose(m), m) /\ UNCHANGED server
         ELSE server' = "exited" /\ UNCHANGED <<sent, meant, stream>>
    /\ UNCHANGED <<accepted, trees>>

\* A datagram of another server.
SendForeign ==
    /\ MaySend
    /\ \E obj \in Foreign : Put(obj, NULL)
    /\ UNCHANGED <<accepted, trees, server>>

\* A reader that does not look at the header.
Readable_EachUnit(buff) == buff[1].unit \in 1 .. Units

\* The object of what recv returned: the buffer must begin with a datagram's
\* header; a text that is cut short is no JSON, what follows it is not read.
Readable(buff) == buff[1].unit = 1 /\ Len(buff) >= Units

\* thread_down, one round with a downlink datagram.
ThreadDown ==
    /\ stream # << >>
    /\ \E n \in 1 .. ReadMax :
         /\ n <= Len(stream)
         /\ Paced => n = Len(stream)
         /\ LET buff == SubSeq(stream, 1, n)
                obj  == sent[buff[1].dgram]
            IN  IF ~ Readable(buff) THEN UNCHANGED <<accepted, trees>>
                ELSE /\ accepted' = IF Parsable(obj) /\ PowerSupported(TxPkt(obj))
                                    THEN Append(accepted, [d |-> buff[1].dgram, pkt |-> TxPkt(obj)])
                                    ELSE accepted
                     /\ trees' = IF Leaks(obj) THEN trees + 1 ELSE trees
         /\ stream' = SubSeq(stream, n + 1, Len(stream))
    /\ UNCHANGED <<sent, meant, server>>

Next == ThreadDownstream \/ SendForeign \/ ThreadDown

Spec == Init /\ [][Next]_vars
-----------------------------------------------------------------------------
(* Properties.                                                              *)

\* The variables have their types.
TypeOK ==
    /\ Len(meant) = Len(sent) /\ Len(sent) <= MaxSent
    /\ \A k \in 1 .. Len(stream) : /\ stream[k].dgram \in 1 .. Len(sent)
                                   /\ stream[k].unit \in 1 .. Units
    /\ trees \in 0 .. Len(sent)
    /\ server \in {"runs", "exited"}

\* What the gateway queues for one of the server's messages is that message:
\* the writer and the reader agree on every field, with the power lowered by
\* the antenna's gain, whatever the connection cuts and joins.
PktIsMsg ==
    \A k \in DOMAIN accepted :
        LET m == meant[accepted[k].d]
            p == accepted[k].pkt
        IN  m # NULL =>
                /\ p.tm = m.tm /\ p.tx_mode = "IMMEDIATE"
                /\ p.freq_hz = m.freq /\ p.rf_chain = m.rf_chain
                /\ p.rf_power + antenna_gain = m.rf_power
                /\ <<p.datarate, p.bandwidth, p.coderate>> = <<m.datarate, m.bandwidth, m.coderate>>
                /\ p.invert_pol = m.invert_pol /\ p.preamble = m.preamble
                /\ p.size = m.size /\ p.payload = m.payload

\* Packets are queued in the order of the messages, none twice.
InOrderAtMostOnce ==
    \A k, l \in DOMAIN accepted : k < l => accepted[k].d < accepted[l].d

\* Among all objects of any server, the reader loses the tree of the FSK ones
\* only; every other early return frees it.
OnlyFskLeaks ==
    trees <= Len(SelectSeq(sent, LAMBDA o : o # BROKEN /\ Has(o, {"modu"}) /\ o.modu = "FSK"))

\* When the connection keeps datagrams apart, every LoRa message whose power
\* the gateway has, with normal polarity and a coding rate, is queued.
PacedAllQueued ==
    stream = << >> =>
        \A d \in DOMAIN sent :
            /\ meant[d] # NULL /\ meant[d].modulation = "LORA"
            /\ ~ meant[d].invert_pol /\ meant[d].coderate # "OFF"
            /\ meant[d].rf_power - antenna_gain \in txlut
            => \E k \in DOMAIN accepted : accepted[k].d = d
=============================================================================
