------------------------------ MODULE UplinkPath -----------------------------
(***************************************************************************)
(* A packet's way up: the concentrator's FIFO, thread_up of the gateway    *)
(* (rtlora_gw.c 923-1200), which packs up to NB_PKT_MAX packets into one   *)
(* JSON datagram, the TCP connection, and the input thread of the server   *)
(* (lora_network_server.c 439-706), which takes what one read() returns    *)
(* for one datagram.                                                       *)
(*                                                                         *)
(* A datagram is a list of units of the stream: the k-th unit holds its    *)
(* k-th packet, the first unit the header, too.  A read takes one unit or  *)
(* more: TCP keeps no boundaries.  A datagram's text is well formed unless *)
(* an FSK packet is in it, which is written without its opening field.     *)
(***************************************************************************)
EXTENDS Integers, Sequences, SequencesExt

CONSTANTS Kinds,        (* of the packets that are received; a subset of     *)
                        (* "lora", "fsk", "badCrc", "odd"                    *)
          MaxRx,        (* bound: packets received                           *)
          NB_PKT_MAX,
          ReadMax,      (* what the server's buff_in of 512 bytes holds      *)
          Paced         (* a datagram is sent when the last one was read     *)

UplinkAssumption ==
    /\ Kinds \subseteq {"lora", "fsk", "badCrc", "odd"}
    /\ MaxRx \in Nat /\ NB_PKT_MAX \in Nat \ {0} /\ ReadMax \in Nat \ {0}
    /\ Paced \in BOOLEAN

VARIABLES received,   (* the kinds of all packets received, by their number  *)
          fetched,    (* how many of them the gateway has fetched            *)
          sent,       (* the datagrams sent                                  *)
          stream,     (* the units under way                                 *)
          inbound,    (* the packets the server has queued                   *)
          gwRuns      (* thread_up runs                                      *)

vars == <<received, fetched, sent, stream, inbound, gwRuns>>

Nums == 1 .. MaxRx

Init ==
    /\ received = << >> /\ fetched = 0
    /\ sent = << >> /\ stream = << >>
    /\ inbound = << >>
    /\ gwRuns = TRUE

\* The concentrator receives a packet.
Receive ==
    /\ Len(received) < MaxRx
    /\ \E k \in Kinds : received' = Append(received, k)
    /\ UNCHANGED <<fetched, sent, stream, inbound, gwRuns>>
-----------------------------------------------------------------------------
(* thread_up.                                                               *)

\* A filter that gives up the rest of the fetch at the first bad packet.
Serialised_StopsAtBad(nums) ==
    SelectSeq(nums, LAMBDA p : \A q \in Range(nums) :
                                   q <= p => received[q] \in {"lora", "fsk"})

\* The packets of a fetch that are written into the datagram.  A bad CRC, an
\* unknown status, modulation, data rate or bandwidth: what was written of the
\* packet is taken back.
Serialised(nums) == SelectSeq(nums, LAMBDA p : received[p] \in {"lora", "fsk"})

WellFormed(nums) == \A k \in DOMAIN nums : received[nums[k]] # "fsk"

\* What lgw_receive may return: the oldest packets, up to NB_PKT_MAX.
Batches == {[k \in 1 .. n |-> fetched + k] : n \in 1 .. NB_PKT_MAX}

\* A count of the packets that the filtered ones are part of.
ThreadUp_CountsFiltered ==
    /\ gwRuns
    /\ Paced => stream = << >>
    /\ \E nums \in Batches :
         /\ Last(nums) <= Len(received)
         /\ fetched' = Last(nums)
         /\ sent' = Append(sent, Serialised(nums))
         /\ stream' = stream \o [k \in 1 .. Len(nums) |->
                                     [dgram |-> Len(sent) + 1, unit |-> k]]
    /\ UNCHANGED <<received, inbound, gwRuns>>

\* No datagram is sent when all packets were filtered out.
ThreadUp ==
    /\ gwRuns
    /\ Paced => stream = << >>
    /\ \E nums \in Batches :
         /\ Last(nums) <= Len(received)
         /\ fetched' = Last(nums)
         /\ LET objs == Serialised(nums)
                d    == Len(sent) + 1
            IN  IF objs = << >> THEN UNCHANGED <<sent, stream>>
                ELSE /\ sent' = Append(sent, objs)
                     /\ stream' = stream \o [k \in 1 .. Len(objs) |-> [dgram |-> d, unit |-> k]]
    /\ UNCHANGED <<received, inbound, gwRuns>>

\* lgw_receive reports an error: the whole gateway program exits.
FetchFails ==
    /\ gwRuns
    /\ gwRuns' = FALSE
    /\ UNCHANGED <<received, fetched, sent, stream, inbound>>
-----------------------------------------------------------------------------
(* The input thread of the server.                                          *)

\* A server that takes the text of a datagram whose end is still to come.
Delivered_Partial(buff) ==
    IF buff[1].unit # 1 \/ ~ WellFormed(sent[buff[1].dgram]) THEN << >>
    ELSE SelectSeq(sent[buff[1].dgram],
                   LAMBDA p : \E k \in DOMAIN buff :
                                  /\ buff[k].dgram = buff[1].dgram
                                  /\ sent[buff[1].dgram][buff[k].unit] = p)

\* A server that reads every datagram of a buffer, but also those begun before.
Delivered_All(buff) ==
    FlattenSeq([k \in DOMAIN buff |->
        IF buff[k].unit = 1 \/ k = 1 THEN sent[buff[k].dgram] ELSE << >>])

\* upstream_data_handle: the packets it queues for one buffer.  The buffer
\* must begin with a header; the JSON text behind it is read up to the end of
\* its first value, whatever follows; text that is cut short or not well
\* formed is none at all.
Delivered(buff) ==
    LET objs == sent[buff[1].dgram]
    IN  IF /\ buff[1].unit = 1
           /\ Len(buff) >= Len(objs)
           /\ WellFormed(objs)
        THEN objs ELSE << >>

\* One pass of the input thread over a readable socket.
ServerRead ==
    /\ stream # << >>
    /\ \E n \in 1 .. ReadMax :
         /\ n <= Len(stream)
         /\ Paced => n = Len(stream) \/ n = ReadMax
         /\ inbound' = inbound \o Delivered(SubSeq(stream, 1, n))
         /\ stream' = SubSeq(stream, n + 1, Len(stream))
    /\ UNCHANGED <<received, fetched, sent, gwRuns>>

Next == Receive \/ ThreadUp \/ FetchFails \/ ServerRead

Spec == Init /\ [][Next]_vars
-----------------------------------------------------------------------------
(* Properties.                                                              *)

\* The variables have their types; the units under way are in order.
TypeOK ==
    /\ received \in Seq(Kinds) /\ Len(received) <= MaxRx
    /\ fetched \in 0 .. Len(received)
    /\ sent \in Seq(Seq(Nums)) /\ inbound \in Seq(Nums)
    /\ \A k \in 1 .. Len(stream) :
           stream[k].unit \in 1 .. Len(sent[stream[k].dgram])
    /\ gwRuns \in BOOLEAN

\* However the connection cuts and joins the datagrams, the MAC gets packets
\* that were received whole, each at most once and in the order they came
\* (thread_up's filter, upstream_data_handle).
InOrderAtMostOnce ==
    /\ \A j, k \in 1 .. Len(inbound) : j < k => inbound[j] < inbound[k]
    /\ \A k \in 1 .. Len(inbound) : received[inbound[k]] = "lora"

\* A datagram is taken whole or not at all: the server never queues a part of
\* the packets of one datagram, nor of two at a time.
WholeDatagrams ==
    [][\/ inbound' = inbound
       \/ \E d \in DOMAIN sent : inbound' = inbound \o sent[d]]_vars

\* The good packets fetched, but for those beside an FSK packet.
Owed == SelectSeq([p \in 1 .. fetched |-> p],
                  LAMBDA p : /\ received[p] = "lora"
                             /\ \A d \in DOMAIN sent :
                                    p \in Range(sent[d]) => WellFormed(sent[d]))

\* When each datagram finds the connection empty and fits into the server's
\* buffer, every good packet that is not fetched with an FSK packet reaches the MAC.
PacedAllArrive == stream = << >> => inbound = Owed

\* PROTOCOL.txt 128-129: the datagrams forward the packets received to the
\* server: once nothing is under way, all of them have arrived.
AllArrive == stream = << >> => inbound = Owed
=============================================================================
