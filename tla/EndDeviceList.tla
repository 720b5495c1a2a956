---------------------------- MODULE EndDeviceList ----------------------------
(***************************************************************************)
(* The end devices of the LoRaWAN part of the server (device_management.c):*)
(* the list ED_HEAD, where each device keeps the two gateways that hear it *)
(* best, the primary one first.  Join requests and data frames enter and   *)
(* update devices, a gateway that disconnects is taken out of all of them, *)
(* and a downlink frame goes to the primary gateway.  The two-hop protocol *)
(* of the program does not call these functions any more except for the    *)
(* start, the end, the removal of gateways and the display; they are       *)
(* modelled as the library they are.                                       *)
(*                                                                         *)
(* Of the values that are only copied (counters, radio settings, keys,     *)
(* times) the model keeps none; the list is the sequence of its nodes.     *)
(***************************************************************************)
EXTENDS Integers, Sequences

CONSTANTS
    Address,    (* addresses of devices                                     *)
    Socket,     (* descriptors of gateways                                  *)
    Rssi,       (* received signal strengths, all negative                  *)
    Fixed,      (* the addresses NodeExp enters, in its order               *)
    Preset,     (* the addresses PreConfigNode enters, in its order         *)
    MaxDev      (* bound: devices in the list                               *)

DeviceAssumption ==
    /\ Address \subseteq Nat /\ Socket \subseteq Nat /\ MaxDev \in Nat
    /\ Rssi \subseteq Int /\ \A r \in Rssi : r < 0
    /\ Fixed \in Seq(Address) /\ Preset \in Seq(Address)
    /\ \A i, k \in DOMAIN Preset : i < k => Preset[i] < Preset[k]

NoGw == [socket |-> -1, rssi |-> 0]

\* The signal strength NodeExp enters is below every real one
Faint == -200

Gw == {NoGw} \cup [socket : Socket, rssi : Rssi \cup {Faint}]

VARIABLES
    list,   (* the devices from ED_HEAD.next on                              *)
    up      (* the gateways that are connected                               *)

vars == <<list, up>>

Init == list = << >> /\ up = {}

NewDevice(a, g) == [address |-> a, gw |-> <<g, NoGw>>]

-----------------------------------------------------------------------------
(* Helpers                                                                  *)

Min0(S) == IF S = {} THEN 0 ELSE CHOOSE i \in S : \A k \in S : i <= k

\* mutant: only the first device is looked at
FindEndDevice_First(a) == IF list # << >> /\ list[1].address = a THEN 1 ELSE 0

\* The place of the first device with the address, 0 if there is none
FindEndDevice(a) == Min0({i \in DOMAIN list : list[i].address = a})

\* Return primary GW socket
FindGWSocket(a) ==
    IF FindEndDevice(a) = 0 THEN -1 ELSE list[FindEndDevice(a)].gw[1].socket

\* mutant: the better one is put second
Better_Swapped(d) ==
    IF d.gw[1].rssi > d.gw[2].rssi THEN [d EXCEPT !.gw = <<d.gw[2], d.gw[1]>>] ELSE d

\* Which GW is better?
Better(d) ==
    IF d.gw[1].rssi < d.gw[2].rssi THEN [d EXCEPT !.gw = <<d.gw[2], d.gw[1]>>] ELSE d

\* The place in front of which the sorting loops stop first
Place(l, a) ==
    LET larger == Min0({i \in DOMAIN l : l[i].address > a})
    IN  IF larger = 0 THEN Len(l) + 1 ELSE larger

\* mutant: the rest of the list is not linked to the new device
Sorted_Cut(l, d) ==
    SubSeq(l, 1, Place(l, d.address) - 1) \o <<d>>

\* AddEndDeviceInfo stops at the first larger address
Sorted(l, d) ==
    LET p == Place(l, d.address)
    IN  SubSeq(l, 1, p - 1) \o <<d>> \o SubSeq(l, p, Len(l))

\* NodeExp and PreConfigNode go on after the insertion, link every further
\* device to the new one and end with the new one as the last: what stood
\* behind it is not linked any more
SortedToEnd(l, d) == SubSeq(l, 1, Place(l, d.address) - 1) \o <<d>>

-----------------------------------------------------------------------------
(* Operations                                                               *)

\* A join request: a known gateway gets the new strength, a free second place
\* is taken and compared; a third gateway is not noted
AddEndDeviceInfo(a, s, r) ==
    LET i == FindEndDevice(a)
        g == [socket |-> s, rssi |-> r]
        d == list[i]
    IN  /\ s \in up
        /\ \/ /\ i = 0 /\ Len(list) < MaxDev
              /\ list' = Sorted(list, NewDevice(a, g))
           \/ /\ i # 0
              /\ list' = [list EXCEPT ![i] =
                    IF d.gw[1].socket = s THEN [d EXCEPT !.gw[1] = g]
                    ELSE IF d.gw[2].socket = s THEN [d EXCEPT !.gw[2] = g]
                    ELSE IF d.gw[2].socket = -1 THEN Better([d EXCEPT !.gw[2] = g])
                    ELSE d]
        /\ UNCHANGED up

\* A data frame: as above, but a third gateway replaces a weaker second one,
\* and the two are compared each time.  A new device becomes the first.
RxEndDeviceInfoUpdate(a, s, r) ==
    LET i == FindEndDevice(a)
        g == [socket |-> s, rssi |-> r]
        d == list[i]
        second == d.gw[2].socket \in {s, -1} \/ d.gw[2].rssi < r
        heard == IF d.gw[1].socket = s THEN [d EXCEPT !.gw[1] = g]
                 ELSE IF second THEN [d EXCEPT !.gw[2] = g] ELSE d
    IN  /\ s \in up
        /\ \/ /\ i = 0 /\ Len(list) < MaxDev
              /\ list' = <<NewDevice(a, g)>> \o list
           \/ /\ i # 0
              /\ list' = [list EXCEPT ![i] =
                    IF heard.gw[2].socket = -1 THEN heard ELSE Better(heard)]
        /\ UNCHANGED up

\* mutant: the second place is only emptied when the first one is not
Without_First(d, s) ==
    IF d.gw[1].socket = s THEN [d EXCEPT !.gw = <<NoGw, d.gw[2]>>]
    ELSE IF d.gw[2].socket = s THEN [d EXCEPT !.gw[2] = NoGw] ELSE d

\* mutant: only the primary gateway is looked at
Without_Primary(d, s) ==
    IF d.gw[1].socket = s THEN [d EXCEPT !.gw = <<d.gw[2], NoGw>>] ELSE d

\* A device without the gateway: the second one takes the first place
Without(d, s) ==
    IF d.gw[1].socket = s THEN [d EXCEPT !.gw = <<d.gw[2], NoGw>>]
    ELSE IF d.gw[2].socket = s THEN [d EXCEPT !.gw[2] = NoGw] ELSE d

RemoveGateWayFromEndDevice(s) ==
    /\ s \in up /\ up' = up \ {s}
    /\ list' = [i \in DOMAIN list |-> Without(list[i], s)]

AddGateWay(s) ==
    /\ s \notin up /\ up' = up \cup {s} /\ UNCHANGED list

\* Two devices with fixed keys; whether they exist is not looked at
NodeExp(s) ==
    LET faint == [socket |-> s, rssi |-> Faint]
        enter[k \in 0 .. Len(Fixed)] ==
            IF k = 0 THEN list ELSE SortedToEnd(enter[k - 1], NewDevice(Fixed[k], faint))
    IN  /\ s \in up /\ Len(list) + Len(Fixed) <= MaxDev
        /\ list' = enter[Len(Fixed)]
        /\ UNCHANGED up

\* Devices with consecutive addresses and no gateway, entered at the start
PreConfigNode ==
    LET enter[k \in 0 .. Len(Preset)] ==
            IF k = 0 THEN list ELSE SortedToEnd(enter[k - 1], NewDevice(Preset[k], NoGw))
    IN  /\ list = << >> /\ Preset # << >> /\ Len(Preset) <= MaxDev
        /\ list' = enter[Len(Preset)]
        /\ UNCHANGED up

DeinitEndDeviceInfo ==
    /\ list # << >> /\ list' = << >> /\ UNCHANGED up

Frames ==
    \E a \in Address, s \in Socket, r \in Rssi :
        AddEndDeviceInfo(a, s, r) \/ RxEndDeviceInfoUpdate(a, s, r)

Gateways == \E s \in Socket : AddGateWay(s) \/ RemoveGateWayFromEndDevice(s)

Next == Frames \/ Gateways \/ PreConfigNode \/ DeinitEndDeviceInfo

Spec == Init /\ [][Next]_vars

\* With the experiment's two devices
ExpSpec == Init /\ [][Next \/ \E s \in Socket : NodeExp(s)]_vars

-----------------------------------------------------------------------------
\* No two devices have the same address
TypeOK ==
    /\ list \in Seq([address : Address, gw : Gw \X Gw])
    /\ up \subseteq Socket
    /\ \A i, k \in DOMAIN list : list[i].address = list[k].address => i = k

\* Whatever gateways came and went, a device refers to connected gateways
\* only, never twice to the same: a downlink frame is not written to a
\* descriptor that was closed or that now belongs to something else
\* (RemoveGateWay, device_management.c:154, FindGWSocket).
NoStaleGateway ==
    \A i \in DOMAIN list :
        LET g == list[i].gw
        IN  /\ {g[1].socket, g[2].socket} \subseteq up \cup {-1}
            /\ g[1].socket = g[2].socket => g[1].socket = -1

\* A device with two gateways is still reached when either disconnects.
Failover ==
    [][\A a \in Address :
          (/\ list' # << >> /\ FindEndDevice(a) # 0
           /\ \A k \in 1 .. 2 : list[FindEndDevice(a)].gw[k].socket # -1)
             => FindGWSocket(a)' \in up']_vars

\* After a data frame the primary gateway is the one with the stronger signal
\* of the two, also when a join or a third gateway had disturbed the order.
PrimaryAfterData ==
    [][\A a \in Address, s \in Socket, r \in Rssi :
          (RxEndDeviceInfoUpdate(a, s, r) /\ list' # list)
             => LET g == list'[FindEndDevice(a)'].gw
                IN  g[2].socket # -1 => g[1].rssi >= g[2].rssi]_vars

\* Devices are only lost when the list is given up.
NoneLost ==
    [][\A a \in Address : (list' # << >> /\ FindEndDevice(a) # 0) => FindEndDevice(a)' # 0]_vars

\* device_management.c:255 "Sorting by Address": the devices stand in the
\* order of their addresses.
SortedByAddress ==
    \A i, k \in DOMAIN list : i < k => list[i].address <= list[k].address

\* device_management.c:293 "Which GW is better?": the primary gateway is the
\* one with the stronger signal.
PrimaryIsBetter ==
    \A i \in DOMAIN list :
        list[i].gw[2].socket # -1 => list[i].gw[1].rssi >= list[i].gw[2].rssi

\* lora_mac.c:469 "Find socket number of GW, which connected End-device": a
\* device that some connected gateway hears has a route.
HeardHasRoute ==
    \A i \in DOMAIN list :
        (\E k \in 1 .. 2 : list[i].gw[k].socket # -1) => FindGWSocket(list[i].address) # -1
=============================================================================
