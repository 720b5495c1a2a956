------------------------------- MODULE MacPhases -------------------------------
(***************************************************************************)
(* The phase handler thread of the MAC in time (rtlora_mac.c): network     *)
(* initialisation, schedule distribution and data collection, each a loop  *)
(* of intervals that start with a message and end with a sleep for what is *)
(* left of the interval; the transition a user asks for, which is          *)
(* announced by the number of each of the last messages of a phase; and    *)
(* the take-over of registrations, node by node, while the input thread    *)
(* puts new ones into RNL.                                                 *)
(*                                                                         *)
(* An action is one critical section: RNL and NODES have a mutex each, and *)
(* a node between them is held by the phase handler alone.  RtLoraMac      *)
(* models what a taken node does to the lists and schedules; here a        *)
(* registration is its node and its number among those of the node.  Time  *)
(* is counted from the start of an interval.                               *)
(***************************************************************************)
EXTENDS Integers, Sequences

CONSTANTS
    FirstPhases,    (* "data" as the program starts today, and "init"       *)
    Period,         (* TWOHOP_NBO_PHASE_TRANS_PERIOD: 6                     *)
    MaxInRnl,       (* TWOHOP_MAX_NBO_NODES_IN_RNL: 20                      *)
    Slots,          (* TWOHOP_NBO_SLOTS_IN_SCH1: 15                         *)
    Relays,         (* how many relays a schedule message may name          *)
    Length,         (* of each phase, the length of its interval            *)
    Sch2Slot,       (* TWOHOP_SCH2_SLOT_SIZE_US                             *)
    WorkTimes,      (* how long the work of an interval may take            *)
    Usec,           (* values of the 32 bits usleep takes                   *)
    Counter,        (* values of the 16 bits of a message number            *)
    Byte,           (* values of the 8 bits of sch2Sslot                    *)
    Nodes, NoNode,  (* nodes that may register, and no node                 *)
    MaxRegs         (* bound: of each node, how often it registers          *)

Phase == {"init", "schedule", "data"}

PhasesAssumption ==
    /\ FirstPhases \subseteq {"init", "data"}
    /\ {Period, MaxInRnl, Slots, Usec, Counter, Byte, Sch2Slot} \subseteq Nat \ {0}
    /\ Period < Counter /\ Slots < Counter /\ Relays \subseteq Nat
    /\ Length \in [Phase -> 1 .. Usec - 1] /\ WorkTimes \subseteq Nat
    /\ NoNode \notin Nodes /\ MaxRegs \in [Nodes -> Nat]

VARIABLES
    phase, pc,          (* the phase, and where in the interval             *)
    phaseTransRequest,  (* asked for by the user                            *)
    phaseTransCount,    (* messages left after a request                    *)
    number,             (* rnlIntCount, sch1Cnt, framePeriodCnt             *)
    sch2Sslot,          (* first free slot of the second part, a byte       *)
    RNL,                (* registrations that wait                          *)
    held,               (* tempNode: the one out of RNL, not yet in NODES   *)
    toAdd,              (* nodes still to be put into the RNL message       *)
    message,            (* the last message                                 *)
    elapsed,            (* time since the interval began                    *)
    gap,                (* length of the last interval of this phase        *)
    latest,             (* of each node, its last registration              *)
    taken               (* of each node, the one NODES holds                *)

time == <<elapsed, gap>>
waiting == <<RNL, held, toAdd, latest, taken>>
vars == <<phase, pc, phaseTransRequest, phaseTransCount, number, sch2Sslot, RNL, held, toAdd,
          message, elapsed, gap, latest, taken>>

NoMessage == [type |-> "none"]
Nobody == [node |-> NoNode, reg |-> 0]

Init ==
    /\ phase \in FirstPhases /\ pc = "top"
    /\ phaseTransRequest = FALSE /\ phaseTransCount = Period /\ number = 0 /\ sch2Sslot = 1
    /\ RNL = << >> /\ held = Nobody /\ toAdd = 0 /\ message = NoMessage
    /\ elapsed = 0 /\ gap = Length[phase]
    /\ latest = [n \in Nodes |-> 0] /\ taken = [n \in Nodes |-> 0]

-----------------------------------------------------------------------------
\* An RNL message is made while mutexPhaseTrans is held
Announcing == phase = "init" /\ pc \in {"size", "pop", "add"}

\* "PT" at the terminal, under mutexPhaseTrans
RequestTransition ==
    /\ ~Announcing
    /\ phaseTransRequest' = TRUE
    /\ UNCHANGED <<phase, pc, phaseTransCount, number, sch2Sslot, message, time, waiting>>

Waits(n) == \E k \in 1 .. Len(RNL) : RNL[k].node = n

\* mutant: a node on its way into NODES counts as still in the list
Pushed_WhileHeld(entry) ==
    IF Waits(entry.node) \/ held.node = entry.node
    THEN [k \in 1 .. Len(RNL) |-> IF RNL[k].node = entry.node THEN entry ELSE RNL[k]]
    ELSE Append(RNL, entry)

\* pushNode overwrites a node that waits already, where it stands
Pushed(entry) ==
    IF Waits(entry.node)
    THEN [k \in 1 .. Len(RNL) |-> IF RNL[k].node = entry.node THEN entry ELSE RNL[k]]
    ELSE Append(RNL, entry)

\* The input thread puts a node that registered, perhaps again, into RNL
RegisterNode(n) ==
    /\ latest[n] < MaxRegs[n]
    /\ latest' = [latest EXCEPT ![n] = @ + 1]
    /\ RNL' = Pushed([node |-> n, reg |-> latest[n] + 1])
    /\ UNCHANGED <<phase, pc, phaseTransRequest, phaseTransCount, number, sch2Sslot, held, toAdd,
                   message, time, taken>>

-----------------------------------------------------------------------------
LastSent == phaseTransCount = 0
Numbered == IF phaseTransRequest THEN phaseTransCount ELSE (number + 1) % Counter

Left == IF phaseTransRequest THEN phaseTransCount - 1 ELSE phaseTransCount

\* The head of an interval, under mutexPhaseTrans: the request is looked at
CountDown ==
    /\ pc = "top" /\ ~LastSent
    /\ number' = Numbered /\ phaseTransCount' = Left /\ elapsed' = 0
    /\ UNCHANGED <<phase, phaseTransRequest, sch2Sslot, gap, waiting>>

\* An interval of the network initialisation begins
RnlInterval ==
    /\ phase = "init" /\ CountDown
    /\ message' = [type |-> "RNL", number |-> number', ready |-> phaseTransRequest,
                   count |-> 0, nodes |-> << >>]
    /\ pc' = "size"

\* A frame of the data collection begins
DataFrame ==
    /\ phase = "data" /\ CountDown
    /\ pc' = "pop"
    /\ UNCHANGED message

\* nboAddedNodes of the RNL message: as many as wait and fit, read once
SizeRnl ==
    /\ pc = "size" /\ pc' = "pop"
    /\ toAdd' = IF Len(RNL) > MaxInRnl THEN MaxInRnl ELSE Len(RNL)
    /\ message' = [message EXCEPT !.count = toAdd']
    /\ UNCHANGED <<phase, phaseTransRequest, phaseTransCount, number, sch2Sslot, RNL, held, time,
                   latest, taken>>

\* A message takes the nodes it has counted, a frame goes on until RNL is empty
More == IF phase = "init" THEN toAdd > 0 ELSE RNL # << >>

PopHead ==
    /\ pc = "pop" /\ More /\ pc' = "add"
    /\ held' = IF RNL = << >> THEN Nobody ELSE Head(RNL)
    /\ RNL' = IF RNL = << >> THEN RNL ELSE Tail(RNL)
    /\ toAdd' = IF phase = "init" THEN toAdd - 1 ELSE toAdd
    /\ UNCHANGED <<phase, phaseTransRequest, phaseTransCount, number, sch2Sslot, message, time,
                   latest, taken>>

\* The node goes into NODES and, in the network initialisation, the message
AddNode ==
    /\ pc = "add" /\ pc' = "pop"
    /\ taken' = [n \in Nodes |-> IF held.node = n THEN held.reg ELSE taken[n]]
    /\ message' = IF phase = "init" THEN [message EXCEPT !.nodes = Append(@, held.node)]
                  ELSE message
    /\ held' = Nobody
    /\ UNCHANGED <<phase, phaseTransRequest, phaseTransCount, number, sch2Sslot, RNL, toAdd, time,
                   latest>>

\* All nodes are taken over; a frame sends its CM
EndTakeOver ==
    /\ pc = "pop" /\ ~More /\ pc' = "work"
    /\ message' = IF phase = "data" THEN [type |-> "CM", number |-> number] ELSE message
    /\ UNCHANGED <<phase, phaseTransRequest, phaseTransCount, number, sch2Sslot, time, waiting>>

Enter(p) ==
    /\ phase' = p /\ pc' = "top"
    /\ phaseTransCount' = Period /\ number' = 0 /\ sch2Sslot' = 1
    /\ elapsed' = 0 /\ gap' = Length[p]

\* The end of network initialisation or data collection
EndPhase ==
    /\ phase \in {"init", "data"} /\ pc = "top" /\ LastSent
    /\ phaseTransRequest' = FALSE
    /\ Enter("schedule")
    /\ UNCHANGED <<message, waiting>>

-----------------------------------------------------------------------------
SlotTop == phase = "schedule" /\ pc = "top" /\ number < Slots

\* An SM names its first slot of the second part; each relay in it takes one
SmSlot(relays) ==
    /\ SlotTop
    /\ number' = number + 1 /\ pc' = "work" /\ elapsed' = 0
    /\ message' = [type |-> "SM", number |-> number + 1, start |-> sch2Sslot, relays |-> relays]
    /\ sch2Sslot' = (sch2Sslot + relays) % Byte
    /\ UNCHANGED <<phase, phaseTransRequest, phaseTransCount, gap, waiting>>

\* No schedule is left to be distributed
IdleSlot ==
    /\ SlotTop
    /\ number' = number + 1 /\ pc' = "work" /\ elapsed' = 0
    /\ UNCHANGED <<phase, phaseTransRequest, phaseTransCount, sch2Sslot, message, gap, waiting>>

\* The second part: the thread sleeps while the relays tell their children
Sch2 ==
    /\ phase = "schedule" /\ pc = "top" /\ number = Slots
    /\ pc' = "sch2" /\ gap' = Sch2Slot * ((sch2Sslot - 1) % Byte)
    /\ UNCHANGED <<phase, phaseTransRequest, phaseTransCount, number, sch2Sslot, message, elapsed,
                   waiting>>

EndSchedule ==
    /\ pc = "sch2"
    /\ Enter("data")
    /\ UNCHANGED <<phaseTransRequest, message, waiting>>

-----------------------------------------------------------------------------
Work(t) ==
    /\ pc = "work" /\ pc' = "sleep" /\ elapsed' = t
    /\ UNCHANGED <<phase, phaseTransRequest, phaseTransCount, number, sch2Sslot, message, gap,
                   waiting>>

\* The rest of the interval is an unsigned difference, cut to what usleep takes
Delay == (Length[phase] - elapsed) % Usec

Sleep ==
    /\ pc = "sleep" /\ pc' = "top" /\ gap' = elapsed + Delay
    /\ UNCHANGED <<phase, phaseTransRequest, phaseTransCount, number, sch2Sslot, message, elapsed,
                   waiting>>

-----------------------------------------------------------------------------
phaseHandlerThread ==
    \/ RnlInterval \/ DataFrame \/ SizeRnl \/ PopHead \/ AddNode \/ EndTakeOver \/ EndPhase
    \/ \E relays \in Relays : SmSlot(relays)
    \/ IdleSlot \/ Sch2 \/ EndSchedule
    \/ \E t \in WorkTimes : Work(t)
    \/ Sleep

Next == phaseHandlerThread \/ RequestTransition \/ \E n \in Nodes : RegisterNode(n)

Spec == Init /\ [][Next]_vars

\* The thread waits for nothing but mutexes that are held for a bounded time
\* and its own sleeps.
FairSpec == Spec /\ WF_vars(phaseHandlerThread)

-----------------------------------------------------------------------------
Registration == [node : Nodes, reg : Nat \ {0}]

TypeOK ==
    /\ phase \in Phase /\ pc \in {"top", "size", "pop", "add", "work", "sleep", "sch2"}
    /\ phaseTransRequest \in BOOLEAN /\ phaseTransCount \in 0 .. Period
    /\ number \in 0 .. Counter - 1 /\ sch2Sslot \in 0 .. Byte - 1
    /\ RNL \in Seq(Registration) /\ held \in Registration \cup {Nobody} /\ toAdd \in 0 .. MaxInRnl
    /\ message.type \in {"none", "RNL", "SM", "CM"}
    /\ elapsed \in WorkTimes \cup {0} /\ gap \in Nat
    /\ {latest, taken} \subseteq [Nodes -> Nat]

\* A phase that was asked to end announces it in each of its last Period
\* messages, numbered down to 1, whenever in an interval the request came and
\* however often: the count is never above a message that announced less.
AnnouncedDown ==
    /\ phase \in {"init", "data"} /\ phaseTransCount < Period => number = phaseTransCount + 1
    /\ message.type = "RNL" /\ phase = "init" => (message.ready <=> phaseTransCount < Period)

\* A phase ends with its message number 1 and no other.
EndsWithOne == [][phase # phase' /\ phase # "schedule" => number = 1]_vars

\* However registrations fall between the pops of the take-over, the last one
\* of each node is in NODES, held by the phase handler, or still in RNL.
NoneLost ==
    \A n \in Nodes :
        \/ taken[n] = latest[n]
        \/ held = [node |-> n, reg |-> latest[n]]
        \/ \E k \in 1 .. Len(RNL) : RNL[k] = [node |-> n, reg |-> latest[n]]

\* Nothing that waits or is held is older than what NODES has: a registration
\* is taken over once, and never undoes a later one of its node.
NewestLast ==
    /\ held # Nobody => held.reg > taken[held.node]
    /\ \A k \in 1 .. Len(RNL) :
         /\ RNL[k].reg > taken[RNL[k].node]
         /\ RNL[k].node = held.node => RNL[k].reg > held.reg
         /\ \A j \in 1 .. Len(RNL) : RNL[j].node = RNL[k].node => j = k

\* An RNL message names as many nodes as its header says, all of them, each
\* once, and none that is not there: between the count and the pops nodes only
\* come, also those named already, which are left for the next message.
RnlComplete ==
    message.type = "RNL" =>
        /\ Len(message.nodes) <= message.count /\ message.count <= MaxInRnl
        /\ pc \in {"top", "work", "sleep"} => Len(message.nodes) = message.count
        /\ \A j, k \in 1 .. Len(message.nodes) :
             /\ message.nodes[k] # NoNode
             /\ message.nodes[j] = message.nodes[k] => j = k

\* The relays of an SM begin in the second part where those of the SM before
\* it ended, and the data collection waits for the last of them, modulo the
\* byte that counts them.
RelaysInTurn ==
    LET named == IF message.type = "SM" THEN message.start + message.relays - 1 ELSE 0
    IN  /\ phase = "schedule" => (sch2Sslot - 1) % Byte = named % Byte
        /\ pc = "sch2" => gap = Sch2Slot * (named % Byte)

\* A request ends the phase.
RequestIsMet == phaseTransRequest /\ phase # "schedule" ~> phase = "schedule"

\* A node that waits is taken over, however the phases change and whoever else
\* registers in between.
WaitingAreTaken == \A n \in Nodes : Waits(n) ~> ~Waits(n)

\* The messages of a phase start an interval apart when the work takes no
\* longer than the interval.
IntervalKept == pc = "top" /\ elapsed <= Length[phase] => gap = Length[phase]

\* rtlora_mac.c:600 "parse data every frame period", :374 "periodically
\* transmit RNLint": an interval lasts no longer than two.
EveryPeriod == pc = "top" => gap <= 2 * Length[phase]
=============================================================================
