------------------------------ MODULE RtLoraMac ------------------------------
(***************************************************************************)
(* The two-hop RT-LoRa MAC of the server (rtlora_mac.c): the node lists of *)
(* DeviceMngt, the table of SlotScheduler, and the two threads that work   *)
(* on them.                                                                *)
(*                                                                         *)
(* The phase handler thread repeats: data collection frames (take over     *)
(* the registrations, schedule, send a CM) until a phase change is asked   *)
(* for, TWOHOP_NBO_PHASE_TRANS_PERIOD more frames, then one schedule       *)
(* distribution phase (schedule everybody anew, send the SMs).  The input  *)
(* handler thread puts the nodes of each registration request (RR) into    *)
(* RNL, one critical section per node.  The operator asks for the phase    *)
(* change at any time ("PT" on the terminal).                              *)
(*                                                                         *)
(* An action is one critical section, or one round of a loop whose lock is *)
(* held throughout.  Left out: the network initialisation phase, which the *)
(* program never enters (it starts in data collection), and DATA messages. *)
(***************************************************************************)
EXTENDS DeviceMngt

CONSTANTS nboTotSlots, nboSchGroups, NboSlotsInSch1, MaxNodesInSm, MaxRelaysInUsi,
          NboSchUpdateSd, NboSchUpdateDc,
          Demands,                          (* see SlotScheduler              *)
          PhaseTransPeriod,                 (* TWOHOP_NBO_PHASE_TRANS_PERIOD  *)
          RegistrationRequests,             (* the RRs the nodes may send     *)
          MaxRrs                            (* bound: RRs handled in a run    *)

VARIABLES RNL,                 (* registrations waiting to be taken over      *)
          NODES,               (* the nodes of the network                    *)
          SCHEDULES, phase, sch1Cnt, owed,  (* see SlotScheduler              *)
          phaseTransRequest,   (* a phase change was asked for                *)
          phaseTransCount,     (* frames left before it                       *)
          pc,                  (* where the phase handler thread is           *)
          cursor,              (* its position in NODES while it schedules    *)
          handling,            (* nodes of the current RR still to be put in  *)
                               (* RNL by the input handler thread             *)
          rrs                  (* number of RRs received, for the bound       *)

schedVars == <<SCHEDULES, phase, sch1Cnt, owed>>
inputVars == <<handling, rrs>>
vars == <<RNL, NODES, SCHEDULES, phase, sch1Cnt, owed, phaseTransRequest, phaseTransCount,
          pc, cursor, handling, rrs>>

Sched == INSTANCE SlotScheduler

\* An RR: its sender, and the nodes it registers with their classes.  A node
\* registers itself (self) or, as a relay, itself and the nodes it heard.
RegistrationRequest ==
    [src : Addr, self : BOOLEAN, nodes : Seq([addr : Addr, class : Class])]

ASSUME MacAssumption ==
    /\ RegistrationRequests \subseteq RegistrationRequest
    /\ Demands \subseteq 1 .. Uint8 - 1
    /\ PhaseTransPeriod \in Nat \ {0}
    /\ {NboSchUpdateSd, NboSchUpdateDc} \subseteq Nat
    /\ MaxRrs \in Nat
-----------------------------------------------------------------------------
Init ==
    /\ RNL = << >> /\ NODES = << >>
    /\ Sched!Init
    /\ phaseTransRequest = FALSE
    /\ phaseTransCount = PhaseTransPeriod
    /\ pc = "frame"
    /\ cursor = 0
    /\ handling = << >>
    /\ rrs = 0
-----------------------------------------------------------------------------
(* The input handler thread.                                                *)

\* The node an entry of the RR describes: the sender is a one-hop node, the
\* nodes it reports are its children.
NodeOf(rr, entry) ==
    IF rr.self \/ entry.addr = rr.src
    THEN createNewNode(entry.addr, entry.class, "Onehop", NoAddr)
    ELSE createNewNode(entry.addr, entry.class, "Twohop", rr.src)

ReceiveRr(rr) ==
    /\ handling = << >>
    /\ rrs < MaxRrs
    /\ rrs' = rrs + 1
    /\ handling' = [i \in 1 .. Len(rr.nodes) |-> NodeOf(rr, rr.nodes[i])]
    /\ UNCHANGED <<RNL, NODES, schedVars, phaseTransRequest, phaseTransCount, pc, cursor>>

RegisterNode ==
    /\ handling # << >>
    /\ RNL' = pushNode(RNL, Head(handling), FALSE)
    /\ handling' = Tail(handling)
    /\ UNCHANGED <<NODES, schedVars, phaseTransRequest, phaseTransCount, pc, cursor, rrs>>

\* The operator types "PT".
RequestPhaseTrans ==
    /\ ~ phaseTransRequest
    /\ phaseTransRequest' = TRUE
    /\ UNCHANGED <<RNL, NODES, schedVars, phaseTransCount, pc, cursor, inputVars>>
-----------------------------------------------------------------------------
(* The phase handler thread.                                                *)

\* A countdown that only runs while it has not begun.
BeginFrame_CountsOnce ==
    /\ phase = "DC" /\ pc = "frame"
    /\ phaseTransCount > 0
    /\ phaseTransCount' = IF phaseTransRequest /\ phaseTransCount = PhaseTransPeriod
                          THEN phaseTransCount - 1 ELSE phaseTransCount
    /\ pc' = "collect"
    /\ UNCHANGED <<RNL, NODES, schedVars, phaseTransRequest, cursor, inputVars>>

\* A frame loop that does not end when the countdown is over.
BeginFrame_NoEnd ==
    /\ phase = "DC" /\ pc = "frame"
    /\ phaseTransCount' = IF phaseTransRequest THEN phaseTransCount - 1 ELSE phaseTransCount
    /\ pc' = "collect"
    /\ UNCHANGED <<RNL, NODES, schedVars, phaseTransRequest, cursor, inputVars>>

BeginFrame ==
    /\ phase = "DC" /\ pc = "frame"
    /\ phaseTransCount > 0
    /\ phaseTransCount' = IF phaseTransRequest THEN phaseTransCount - 1 ELSE phaseTransCount
    /\ pc' = "collect"
    /\ UNCHANGED <<RNL, NODES, schedVars, phaseTransRequest, cursor, inputVars>>

\* A schedule distribution phase that leaves the nodes marked as scheduled.
BeginScheduleDist_KeepsFlags ==
    /\ phase = "DC" /\ pc = "frame"
    /\ phaseTransCount = 0
    /\ phaseTransRequest' = FALSE
    /\ Sched!StartSd
    /\ pc' = "schedule"
    /\ cursor' = 0
    /\ UNCHANGED <<RNL, NODES, phaseTransCount, inputVars>>

\* The countdown is over: the request is taken back and the schedule
\* distribution phase begins, with no node scheduled.
BeginScheduleDist ==
    /\ phase = "DC" /\ pc = "frame"
    /\ phaseTransCount = 0
    /\ phaseTransRequest' = FALSE
    /\ NODES' = dmSetSchFlagAll(NODES, FALSE)
    /\ Sched!StartSd
    /\ pc' = "schedule"
    /\ cursor' = 0
    /\ UNCHANGED <<RNL, phaseTransCount, inputVars>>

(* Takes the first node of RNL over into NODES: addNodeToNodeList.  The two *)
(* critical sections of the code, on RNL and on NODES, are one step: only   *)
(* this thread touches NODES.  A node that registers as a two-hop node      *)
(* loses the slots it may have had, accepted or not.                        *)
CollectNode ==
    /\ pc = "collect"
    /\ RNL # << >>
    /\ LET node == Head(RNL)
       IN  \/ /\ node.type = "Onehop"
              /\ NODES' = AddOnehopNode(NODES, node)
              /\ UNCHANGED schedVars
           \/ /\ node.type = "Twohop"
              /\ NODES' = AddTwohopNode(NODES, node)
              /\ IF Sched!IsScheduled(SCHEDULES, node.addr)
                 THEN Sched!RemoveNode(node.addr)
                 ELSE UNCHANGED schedVars
    /\ RNL' = Tail(RNL)
    /\ UNCHANGED <<phaseTransRequest, phaseTransCount, pc, cursor, inputVars>>

EndCollect ==
    /\ pc = "collect"
    /\ RNL = << >>
    /\ pc' = "schedule"
    /\ cursor' = 0
    /\ UNCHANGED <<RNL, NODES, schedVars, phaseTransRequest, phaseTransCount, inputVars>>

\* The nodes schedule() has yet to come to.
Unscheduled ==
    {i \in cursor + 1 .. Len(NODES) : NODES[i].type = "Onehop" /\ ~ NODES[i].schFlag}

\* schedule() finds the next unscheduled one-hop node.  When the node gets
\* slots it and its children count as connected.
ScheduleNext ==
    /\ pc = "schedule"
    /\ Unscheduled # {}
    /\ LET i    == Min(Unscheduled)
           node == NODES[i]
       IN  /\ Sched!ScheduleNode(node.addr, node.slotDmn)
           /\ NODES' = IF ~ Sched!IsScheduled(SCHEDULES', node.addr) THEN NODES
                       ELSE dmSetChildConnStatus(
                              [NODES EXCEPT ![i].schFlag = TRUE, ![i].isConnected = TRUE],
                              node, TRUE)
           /\ cursor' = i
    /\ UNCHANGED <<RNL, phaseTransRequest, phaseTransCount, pc, inputVars>>

EndSchedule ==
    /\ pc = "schedule"
    /\ Unscheduled = {}
    /\ pc' = "send"
    /\ UNCHANGED <<RNL, NODES, schedVars, phaseTransRequest, phaseTransCount, cursor, inputVars>>

SendCm ==
    /\ pc = "send"
    /\ Sched!SendCm
    /\ pc' = "frame"
    /\ UNCHANGED <<RNL, NODES, phaseTransRequest, phaseTransCount, cursor, inputVars>>

SendSm ==
    /\ pc = "send"
    /\ Sched!SendSm
    /\ UNCHANGED <<RNL, NODES, phaseTransRequest, phaseTransCount, pc, cursor, inputVars>>

BeginDataCollection ==
    /\ pc = "send"
    /\ Sched!StartDc
    /\ phaseTransCount' = PhaseTransPeriod
    /\ pc' = "frame"
    /\ UNCHANGED <<RNL, NODES, phaseTransRequest, cursor, inputVars>>

phaseHandlerThread ==
    \/ BeginFrame \/ BeginScheduleDist
    \/ CollectNode \/ EndCollect
    \/ ScheduleNext \/ EndSchedule
    \/ SendCm \/ SendSm \/ BeginDataCollection

inputMsgHandlerThread == RegisterNode \/ \E rr \in RegistrationRequests : ReceiveRr(rr)

Next == phaseHandlerThread \/ inputMsgHandlerThread \/ RequestPhaseTrans

Spec == Init /\ [][Next]_vars

\* The phase handler thread is never blocked for good: it waits only for
\* mutexes that are held for a bounded time and for its own frame timer.
FairSpec == Spec /\ WF_vars(phaseHandlerThread) /\ WF_vars(RegisterNode)
-----------------------------------------------------------------------------
TypeOK ==
    /\ RNL \in Seq(MngtNode) /\ NODES \in Seq(MngtNode)
    /\ phaseTransRequest \in BOOLEAN
    /\ phaseTransCount \in 0 .. PhaseTransPeriod
    /\ pc \in {"frame", "collect", "schedule", "send"}
    /\ cursor \in 0 .. Len(NODES)
    /\ handling \in Seq(MngtNode)
    /\ rrs \in 0 .. MaxRrs

Known(addr) == isNodeExisted(NODES, addr)

(* A node is one entry of NODES however often, and in whatever role, it     *)
(* registers, and although entries are taken out and put back.              *)
NodesUnique ==
    \A i, j \in 1 .. Len(NODES) : NODES[i].addr = NODES[j].addr => i = j

(* Every child listed by a node is itself in NODES: dmSetChildConnStatus    *)
(* looks the child up and writes through the result unchecked.              *)
ChildrenKnown ==
    \A i \in 1 .. Len(NODES) : \A c \in ChildAddrs(NODES[i]) : Known(c)

(* A node asks for its own slots and twice those of the children it lists,  *)
(* also after children re-registered with another class.                    *)
CoversChildren(n) ==
    n.slotDmn = (slotDemandCalculation(n.class) + 2 * Cardinality(ChildSlots(n.children))) % Uint8

DemandCoversChildren == \A i \in 1 .. Len(NODES) : CoversChildren(NODES[i])

(* When a message is sent, each schedule is that of a one-hop node marked   *)
(* as scheduled, and has the size of what the node asks for now: no slots   *)
(* are left to a node that became two-hop, and no child was added or        *)
(* dropped without the parent being scheduled again.                        *)
SchedulesCurrent ==
    pc = "send" =>
        \A g \in Sched!Groups : \A i \in 1 .. Len(Sched!Nodes(g)) :
            LET s == Sched!Nodes(g)[i]
            IN  /\ Known(s.addr)
                /\ NodeAt(NODES, s.addr).type = "Onehop"
                /\ NodeAt(NODES, s.addr).schFlag
                /\ NodeAt(NODES, s.addr).slotDmn = s.slotDemand

(* schFlag: "Indicate this node has been schedule or not.  true:            *)
(* scheduled".  A one-hop node marked as scheduled owns slots whenever a    *)
(* message is sent; otherwise schedule() passes it over, frame by frame.    *)
FlaggedNodesScheduled ==
    pc = "send" =>
        \A i \in 1 .. Len(NODES) :
            (NODES[i].type = "Onehop" /\ NODES[i].schFlag) =>
                Sched!IsScheduled(SCHEDULES, NODES[i].addr)

(* The schedule distribution phase repairs that: its messages are sent with *)
(* the marks and the table made anew for every node.                        *)
FlaggedNodesScheduledInSd ==
    (phase = "SD" /\ pc = "send") =>
        \A i \in 1 .. Len(NODES) :
            (NODES[i].type = "Onehop" /\ NODES[i].schFlag) =>
                Sched!IsScheduled(SCHEDULES, NODES[i].addr)

(* The lists of nodes and the table of schedules fit together: a node is    *)
(* one entry however it registers, every schedule sent is what its node     *)
(* asks for now, and after schedule distribution every node marked as       *)
(* scheduled has one.                                                       *)
NodesSound ==
    TypeOK /\ NodesUnique /\ SchedulesCurrent /\ FlaggedNodesScheduledInSd

(* isConnected is "true: connected", and schedule() marks a node and "all   *)
(* children as connected" when the node gets slots.  A child that its own   *)
(* parent lists and carries in its slots counts as connected, whatever      *)
(* happens to relays it was a child of before.                              *)
ServedChildrenConnected ==
    pc = "send" =>
        \A i \in 1 .. Len(NODES) :
            LET n == NODES[i]
            IN  (/\ n.type = "Twohop"
                 /\ Sched!IsScheduled(SCHEDULES, n.parrentAddr)
                 /\ n.addr \in ChildAddrs(NodeAt(NODES, n.parrentAddr)))
                => n.isConnected

(* device_mngt.c:444 "take slot demand of children into account": a relay   *)
(* asks for more slots than it is to forward for its children.              *)
ChildrenTakenIntoAccount ==
    \A i \in 1 .. Len(NODES) : \A c \in 1 .. Len(NODES[i].children) :
        NODES[i].slotDmn > 2 * NODES[i].children[c].slotDemand

(* A phase change that was asked for happens: after the countdown, or, when *)
(* asked for during schedule distribution, at the end of the next one.      *)
PhaseRequestHonoured == phaseTransRequest ~> phase = "SD"
=============================================================================
