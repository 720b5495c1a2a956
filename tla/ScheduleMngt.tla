---------------------------- MODULE ScheduleMngt ----------------------------
(***************************************************************************)
(* The schedule list of one scheduling group: the SchList_t of             *)
(* schedule_mngt.c and the operations on it.  A list holds the one-hop     *)
(* nodes that own slots in one uplink frame of nboTotSlots slots, in       *)
(* ascending order of their first slot (startLSI).  The operators are      *)
(* functions from a list to a list, which SlotScheduler uses.              *)
(*                                                                         *)
(* Left out: the node's class (only copied into messages) and the fields   *)
(* nboNode and nboRmnSlots, which the program writes and never reads.      *)
(***************************************************************************)
EXTENDS Integers, Sequences, FiniteSets, SequencesExt

CONSTANTS Addr,          (* the addresses of the end nodes                 *)
          nboTotSlots    (* slots of one uplink frame, 2^mac_frame_factor  *)

ASSUME TotSlotsAssumption == nboTotSlots \in Nat \ {0}
-----------------------------------------------------------------------------
SchNode == [addr : Addr, startLSI : Nat \ {0}, slotDemand : Nat, nboSchDist : Nat]

SchList == [nodes : Seq(SchNode), nboAsgSlots : Int, nboDistReq : Int]

smInitSchedule == [nodes |-> << >>, nboAsgSlots |-> 0, nboDistReq |-> 0]

\* The last slot a node of a schedule owns.
LastLsi(node) == node.startLSI + node.slotDemand - 1

\* The slots of the frame that the nodes of a list own.
OwnedSlots(nodes) ==
    UNION {nodes[i].startLSI .. LastLsi(nodes[i]) : i \in 1 .. Len(nodes)}

(* The positions of a list after which `demand' slots are free.  Behind     *)
(* the last node the code subtracts unsigned integers: when that node ends  *)
(* beyond the frame the difference wraps and every demand "fits".           *)
GapsAfter(nodes, demand) ==
    {i \in 1 .. Len(nodes) :
        IF i = Len(nodes)
        THEN \/ LastLsi(nodes[i]) > nboTotSlots
             \/ nboTotSlots - LastLsi(nodes[i]) >= demand
        ELSE nodes[i + 1].startLSI - LastLsi(nodes[i]) > demand}

\* An allocator that forgets that a gap of exactly the wanted size ends
\* before the next node's first slot.
smAssignLsiToNode_GapOffByOne(nodes, demand) ==
    LET gaps == {i \in 1 .. Len(nodes) :
                   IF i = Len(nodes)
                   THEN nboTotSlots - LastLsi(nodes[i]) >= demand
                   ELSE nodes[i + 1].startLSI - LastLsi(nodes[i]) >= demand}
    IN  IF nodes = << >> \/ nodes[1].startLSI > demand THEN 1
        ELSE IF gaps = {} THEN 0 ELSE LastLsi(nodes[Min(gaps)]) + 1

\* An allocator that only appends and never reuses a hole.
smAssignLsiToNode_AppendOnly(nodes, demand) ==
    IF nodes = << >> THEN 1
    ELSE IF LastLsi(Last(nodes)) + demand > nboTotSlots THEN 0
         ELSE LastLsi(Last(nodes)) + 1

\* An allocator that forgets the frame's length.
smAssignLsiToNode_NoCapacity(nodes, demand) ==
    IF nodes = << >> THEN 1 ELSE LastLsi(Last(nodes)) + 1

\* The first slot given to a new node: the first hole that is large enough,
\* 0 when there is none.  An empty list takes any demand.
smAssignLsiToNode(nodes, demand) ==
    LET gaps == GapsAfter(nodes, demand)
    IN  IF nodes = << >> \/ nodes[1].startLSI > demand THEN 1
        ELSE IF gaps = {} THEN 0
        ELSE LastLsi(nodes[Min(gaps)]) + 1

\* Where a node that starts at slot lsi belongs in the ascending list.
InsertPosition(nodes, lsi) ==
    LET later == {i \in 1 .. Len(nodes) : nodes[i].startLSI > lsi}
    IN  IF later = {} THEN Len(nodes) + 1 ELSE Min(later)

smAddNodeToScheduleList(list, node) ==
    [nodes       |-> InsertAt(list.nodes, InsertPosition(list.nodes, node.startLSI), node),
     nboAsgSlots |-> list.nboAsgSlots + node.slotDemand,
     nboDistReq  |-> list.nboDistReq + 1]

\* Whether the list has room for the demand; smScheduleOneNode fails otherwise.
CanSchedule(list, demand) == smAssignLsiToNode(list.nodes, demand) # 0

\* A scheduler that does not look at the failure value of the allocator.
smScheduleOneNode_IgnoresFailure(list, addr, demand, nboSchDist) ==
    smAddNodeToScheduleList(list,
        [addr       |-> addr,
         startLSI   |-> smAssignLsiToNode(list.nodes, demand),
         slotDemand |-> demand,
         nboSchDist |-> nboSchDist])

smScheduleOneNode(list, addr, demand, nboSchDist) ==
    IF CanSchedule(list, demand)
    THEN smAddNodeToScheduleList(list,
            [addr       |-> addr,
             startLSI   |-> smAssignLsiToNode(list.nodes, demand),
             slotDemand |-> demand,
             nboSchDist |-> nboSchDist])
    ELSE list

IsScheduledIn(list, addr) == \E i \in 1 .. Len(list.nodes) : list.nodes[i].addr = addr

PositionOf(list, addr) == Min({i \in 1 .. Len(list.nodes) : list.nodes[i].addr = addr})

\* A removal that forgets the counter of pending distributions.
smRemoveOneNode_KeepsDistReq(list, addr) ==
    IF ~ IsScheduledIn(list, addr) THEN list
    ELSE LET pos == PositionOf(list, addr)
         IN  [list EXCEPT !.nodes = RemoveAt(list.nodes, pos),
                          !.nboAsgSlots = @ - list.nodes[pos].slotDemand]

\* A removal that always unlinks the head of the list.
smRemoveOneNode_DropsHead(list, addr) ==
    IF ~ IsScheduledIn(list, addr) THEN list
    ELSE LET node == Head(list.nodes)
         IN  [nodes       |-> Tail(list.nodes),
              nboAsgSlots |-> list.nboAsgSlots - node.slotDemand,
              nboDistReq  |-> IF node.nboSchDist > 0 THEN list.nboDistReq - 1
                                                     ELSE list.nboDistReq]

smRemoveOneNode(list, addr) ==
    IF ~ IsScheduledIn(list, addr) THEN list
    ELSE LET pos  == PositionOf(list, addr)
             node == list.nodes[pos]
         IN  [nodes       |-> RemoveAt(list.nodes, pos),
              nboAsgSlots |-> list.nboAsgSlots - node.slotDemand,
              nboDistReq  |-> IF node.nboSchDist > 0 THEN list.nboDistReq - 1
                                                     ELSE list.nboDistReq]

IsPending(node) == node.nboSchDist > 0

(* smNodeSetNboSchDist for every node at the positions S, which a message   *)
(* has just announced: one distribution less for each, and the list's       *)
(* counter drops for those that reach zero.                                 *)
smNodesDistributed(list, S) ==
    [list EXCEPT
        !.nodes = [i \in 1 .. Len(list.nodes) |->
                     IF i \in S /\ IsPending(list.nodes[i])
                     THEN [list.nodes[i] EXCEPT !.nboSchDist = @ - 1]
                     ELSE list.nodes[i]],
        !.nboDistReq = @ - Cardinality({i \in S : list.nodes[i].nboSchDist = 1})]
=============================================================================
