---------------------------- MODULE SlotScheduler ----------------------------
(***************************************************************************)
(* The scheduler of the MAC: the table SCHEDULES (one list per group, a    *)
(* group is a channel) and everything rtlora_mac.c does to it.  Only the   *)
(* phase handler thread touches SCHEDULES, so every operation is one       *)
(* step.  Which node asks for how many slots, and when, is left open here: *)
(* RtLoraMac supplies the nodes and is shown to implement this module.     *)
(*                                                                         *)
(* In the schedule distribution phase ("SD") the table is cleared, every   *)
(* node is scheduled again and a fixed number of SCH1 slots each carry one *)
(* schedule message (SM).  In the data collection phase ("DC") nodes come, *)
(* change and go, and each frame starts with a command message (CM) whose  *)
(* update part (USI) announces changed schedules.                          *)
(***************************************************************************)
EXTENDS ScheduleMngt

CONSTANTS Demands,            (* the slot demands nodes may have             *)
          nboSchGroups,       (* mac_nbo_sch_groups, one per channel         *)
          NboSlotsInSch1,     (* TWOHOP_NBO_SLOTS_IN_SCH1                    *)
          MaxNodesInSm,       (* TWOHOP_MAX_NBO_NODES_IN_SM                  *)
          MaxRelaysInUsi,     (* TWOHOP_MAX_NBO_RELAYS_IN_USI                *)
          NboSchUpdateSd,     (* TWOHOP_NBO_SCH_UPDATE_SD                    *)
          NboSchUpdateDc      (* TWOHOP_NBO_SCH_UPDATE_DC                    *)

ASSUME SchedulerAssumption ==
    /\ Demands \subseteq Nat \ {0}
    /\ {nboSchGroups, NboSlotsInSch1, MaxNodesInSm, MaxRelaysInUsi,
        NboSchUpdateSd, NboSchUpdateDc} \subseteq Nat \ {0}

VARIABLES SCHEDULES,   (* the schedule list of every group                   *)
          phase,       (* "SD" or "DC"                                       *)
          sch1Cnt,     (* SCH1 slots already used in this SD phase           *)
          owed         (* history: announcements promised to a node when it  *)
                       (* was scheduled, minus those made since              *)

vars == <<SCHEDULES, phase, sch1Cnt, owed>>

Groups == 0 .. nboSchGroups - 1

Nodes(g) == SCHEDULES[g].nodes
-----------------------------------------------------------------------------
Init ==
    /\ SCHEDULES = [g \in Groups |-> smInitSchedule]
    /\ phase = "DC"
    /\ sch1Cnt = 0
    /\ owed = [a \in Addr |-> 0]

removeNodeFromSchedule(sched, addr) ==
    [g \in Groups |-> smRemoveOneNode(sched[g], addr)]

\* The group with the least assigned slots, the first of them on a tie.
getIndexOfLowestLoadSch(sched) ==
    Min({g \in Groups : \A h \in Groups : sched[g].nboAsgSlots <= sched[h].nboAsgSlots})

\* A scheduler that leaves the old schedule of the node in place.
scheduleNode_KeepsOld(sched, addr, demand, nboSchDist) ==
    LET g == getIndexOfLowestLoadSch(sched)
    IN  [sched EXCEPT ![g] = smScheduleOneNode(@, addr, demand, nboSchDist)]

\* One round of the loop in schedule(): drop the node's old schedule, then
\* try the least loaded group, and that group only.
scheduleNode(sched, addr, demand, nboSchDist) ==
    LET rest == removeNodeFromSchedule(sched, addr)
        g    == getIndexOfLowestLoadSch(rest)
    IN  [rest EXCEPT ![g] = smScheduleOneNode(@, addr, demand, nboSchDist)]

IsScheduled(sched, addr) == \E g \in Groups : IsScheduledIn(sched[g], addr)

\* What TWOHOP_NBO_SCH_UPDATE_* promises a node scheduled in this phase.
NboSchUpdate == IF phase = "SD" THEN NboSchUpdateSd ELSE NboSchUpdateDc

ScheduleNode(addr, demand) ==
    /\ phase = "SD" => sch1Cnt = 0
    /\ SCHEDULES' = scheduleNode(SCHEDULES, addr, demand, NboSchUpdate)
    /\ owed' = [owed EXCEPT ![addr] = IF IsScheduled(SCHEDULES', addr) THEN NboSchUpdate ELSE 0]
    /\ UNCHANGED <<phase, sch1Cnt>>

\* A node that becomes a two-hop node gives up its slots.
RemoveNode(addr) ==
    /\ phase = "DC"
    /\ IsScheduled(SCHEDULES, addr)
    /\ SCHEDULES' = removeNodeFromSchedule(SCHEDULES, addr)
    /\ owed' = [owed EXCEPT ![addr] = 0]
    /\ UNCHANGED <<phase, sch1Cnt>>
-----------------------------------------------------------------------------
\* The positions in a list whose node still has to be announced.
Pending(g) == {i \in 1 .. Len(Nodes(g)) : IsPending(Nodes(g)[i])}

MinOf(a, b) == IF a <= b THEN a ELSE b

GroupsToDistribute == {g \in Groups : SCHEDULES[g].nboDistReq > 0}

\* The group an SM is about.
SmGroup == Min(GroupsToDistribute)

\* An SM that starts at the head of the list.
SmWalk_FromHead(g) == 1 .. MinOf(SCHEDULES[g].nboDistReq, MaxNodesInSm)

(* The positions an SM walks over: it starts at the first node that is to   *)
(* be announced and takes as many consecutive nodes as the counter says,    *)
(* whether they are to be announced or not, and without looking for the     *)
(* end of the list.                                                         *)
SmWalk(g) ==
    LET first == Min(Pending(g))
    IN  IF Pending(g) = {} THEN {}
        ELSE first .. first + MinOf(SCHEDULES[g].nboDistReq, MaxNodesInSm) - 1

\* The nodes at positions S(g) of the groups have been put in a message.
Announce(S) ==
    /\ SCHEDULES' = [g \in Groups |-> smNodesDistributed(SCHEDULES[g], S[g])]
    /\ owed' = [a \in Addr |->
                  IF \E g \in Groups : \E i \in S[g] : Nodes(g)[i].addr = a
                  THEN owed[a] - 1 ELSE owed[a]]

SendSm ==
    /\ phase = "SD"
    /\ sch1Cnt < NboSlotsInSch1
    /\ IF GroupsToDistribute = {}
       THEN UNCHANGED <<SCHEDULES, owed>>
       ELSE Announce([g \in Groups |->
                        IF g = SmGroup THEN SmWalk(g) \cap (1 .. Len(Nodes(g))) ELSE {}])
    /\ sch1Cnt' = sch1Cnt + 1
    /\ UNCHANGED phase

\* Number of nodes an update part has room for and the groups ask for.
UsiSize == MinOf(MaxRelaysInUsi,
                 FoldFunction(LAMBDA list, sum : list.nboDistReq + sum, 0, SCHEDULES))

\* The number of pending nodes the walk over groups and lists meets before
\* position i of group g.
PendingBefore(g, i) ==
    Cardinality({p \in UNION {{h} \X Pending(h) : h \in 0 .. g} : p[1] < g \/ p[2] < i})

\* An update part that takes every pending node of the first group only.
UsiWalk_FirstGroup(g) ==
    {i \in Pending(g) : g = 0 /\ PendingBefore(g, i) < UsiSize}

\* The positions of group g a USI announces: pending nodes, in the order of
\* the groups and of their lists, until the announced number is reached.
UsiWalk(g) == {i \in Pending(g) : PendingBefore(g, i) < UsiSize}

SendCm ==
    /\ phase = "DC"
    /\ Announce([g \in Groups |-> UsiWalk(g)])
    /\ UNCHANGED <<phase, sch1Cnt>>
-----------------------------------------------------------------------------
\* A new SD phase that forgets to clear the old table.
StartSd_NoClear ==
    /\ phase = "DC"
    /\ phase' = "SD"
    /\ sch1Cnt' = 0
    /\ owed' = [a \in Addr |-> 0]
    /\ UNCHANGED SCHEDULES

\* The end of the data collection phase and the start of the next schedule
\* distribution phase, which begins with clearSchedule().
StartSd ==
    /\ phase = "DC"
    /\ phase' = "SD"
    /\ sch1Cnt' = 0
    /\ SCHEDULES' = [g \in Groups |-> smInitSchedule]
    /\ owed' = [a \in Addr |-> 0]

StartDc ==
    /\ phase = "SD"
    /\ sch1Cnt = NboSlotsInSch1
    /\ phase' = "DC"
    /\ UNCHANGED <<SCHEDULES, sch1Cnt, owed>>

Next ==
    \/ \E a \in Addr, d \in Demands : ScheduleNode(a, d)
    \/ \E a \in Addr : RemoveNode(a)
    \/ SendSm
    \/ SendCm
    \/ StartSd
    \/ StartDc

Spec == Init /\ [][Next]_vars

\* Nothing tells one node from another.
Symmetry == Permutations(Addr)
-----------------------------------------------------------------------------
TypeOK ==
    /\ SCHEDULES \in [Groups -> SchList]
    /\ phase \in {"SD", "DC"}
    /\ sch1Cnt \in 0 .. NboSlotsInSch1
    /\ owed \in [Addr -> Int]

(* No collision: the slots of two nodes of one group never overlap, and the *)
(* list stays in ascending order (smAssignLsiToNode finds its holes only in *)
(* an ascending list), through every insertion, removal and clearing.       *)
SlotsDisjoint ==
    \A g \in Groups : \A i, j \in 1 .. Len(Nodes(g)) :
        i < j => LastLsi(Nodes(g)[i]) < Nodes(g)[j].startLSI

(* Every assigned slot is a slot of the frame: smAssignLsiToNode hands out  *)
(* slots only "if the number of free slots in this group is enough to       *)
(* schedule the node".                                                      *)
SlotsInFrame ==
    \A g \in Groups : \A i \in 1 .. Len(Nodes(g)) : LastLsi(Nodes(g)[i]) <= nboTotSlots

(* A node owns slots in at most one group, and once: schedule() takes the   *)
(* old slots back before it gives new ones.                                 *)
ScheduledOnce ==
    \A g, h \in Groups : \A i \in 1 .. Len(Nodes(g)), j \in 1 .. Len(Nodes(h)) :
        Nodes(g)[i].addr = Nodes(h)[j].addr => g = h /\ i = j

(* The two counters by which groups are chosen and messages are sized agree *)
(* with the list: the load is the number of slots of the frame that some    *)
(* node owns and nboDistReq the number of nodes still to be announced.      *)
CountersExact ==
    \A g \in Groups :
        /\ SCHEDULES[g].nboDistReq = Cardinality(Pending(g))
        /\ SCHEDULES[g].nboAsgSlots = Cardinality(OwnedSlots(Nodes(g)))

(* The walk of the schedule message, which looks neither at the end of the  *)
(* list nor at nboSchDist, stays inside the list and meets only nodes that  *)
(* are still to be announced: in the SD phase these are always the last     *)
(* ones of the list.                                                        *)
SmWalkMeetsPendingNodes ==
    (phase = "SD" /\ GroupsToDistribute # {}) =>
        SmWalk(SmGroup) # {} /\ SmWalk(SmGroup) \subseteq Pending(SmGroup)

(* nboSchDist: "the schedule for this node must be distributed x times      *)
(* more".  Whatever mixture of SMs and CMs announced the node, the counter  *)
(* is what was promised when it was scheduled minus what was sent since.    *)
DistributionOwed ==
    \A g \in Groups : \A i \in 1 .. Len(Nodes(g)) :
        Nodes(g)[i].nboSchDist = owed[Nodes(g)[i].addr]

\* A run of `demand' slots from lsi on that nobody owns.
FreeAt(g, lsi, demand) ==
    /\ lsi + demand - 1 <= nboTotSlots
    /\ \A i \in 1 .. Len(Nodes(g)) :
          \/ LastLsi(Nodes(g)[i]) < lsi
          \/ Nodes(g)[i].startLSI > lsi + demand - 1

(* The walk of smAssignLsiToNode over the holes of the list computes first  *)
(* fit: the lowest run of free slots, and 0 only when the group has none.   *)
AssignIsFirstFit ==
    \A g \in Groups, d \in Demands :
        LET free == {lsi \in 1 .. nboTotSlots : FreeAt(g, lsi, d)}
        IN  smAssignLsiToNode(Nodes(g), d) = IF free = {} THEN 0 ELSE Min(free)

(* The table of schedules is sound: no slot lies outside the frame, the     *)
(* counters that size the messages agree with the lists, no message reads   *)
(* beyond a list or announces a node less often than promised, and a node   *)
(* is turned away only when no run of free slots is long enough.            *)
SchedulesSound ==
    /\ TypeOK /\ SlotsInFrame /\ CountersExact /\ AssignIsFirstFit
    /\ SmWalkMeetsPendingNodes /\ DistributionOwed

(* A node keeps its slots for as long as it is scheduled: messages and      *)
(* other nodes coming and going never move it, only scheduling the node     *)
(* itself again or a new SD phase may (the node was told its slots and      *)
(* keeps using them).                                                       *)
KeepsSlots ==
    \A g \in Groups : \A i \in 1 .. Len(Nodes(g)) :
      LET n == Nodes(g)[i]
      IN  \/ StartSd
          \/ \E d \in Demands : ScheduleNode(n.addr, d)
          \/ RemoveNode(n.addr)
          \/ \E j \in 1 .. Len(Nodes(g)') :
                /\ Nodes(g)'[j].addr = n.addr
                /\ Nodes(g)'[j].startLSI = n.startLSI
                /\ Nodes(g)'[j].slotDemand = n.slotDemand

SlotsKept == [][KeepsSlots]_vars

IsPendingNode(a) ==
    \E g \in Groups : \E i \in Pending(g) : Nodes(g)[i].addr = a

(* Every schedule is announced as often as promised in the end, also the    *)
(* ones that found no place in the SCH1 slots of their SD phase and those   *)
(* behind the first fifteen of a USI, once nodes stop being scheduled anew  *)
(* (each new schedule starts the count again).                              *)
EveryScheduleIsAnnounced ==
    <>[][\A a \in Addr, d \in Demands : ~ ScheduleNode(a, d)]_vars =>
        \A a \in Addr : IsPendingNode(a) ~> ~ IsPendingNode(a)
=============================================================================
