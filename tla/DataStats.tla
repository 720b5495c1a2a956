------------------------------- MODULE DataStats -------------------------------
(***************************************************************************)
(* The statistics of uplink data of the MAC (device_mngt.c): the input     *)
(* thread counts the frames of each node and of each link under mutexNODES *)
(* (dmNodeUpdateDataInfo), the phase thread counts at each frame period    *)
(* the nodes that sent nothing, without that lock (dmCheckDataMissed), and *)
(* the list is printed with the share of frames that arrived.              *)
(*                                                                         *)
(* A node numbers its frames from 1 on and starts anew after a restart.  A *)
(* frame may arrive directly, through a relay, both ways or not at all; a  *)
(* second gateway delivers it a second time.  The list itself (DeviceMngt) *)
(* is a map here, as the order of the nodes does not matter.               *)
(***************************************************************************)
EXTENDS Integers, FiniteSets

CONSTANTS
    Node,           (* addresses                                            *)
    Types,          (* the types each node may register with                *)
    Limit,          (* TWOHOP_MAX_MISS_DATA_ALLOWED                         *)
    Wrap,           (* values of the uint16_t sequence number: 65536        *)
    Gateways,       (* gateways that hear a node                            *)
    MaxSent,        (* bound: frames of a node                              *)
    MaxRestarts,    (* bound: restarts of nodes                             *)
    MaxRegs         (* bound: registrations                                 *)

StatsAssumption ==
    /\ Types \in [Node -> SUBSET {"Onehop", "Twohop"}]
    /\ {Limit, Wrap, Gateways, MaxSent, MaxRegs} \subseteq Nat \ {0} /\ MaxRestarts \in Nat

Link == {"direct", "relay"}

VARIABLES
    nodes,      (* the entries of NODES, by address                         *)
    todo,       (* nodes the phase thread has still to check                *)
    at,         (* the node it is at and what it read there                 *)
    seq, frames, heard,   (* of each node: its last number, the frames it   *)
                (* sent, how often that frame arrived over each link        *)
    total,      (* of each node: the frames that arrived                    *)
    restarts, regs,
    missed, fresh   (* of each node: periods without data since the last    *)
                (* data, and whether data came since the last check         *)

env == <<seq, frames, heard, restarts>>
vars == <<nodes, todo, at, env, total, regs, missed, fresh>>

NotListed == [listed |-> FALSE, type |-> "Onehop", isConnected |-> FALSE, dataCount |-> 0,
              dataCountMainLink |-> 0, dataCountDirectLink |-> 0, latestSeqNo |-> 0,
              prevSeqNo |-> 0, dataMissCount |-> 0]

Nobody == [node |-> "none", stage |-> "idle", count |-> 0]

Init ==
    /\ nodes = [a \in Node |-> NotListed] /\ todo = {} /\ at = Nobody
    /\ seq = [a \in Node |-> 0] /\ frames = [a \in Node |-> 0]
    /\ heard = [a \in Node |-> [l \in Link |-> 0]]
    /\ total = [a \in Node |-> 0] /\ restarts = [a \in Node |-> 0] /\ regs = 0
    /\ missed = [a \in Node |-> 0] /\ fresh = [a \in Node |-> FALSE]

-----------------------------------------------------------------------------
\* dmNodeUpdateDataInfo

\* mutant: the total is kept when a node starts anew
Numbered_KeepsTotal(n, s) ==
    IF s = n.latestSeqNo THEN n ELSE [n EXCEPT !.dataCount = @ + 1, !.latestSeqNo = s, !.dataMissCount = 0]

\* mutant: every copy is counted
Numbered_Copies(n, s) ==
    IF n.latestSeqNo <= s
    THEN [n EXCEPT !.dataCount = @ + 1, !.latestSeqNo = s, !.dataMissCount = 0]
    ELSE [n EXCEPT !.dataCount = 1, !.dataCountMainLink = 0, !.dataCountDirectLink = 0,
                   !.latestSeqNo = s, !.dataMissCount = 0, !.prevSeqNo = (s - 1) % Wrap]

\* A larger number is counted, a smaller one starts the statistics anew, the
\* same one is a copy
Numbered(n, s) ==
    CASE n.latestSeqNo < s ->
            [n EXCEPT !.dataCount = @ + 1, !.latestSeqNo = s, !.dataMissCount = 0]
      [] n.latestSeqNo > s ->
            [n EXCEPT !.dataCount = 1, !.dataCountMainLink = 0, !.dataCountDirectLink = 0,
                      !.latestSeqNo = s, !.dataMissCount = 0, !.prevSeqNo = (s - 1) % Wrap]
      [] n.latestSeqNo = s -> n

\* mutant: what a relay forwards for a one-hop node is counted as direct
OfLink_Any(n, relay) ==
    IF n.type = "Onehop" \/ relay
    THEN [n EXCEPT !.dataCountMainLink = @ + 1, !.dataCountDirectLink = @ + 1]
    ELSE [n EXCEPT !.dataCountDirectLink = @ + 1]

\* The main link of a one-hop node is the direct one, that of a two-hop node
\* the one through its parent; copies are counted, too
OfLink(n, relay) ==
    [n EXCEPT
        !.dataCountMainLink = IF relay = (n.type = "Twohop") THEN @ + 1 ELSE @,
        !.dataCountDirectLink = IF relay THEN @ ELSE @ + 1]

dmNodeUpdateDataInfo(a, relay) ==
    nodes' = [nodes EXCEPT ![a] = IF @.listed THEN OfLink(Numbered(@, seq[a]), relay) ELSE @]

\* A data frame arrives; those of unknown nodes are dropped
ReceiveData(a, l) ==
    /\ frames[a] > 0 /\ heard[a][l] < Gateways
    /\ heard' = [heard EXCEPT ![a][l] = IF nodes[a].listed THEN @ + 1 ELSE @]
    /\ dmNodeUpdateDataInfo(a, l = "relay")
    /\ LET new == nodes[a].listed /\ \A k \in Link : heard[a][k] = 0
       IN  /\ total' = [total EXCEPT ![a] = IF new THEN @ + 1 ELSE @]
           /\ fresh' = [fresh EXCEPT ![a] = @ \/ new]
           /\ missed' = [missed EXCEPT ![a] = IF new THEN 0 ELSE @]
    /\ UNCHANGED <<todo, at, seq, frames, restarts, regs>>

\* A node sends its next frame; what is still on its way of the old one is lost
SendData(a) ==
    /\ frames[a] < MaxSent
    /\ frames' = [frames EXCEPT ![a] = @ + 1]
    /\ seq' = [seq EXCEPT ![a] = (@ + 1) % Wrap]
    /\ heard' = [heard EXCEPT ![a] = [l \in Link |-> 0]]
    /\ UNCHANGED <<nodes, todo, at, total, restarts, regs, missed, fresh>>

\* A node restarts and counts from the beginning
Restart(a) ==
    /\ restarts[a] < MaxRestarts /\ frames[a] < MaxSent
    /\ restarts' = [restarts EXCEPT ![a] = @ + 1]
    /\ frames' = [frames EXCEPT ![a] = @ + 1]
    /\ seq' = [seq EXCEPT ![a] = 1]
    /\ heard' = [heard EXCEPT ![a] = [l \in Link |-> 0]]
    /\ UNCHANGED <<nodes, todo, at, total, regs, missed, fresh>>

-----------------------------------------------------------------------------
\* dmCheckDataMissed, at the start of each frame period; the input thread may
\* come between any two of the steps at a node
CheckBegin ==
    /\ at = Nobody /\ todo = {}
    /\ todo' = {a \in Node : nodes[a].listed /\ nodes[a].isConnected} /\ todo' # {}
    /\ UNCHANGED <<nodes, at, env, total, regs, missed, fresh>>

\* The numbers are compared and the count is read
CheckRead(a) ==
    /\ at = Nobody /\ a \in todo
    /\ at' = IF nodes[a].prevSeqNo = nodes[a].latestSeqNo
             THEN [node |-> a, stage |-> "count", count |-> nodes[a].dataMissCount]
             ELSE [node |-> a, stage |-> "prev", count |-> 0]
    /\ missed' = [missed EXCEPT ![a] = IF fresh[a] THEN 0 ELSE IF @ > Limit THEN @ ELSE @ + 1]
    /\ fresh' = [fresh EXCEPT ![a] = FALSE]
    /\ UNCHANGED <<nodes, todo, env, total, regs>>

\* mutant: the limit is counted beyond
Counted_Beyond(c) == IF c <= Limit THEN c + 1 ELSE 0

\* The else belongs to the inner condition: the count restarts at its limit
Counted(c) == IF c < Limit THEN c + 1 ELSE 0

CheckCount ==
    /\ at.stage = "count"
    /\ nodes' = [nodes EXCEPT ![at.node].dataMissCount = Counted(at.count)]
    /\ at' = [at EXCEPT !.stage = "prev"]
    /\ UNCHANGED <<todo, env, total, regs, missed, fresh>>

\* mutant: the number of this period is not kept
CheckPrev_Not ==
    /\ at.stage = "prev" /\ todo' = todo \ {at.node} /\ at' = Nobody
    /\ UNCHANGED <<nodes, env, total, regs, missed, fresh>>

CheckPrev ==
    /\ at.stage = "prev"
    /\ nodes' = [nodes EXCEPT ![at.node].prevSeqNo = nodes[at.node].latestSeqNo]
    /\ todo' = todo \ {at.node} /\ at' = Nobody
    /\ UNCHANGED <<env, total, regs, missed, fresh>>

-----------------------------------------------------------------------------
\* The phase thread takes a registration over: a new entry, or new general
\* information and the old statistics (dmNodeUpdateGenInfo)
Register(a, t) ==
    /\ at = Nobody /\ todo = {} /\ regs < MaxRegs /\ regs' = regs + 1
    /\ nodes' = [nodes EXCEPT ![a] =
           IF @.listed THEN [@ EXCEPT !.type = t, !.isConnected = FALSE]
           ELSE [NotListed EXCEPT !.listed = TRUE, !.type = t]]
    /\ UNCHANGED <<todo, at, env, total, missed, fresh>>

\* The node is scheduled
Connect(a) ==
    /\ at = Nobody /\ todo = {} /\ nodes[a].listed /\ ~nodes[a].isConnected
    /\ nodes' = [nodes EXCEPT ![a].isConnected = TRUE]
    /\ UNCHANGED <<todo, at, env, total, regs, missed, fresh>>

\* printNodeList: the shares of the frames up to the last one, in percent, of
\* all frames, of those of the direct and of those of the main link
Share(n, count) == IF n.latestSeqNo = 0 THEN 0 ELSE (100 * count) \div n.latestSeqNo

printNodeList ==
    {[addr |-> a, type |-> nodes[a].type, missed |-> nodes[a].dataMissCount,
      PDR |-> Share(nodes[a], nodes[a].dataCount),
      PDRDirectLink |-> Share(nodes[a], nodes[a].dataCountDirectLink),
      PDRMainLink |-> Share(nodes[a], nodes[a].dataCountMainLink)] : a \in {b \in Node : nodes[b].listed}}

-----------------------------------------------------------------------------
CheckMissed == CheckBegin \/ CheckCount \/ CheckPrev \/ \E a \in Node : CheckRead(a)

Next ==
    \/ CheckMissed
    \/ \E a \in Node :
          \/ SendData(a) \/ Restart(a) \/ Connect(a)
          \/ \E l \in Link : ReceiveData(a, l)
          \/ \E t \in Types[a] : Register(a, t)

Spec == Init /\ [][Next]_vars
\* The phase thread checks every frame period and schedules who is waiting
FairSpec == Spec /\ WF_vars(CheckMissed) /\ \A a \in Node : WF_vars(Connect(a))

-----------------------------------------------------------------------------
TypeOK ==
    /\ \A a \in Node :
          /\ nodes[a].type \in Types[a] \cup {"Onehop"}
          /\ nodes[a].dataMissCount \in 0 .. Limit
          /\ {nodes[a].latestSeqNo, nodes[a].prevSeqNo, seq[a]} \subseteq 0 .. Wrap - 1
    /\ todo \subseteq Node /\ at.stage \in {"idle", "count", "prev"}

\* The printed shares never exceed 100 percent as long as numbers do not wrap
\* and one gateway hears each node, whatever frames are lost or arrive on two
\* ways; that of all frames also when the node was restarted.
SharesAtMost100 ==
    \A n \in printNodeList :
        /\ n.PDR <= 100
        /\ restarts[n.addr] = 0 => n.PDRMainLink <= 100 /\ n.PDRDirectLink <= 100

\* device_mngt.h:67 "Total data count": the frames of a node that never
\* restarted are all counted, and once each, by whichever way they came first.
TotalCounted == \A a \in Node : restarts[a] = 0 => nodes[a].dataCount = total[a]

\* A frame that arrived is counted for some link of a two-hop node, and no link
\* counts more frames than arrived unless the node was restarted: its frame 1
\* may then pass for a copy of the old one.
LinksCounted ==
    \A a \in Node : LET n == nodes[a] IN
        /\ restarts[a] = 0 => n.dataCountMainLink <= n.dataCount /\ n.dataCountDirectLink <= n.dataCount
        /\ n.listed /\ n.type = "Twohop" => n.dataCount <= n.dataCountMainLink + n.dataCountDirectLink

\* A connected node that stays silent is seen to have missed as many periods as
\* are counted at most, again and again.
SilenceIsSeen ==
    \A a \in Node :
        <>[](nodes[a].listed /\ nodes[a].isConnected) => []<>(nodes[a].dataMissCount = Limit)

\* device_mngt.c:310 "Receive duplicate data, do nothing".
CopyDoesNothing ==
    [][\A a \in Node, l \in Link :
          (nodes[a].listed /\ heard[a][l] > 0 /\ nodes[a].latestSeqNo = seq[a] /\ ReceiveData(a, l))
             => nodes'[a] = nodes[a]]_vars

\* device_mngt.h:65 "Count the number of consecutive frame periods that data is
\* missed": a further period without data does not lower the count.
SilenceOnlyRaises ==
    [][\A a \in Node : nodes'[a].dataMissCount < nodes[a].dataMissCount => missed'[a] = 0]_vars

\* device_mngt.h:65, the same count: it is never more than the periods without
\* data.
MissedAtMost == \A a \in Node : at = Nobody => nodes[a].dataMissCount <= missed[a]
=============================================================================
