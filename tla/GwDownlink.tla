----------------------------- MODULE GwDownlink ------------------------------
(***************************************************************************)
(* The downlink of the gateway, rtlora_gw.c: thread_down takes datagrams   *)
(* from the server and queues their packets, thread_jit sends each packet  *)
(* when its time has come.  They share the just-in-time queue under        *)
(* mx_jit_queue; thread_jit shares the concentrator under mx_concent.      *)
(* An action is one critical section.  The clock may tick between any two  *)
(* of them, and while thread_jit scans the queue with the mutex held.      *)
(*                                                                         *)
(* The server sends every packet as "immediate" (lora_network_server.c     *)
(* 776-781), so the concentrator emits it as soon as it is handed over.    *)
(***************************************************************************)
EXTENDS JitQueue, FiniteSets

CONSTANTS TxTimes, AirTimes,    (* of the server's packets                    *)
          NoPkt,
          Horizon,              (* bound: the clock stops there               *)
          SleepTicks,           (* the usleep of thread_jit                   *)
          Pace,                 (* when the clock may tick, see Tick          *)
          CanFail               (* lgw_status and lgw_send may report errors  *)

ASSUME DownlinkAssumption ==
    /\ TxTimes \subseteq Time /\ AirTimes \subseteq Nat
    /\ NoPkt \notin Pkts
    /\ Horizon \in Nat /\ SleepTicks \in Nat
    /\ Pace \in {"timely", "bursty", "free"} /\ CanFail \in BOOLEAN

VARIABLES now,                (* gettimeofday                                *)
          nodes,              (* jit_queue                                   *)
          downPc, new,        (* thread_down and the packet it works on      *)
          jitPc, i, hand,     (* thread_jit, its loop index and its packet   *)
          rest,               (* ticks until thread_jit must go on           *)
          emitting, until,    (* the packet on the air and when it ends      *)
          exit_sig,
          fate,               (* history: what became of each packet         *)
          beside, known       (* history: the packets that were queued when  *)
                              (* the packet in hand, and the one on the air, *)
                              (* was taken out                               *)

downVars == <<downPc, new>>
jitVars == <<jitPc, i, hand, rest, beside>>
radioVars == <<emitting, until, known>>
vars == <<now, nodes, downPc, new, jitPc, i, hand, rest, emitting, until,
          exit_sig, fate, beside, known>>

NoNode == [pkt |-> NoPkt, tx |-> 0, post |-> 0]

Fates == {"unseen", "rejected", "queued", "taken", "sent",
          "outdated", "radioBusy", "sendFailed"}

Queued == {nodes[k].pkt : k \in 1 .. Len(nodes)}
-----------------------------------------------------------------------------
Init ==
    /\ now = 0
    /\ nodes = jit_queue_init
    /\ downPc = "recv" /\ new = NoNode
    /\ jitPc = "peek" /\ i = 0 /\ hand = NoNode /\ rest = 1
    /\ emitting = NoPkt /\ until = 0
    /\ exit_sig = FALSE
    /\ fate = [p \in Pkts |-> "unseen"]
    /\ beside = {} /\ known = {}

\* thread_jit holds mx_jit_queue over its whole scan.
QueueLocked == jitPc = "scan"

\* On a timely host thread_jit works in no time and comes back to the head of
\* its loop with every tick; on a bursty one it may be kept from its loop for
\* long, but works in no time once it runs; else anything is possible.
Tick ==
    /\ now < Horizon
    /\ Pace = "timely" => rest > 0
    /\ Pace = "bursty" => jitPc \in {"peek", "sleep"}
    /\ now' = now + 1
    /\ rest' = IF rest > 0 THEN rest - 1 ELSE 0
    /\ UNCHANGED <<nodes, downVars, jitPc, i, hand, beside, radioVars, exit_sig, fate>>
-----------------------------------------------------------------------------
(* thread_down.                                                             *)

\* A downlink datagram whose fields and transmit power are all right; others
\* (no JSON, a mandatory field missing, FSK, a power that is not in the table)
\* change nothing that is modelled.
RecvDownlink ==
    /\ downPc = "recv" /\ ~ exit_sig
    /\ \E p \in Pkts, tx \in TxTimes, post \in AirTimes :
         /\ fate[p] = "unseen"
         /\ new' = [pkt |-> p, tx |-> tx, post |-> post]
    /\ downPc' = "full"
    /\ UNCHANGED <<now, nodes, jitVars, radioVars, exit_sig, fate>>

\* recv returned 0: the server is gone, the program ends.
RecvClosed ==
    /\ downPc = "recv" /\ ~ exit_sig
    /\ exit_sig' = TRUE
    /\ UNCHANGED <<now, nodes, downVars, jitVars, radioVars, fate>>

Reject ==
    /\ fate' = [fate EXCEPT ![new.pkt] = "rejected"]
    /\ downPc' = "recv" /\ new' = NoNode

\* The first critical section of jit_enqueue.
EnqueueTestFull ==
    /\ downPc = "full" /\ ~ QueueLocked
    /\ IF jit_queue_is_full(nodes)
       THEN Reject
       ELSE downPc' = "insert" /\ UNCHANGED <<new, fate>>
    /\ UNCHANGED <<now, nodes, jitVars, radioVars, exit_sig>>

\* The second one.  The caller only prints the answer.
EnqueueInsert ==
    /\ downPc = "insert" /\ ~ QueueLocked
    /\ IF EnqueueResult(nodes, now, new) = "JIT_ERROR_OK"
       THEN /\ nodes' \in Enqueued(nodes, new)
            /\ fate' = [fate EXCEPT ![new.pkt] = "queued"]
            /\ downPc' = "recv" /\ new' = NoNode
       ELSE Reject /\ UNCHANGED nodes
    /\ UNCHANGED <<now, jitVars, radioVars, exit_sig>>
-----------------------------------------------------------------------------
(* thread_jit.                                                              *)

\* Back to the head of the loop; at most one tick later it is there.
NextRound == jitPc' = "peek" /\ rest' = 1 /\ i' = 0

\* jit_peek: the empty test, and the lock taken for the scan.  (The test is a
\* critical section of its own, but only this thread takes packets out.)
PeekStart ==
    /\ jitPc = "peek" /\ ~ exit_sig
    /\ IF jit_queue_is_empty(nodes)
       THEN jitPc' = "sleep" /\ rest' = SleepTicks /\ UNCHANGED i
       ELSE jitPc' = "scan" /\ rest' = 0 /\ i' = 1
    /\ UNCHANGED <<now, nodes, downVars, hand, beside, radioVars, exit_sig, fate>>

\* usleep(10000)
Wake ==
    /\ jitPc = "sleep" /\ rest = 0
    /\ NextRound
    /\ UNCHANGED <<now, nodes, downVars, hand, beside, radioVars, exit_sig, fate>>

\* The loop of jit_peek at a node that is not outdated.
ScanNext ==
    /\ jitPc = "scan" /\ i <= Len(nodes)
    /\ ~ Outdated(nodes, i, now)
    /\ i' = i + 1
    /\ UNCHANGED <<now, nodes, downVars, jitPc, hand, rest, beside, radioVars, exit_sig, fate>>

\* An outdated node is dropped.  "i = 0; continue" is followed by i++, so
\* that the scan goes on with the second node.
ScanDrop ==
    /\ jitPc = "scan" /\ i <= Len(nodes)
    /\ Outdated(nodes, i, now)
    /\ nodes' \in WithoutNode(nodes, i)
    /\ fate' = [fate EXCEPT ![nodes[i].pkt] = "outdated"]
    /\ i' = 2
    /\ UNCHANGED <<now, downVars, jitPc, hand, rest, beside, radioVars, exit_sig>>

\* The end of jit_peek, which gives the mutex back.
PeekEnd ==
    /\ jitPc = "scan" /\ i > Len(nodes)
    /\ IF PeekIndex(nodes, now) = 1
       THEN jitPc' = "dequeue" /\ UNCHANGED <<rest, i>>
       ELSE NextRound
    /\ UNCHANGED <<now, nodes, downVars, hand, beside, radioVars, exit_sig, fate>>

\* jit_dequeue(0): whatever is in front now.  On a queue that the purge has
\* emptied it fails, and only that is printed.
Dequeue ==
    /\ jitPc = "dequeue"
    /\ IF jit_queue_is_empty(nodes)
       THEN NextRound /\ UNCHANGED <<nodes, hand, beside, fate>>
       ELSE /\ hand' = nodes[1]
            /\ nodes' \in WithoutNode(nodes, 1)
            /\ fate' = [fate EXCEPT ![nodes[1].pkt] = "taken"]
            /\ beside' = Queued \ {nodes[1].pkt}
            /\ jitPc' = "status" /\ UNCHANGED <<rest, i>>
    /\ UNCHANGED <<now, downVars, radioVars, exit_sig>>

\* A thread that keeps its packet.
Drop_KeepsPacket(why) ==
    /\ fate' = [fate EXCEPT ![hand.pkt] = why]
    /\ UNCHANGED hand
    /\ NextRound

\* The packet in hand is done with.
Drop(why) ==
    /\ fate' = [fate EXCEPT ![hand.pkt] = why]
    /\ hand' = NoNode
    /\ NextRound

Emitting == now < until

\* lgw_status, under mx_concent.  A failing lgw_status is only reported.
Status ==
    /\ jitPc = "status"
    /\ \/ Emitting /\ Drop("radioBusy")
       \/ /\ ~ Emitting \/ CanFail
          /\ jitPc' = "send" /\ UNCHANGED <<hand, rest, i, fate>>
    /\ UNCHANGED <<now, nodes, downVars, beside, radioVars, exit_sig>>

\* lgw_send, under mx_concent again.  LGW_LBT_ISSUE passes for success: the
\* channel was busy and nothing goes on the air.
Send ==
    /\ jitPc = "send"
    /\ \/ /\ Drop("sent")
          /\ emitting' = hand.pkt
          /\ until' = now + TX_START_DELAY + hand.post
          /\ known' = beside
       \/ CanFail /\ Drop("sendFailed") /\ UNCHANGED radioVars
    /\ UNCHANGED <<now, nodes, downVars, beside, exit_sig>>

JitStep ==
    \/ PeekStart \/ Wake \/ ScanNext \/ ScanDrop \/ PeekEnd
    \/ Dequeue \/ Status \/ Send
DownStep == RecvDownlink \/ RecvClosed \/ EnqueueTestFull \/ EnqueueInsert

Next == Tick \/ JitStep \/ DownStep

Spec == Init /\ [][Next]_vars

\* Both threads are scheduled, and time goes on.
FairSpec ==
    /\ Spec
    /\ WF_vars(Tick) /\ WF_vars(JitStep)
    /\ WF_vars(EnqueueTestFull \/ EnqueueInsert)
-----------------------------------------------------------------------------
(* Properties.                                                              *)

\* The variables have their types, and a thread has a packet where it needs one.
TypeOK ==
    /\ now \in 0 .. Horizon
    /\ nodes \in Seq(Node)
    /\ downPc \in {"recv", "full", "insert"} /\ new \in Node \cup {NoNode}
    /\ jitPc \in {"peek", "sleep", "scan", "dequeue", "status", "send"}
    /\ i \in Nat /\ hand \in Node \cup {NoNode} /\ rest \in Nat
    /\ emitting \in Pkts \cup {NoPkt} /\ until \in Nat
    /\ exit_sig \in BOOLEAN
    /\ fate \in [Pkts -> Fates]
    /\ beside \subseteq Pkts /\ known \subseteq Pkts
    /\ downPc = "recv" <=> new = NoNode
    /\ jitPc \in {"status", "send"} <=> hand # NoNode

\* Packet q can be prepared and sent after p has left the antenna.
FollowsClear(p, q) == q.tx - p.tx > PreDelay + p.post + TX_MARGIN_DELAY

\* However packets come in, are taken out and are purged, the reservations of
\* the queued ones never overlap (jit_collision_test, jit_enqueue 301-336).
NoOverlap ==
    \A k, l \in 1 .. Len(nodes) :
        k # l => FollowsClear(nodes[k], nodes[l]) \/ FollowsClear(nodes[l], nodes[k])

\* After every insertion, removal and purge the queue is sorted as far as
\* compare() can tell: by whole seconds.
SortedBySecond ==
    \A k, l \in 1 .. Len(nodes) : k < l => Sec(nodes[k].tx) <= Sec(nodes[l].tx)

\* The array never overflows, although the test for a full queue and the
\* insertion are separate critical sections: there is a single inserter.
QueueBounded == Len(nodes) <= JIT_QUEUE_MAX

\* A packet that was queued is in the queue exactly once until it is taken or
\* purged: moving the last node into a hole and sorting neither lose nor
\* double a packet.
QueuedOnce ==
    /\ \A k, l \in 1 .. Len(nodes) : nodes[k].pkt = nodes[l].pkt => k = l
    /\ Queued = {p \in Pkts : fate[p] = "queued"}

\* On a timely host, every packet that goes on the air does so within the
\* deviation threshold before its time, never after it.
SentOnTime ==
    [][emitting' # emitting => hand.tx - now \in 0 .. TX_DEVIATION_THRESHOLD - 1]_vars

\* On a timely host, the only packets that are purged are those that compare()
\* put behind a later packet of the same second.
OnlyMisorderedPurged ==
    [][\A k \in 1 .. Len(nodes) :
         fate'[nodes[k].pkt] = "outdated"
         => \E j \in 1 .. k - 1 : /\ Sec(nodes[j].tx) = Sec(nodes[k].tx)
                                 /\ nodes[j].tx > nodes[k].tx]_vars

\* On a timely host, a packet that was queued together with the one that is on
\* the air never finds the concentrator emitting; one that was queued later
\* may, since the collision test does not know of the packet on the air.
OnlyNewcomersMeetBusyRadio ==
    [][\A p \in known : fate'[p] = "radioBusy" => fate[p] = "radioBusy"]_vars

\* Every queued packet leaves the queue, unless the program is ended.
EveryPktLeaves == \A p \in Pkts : fate[p] = "queued" ~> fate[p] # "queued" \/ exit_sig

\* Of jitqueue.h 106-107: "Once the packet is queued, it has to be sent over
\* the air."  On a timely host no queued packet should ever be purged...
NonePurged == \A p \in Pkts : fate[p] # "outdated"

\* ... nor be thrown away because the concentrator is emitting another one.
NoneMeetsBusyRadio == \A p \in Pkts : fate[p] # "radioBusy"

\* Of jitqueue.h 137: pkt_idx is -1 if no packet is soon to be sent.  However
\* seldom thread_jit gets to its loop, no packet goes on the air early...
NotSentEarly == [][emitting' # emitting => hand.tx - now < TX_DEVIATION_THRESHOLD]_vars

\* ... and (jitqueue.c 183-188) a packet that was missed is dropped, not sent.
MissedNotSent == [][emitting' # emitting => hand.tx >= now]_vars
=============================================================================
