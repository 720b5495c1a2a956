----------------------------- MODULE PktHandoff ------------------------------
(***************************************************************************)
(* How two threads of the server hand messages to each other: the linked   *)
(* list of packet_queue.c, and the flag and condition variable beside it.  *)
(*                                                                         *)
(* Outbound: the phase handler thread of the MAC queues a message, then    *)
(* sets flagTxMsg under mutexTxMsg; thread_downstream takes one message    *)
(* each time it is woken.  Inbound: thread_inputstream queues and sets     *)
(* flagRxMsg in one critical section of mutexRxMsg; the input handler      *)
(* thread, once woken, takes messages until the queue is empty.            *)
(*                                                                         *)
(* An action is one critical section; in particular the tests for a full   *)
(* or an empty queue lock the queue's mutex by themselves.  The flag is    *)
(* set and the condition signalled in one critical section, and cleared    *)
(* and waited for in one too, so a waiting thread whose flag is set is     *)
(* exactly one that was signalled; other wakeups change nothing.           *)
(***************************************************************************)
EXTENDS Naturals, Sequences, FiniteSets, Functions

CONSTANTS Cells,              (* what malloc may return                      *)
          NULL,
          PKT_QUEUE_MAX,
          Msgs, NoMsg,        (* messages; bound: as many at a time          *)
          EnqueuesUnderLock,  (* inbound: the producer holds the flag's lock *)
          DrainsQueue         (* inbound: the consumer empties the queue     *)

HandoffAssumption ==
    /\ IsFiniteSet(Cells) /\ NULL \notin Cells
    /\ PKT_QUEUE_MAX \in Nat \ {0} /\ Cardinality(Cells) > PKT_QUEUE_MAX
    /\ IsFiniteSet(Msgs) /\ NoMsg \notin Msgs /\ Cardinality(Msgs) > PKT_QUEUE_MAX
    /\ EnqueuesUnderLock \in BOOLEAN /\ DrainsQueue \in BOOLEAN

ASSUME HandoffAssumption

VARIABLES head, tail,    (* pointers of the queue                            *)
          size,
          pkt, next,     (* the contents of the cells                        *)
          live,          (* the cells that are allocated                     *)
          flag,          (* flagTxMsg, flagRxMsg                             *)
          prodPc, msg,   (* the producer: where it is, its current message   *)
          consPc, got    (* the consumer: where it is, its last message      *)

queueVars == <<head, tail, size, pkt, next, live>>
prodVars == <<prodPc, msg>>
consVars == <<consPc, got>>
vars == <<head, tail, size, pkt, next, live, flag, prodPc, msg, consPc, got>>
-----------------------------------------------------------------------------
Init ==
    /\ head = NULL /\ tail = NULL /\ size = 0
    /\ pkt = [c \in Cells |-> NoMsg] /\ next = [c \in Cells |-> NULL]
    /\ live = {}
    /\ flag = FALSE
    /\ prodPc = "idle" /\ msg = NoMsg
    /\ consPc = "rearm" /\ got = NoMsg

\* The producer holds the mutex of the flag.
Locked == EnqueuesUnderLock /\ prodPc # "idle"
-----------------------------------------------------------------------------
(* The producer.                                                            *)

\* A message (CM, SM or RNL; an uplink message from a gateway) that is none
\* of those in the queue.
Produce ==
    /\ prodPc = "idle"
    /\ msg' \in {m \in Msgs : \A c \in live : pkt[c] # m}
    /\ prodPc' = "check"
    /\ UNCHANGED <<queueVars, flag, consVars>>

\* A test that lets one message too many in.
CheckFull_OffByOne ==
    /\ prodPc = "check"
    /\ prodPc' = IF size > PKT_QUEUE_MAX THEN "notify" ELSE "insert"
    /\ UNCHANGED <<queueVars, flag, msg, consVars>>

\* A producer that says nothing when its message was not queued.
CheckFull_Silent ==
    /\ prodPc = "check"
    /\ prodPc' = IF size = PKT_QUEUE_MAX THEN "idle" ELSE "insert"
    /\ UNCHANGED <<queueVars, flag, msg, consVars>>

\* pktEnqueue, isPktQueueFull: nobody looks at PKT_ERROR_FULL, the message
\* is lost and the consumer notified all the same.
CheckFull ==
    /\ prodPc = "check"
    /\ prodPc' = IF size = PKT_QUEUE_MAX THEN "notify" ELSE "insert"
    /\ UNCHANGED <<queueVars, flag, msg, consVars>>

\* An insertion that trusts the tail, which pktDequeue never resets.
Insert_TrustsTail ==
    /\ prodPc = "insert"
    /\ \E c \in Cells \ live :
          /\ live' = live \cup {c}
          /\ pkt' = [pkt EXCEPT ![c] = msg]
          /\ head' = IF tail = NULL THEN c ELSE head
          /\ next' = IF tail = NULL THEN [next EXCEPT ![c] = NULL]
                                    ELSE [next EXCEPT ![c] = NULL, ![tail] = c]
          /\ tail' = c
    /\ size' = size + 1
    /\ prodPc' = "notify"
    /\ UNCHANGED <<flag, msg, consVars>>

\* An insertion before the first message.
Insert_AtHead ==
    /\ prodPc = "insert"
    /\ \E c \in Cells \ live :
          /\ live' = live \cup {c}
          /\ pkt' = [pkt EXCEPT ![c] = msg]
          /\ next' = [next EXCEPT ![c] = head]
          /\ head' = c
          /\ tail' = IF head = NULL THEN c ELSE tail
    /\ size' = size + 1
    /\ prodPc' = "notify"
    /\ UNCHANGED <<flag, msg, consVars>>

\* pktEnqueue, second critical section.
Insert ==
    /\ prodPc = "insert"
    /\ \E c \in Cells \ live :
          /\ live' = live \cup {c}
          /\ pkt' = [pkt EXCEPT ![c] = msg]
          /\ head' = IF head = NULL THEN c ELSE head
          /\ next' = IF head = NULL THEN [next EXCEPT ![c] = NULL]
                                    ELSE [next EXCEPT ![c] = NULL, ![tail] = c]
          /\ tail' = c
    /\ size' = size + 1
    /\ prodPc' = "notify"
    /\ UNCHANGED <<flag, msg, consVars>>

\* A notification that signals the condition without setting the flag.
Notify_SignalOnly ==
    /\ prodPc = "notify"
    /\ prodPc' = "idle"
    /\ UNCHANGED <<queueVars, flag, msg, consVars>>

Notify ==
    /\ prodPc = "notify"
    /\ flag' = TRUE
    /\ prodPc' = "idle"
    /\ UNCHANGED <<queueVars, msg, consVars>>
-----------------------------------------------------------------------------
(* The consumer.                                                            *)

\* The consumer forgets what it was told while it was busy, and waits.
Rearm ==
    /\ consPc = "rearm" /\ ~ Locked
    /\ flag' = FALSE
    /\ consPc' = "wait"
    /\ UNCHANGED <<queueVars, prodVars, got>>

Wake ==
    /\ consPc = "wait" /\ ~ Locked
    /\ flag
    /\ consPc' = "check"
    /\ UNCHANGED <<queueVars, flag, prodVars, got>>

\* pktDequeue, isPktQueueEmpty.
CheckEmpty ==
    /\ consPc = "check"
    /\ consPc' = IF size = 0 THEN "rearm" ELSE "remove"
    /\ UNCHANGED <<queueVars, flag, prodVars, got>>

\* pktDequeue, second critical section: the head is followed unchecked.
\* What was in a freed cell is lost.
Remove ==
    /\ consPc = "remove"
    /\ got' = pkt[head]
    /\ live' = live \ {head}
    /\ head' = next[head]
    /\ pkt' = [pkt EXCEPT ![head] = NoMsg] /\ next' = [next EXCEPT ![head] = NULL]
    /\ size' = size - 1
    /\ consPc' = "use"
    /\ UNCHANGED <<tail, flag, prodVars>>

\* The message is sent to the gateways, or handled by the MAC.
Use ==
    /\ consPc = "use"
    /\ consPc' = IF DrainsQueue THEN "check" ELSE "rearm"
    /\ UNCHANGED <<queueVars, flag, prodVars, got>>
-----------------------------------------------------------------------------
Producer == Produce \/ CheckFull \/ Insert \/ Notify

Consumer == Rearm \/ Wake \/ CheckEmpty \/ Remove \/ Use

Next == Producer \/ Consumer

Spec == Init /\ [][Next]_vars

(* Each thread goes on with what it has begun: the critical sections are    *)
(* short and sending to a gateway comes to an end.  The consumer gets the   *)
(* mutex of the flag in the end, because the producer spends the time       *)
(* between two messages without it.  That there is a next message is not    *)
(* assumed.                                                                 *)
FairSpec ==
    /\ Spec
    /\ WF_vars(CheckFull \/ Insert \/ Notify)
    /\ WF_vars(CheckEmpty \/ Remove \/ Use)
    /\ SF_vars(Rearm) /\ SF_vars(Wake)
-----------------------------------------------------------------------------
\* s is the list that begins at h when the cells are linked by nx.
IsChain(s, h, nx) ==
    /\ h = IF s = << >> THEN NULL ELSE s[1]
    /\ \A i \in 1 .. Len(s) : nx[s[i]] = IF i = Len(s) THEN NULL ELSE s[i + 1]

\* The cells from h to the one whose next is NULL; none if there is no
\* such end.
ListFrom(h, nx) ==
    LET lists == UNION {[1 .. n -> Cells] : n \in 0 .. Cardinality(Cells)}
        chains == {s \in lists : IsChain(s, h, nx)}
    IN  IF h = NULL \/ chains = {} THEN << >> ELSE CHOOSE s \in chains : TRUE

QueuedCells == ListFrom(head, next)

Contents == LET cells == QueuedCells IN [i \in 1 .. Len(cells) |-> pkt[cells[i]]]

TypeOK ==
    /\ {head, tail} \subseteq Cells \cup {NULL}
    /\ size \in 0 .. PKT_QUEUE_MAX
    /\ pkt \in [Cells -> Msgs \cup {NoMsg}] /\ next \in [Cells -> Cells \cup {NULL}]
    /\ live \subseteq Cells
    /\ flag \in BOOLEAN
    /\ prodPc \in {"idle", "check", "insert", "notify"} /\ msg \in Msgs \cup {NoMsg}
    /\ consPc \in {"rearm", "wait", "check", "remove", "use"} /\ got \in Msgs \cup {NoMsg}

(* No pointer to a freed cell is followed and no cell leaks, although the   *)
(* tail dangles once the queue has run empty: the list consists of exactly  *)
(* the allocated cells, as many as size says, and a non-empty one ends at   *)
(* the tail.  The consumer that found the queue non-empty finds a head in   *)
(* its second critical section.                                             *)
PointersSound ==
    /\ Range(QueuedCells) = live
    /\ Len(QueuedCells) = size /\ Cardinality(live) = size
    /\ head # NULL => QueuedCells[size] = tail
    /\ consPc = "remove" => head # NULL

Fifo == INSTANCE FifoChannel WITH Capacity <- PKT_QUEUE_MAX, buf <- Contents, out <- got

(* The linked list with its separate tests is a bounded first-in first-out  *)
(* channel: with one producer and one consumer, what a test found still     *)
(* holds when the queue is locked again.                                    *)
ImplementsFifo == Fifo!Spec

Queued(m) == m \in Range(Contents)

(* As long as messages keep coming, each one that was queued is taken in    *)
(* the end.  The consumer may miss notifications, fall behind and let the   *)
(* queue run full, but a message that is turned away still wakes it.        *)
EveryMsgTaken ==
    []<><<Produce>>_vars => \A m \in Msgs : Queued(m) ~> ~ Queued(m)

(* The producer queues a message and then notifies "that the packet is      *)
(* ready to transmit" (or "has been input to the RX queue"): the consumer   *)
(* does not sleep on a message it has been notified of.                     *)
NoSleepOnQueuedMsg ==
    (consPc = "wait" /\ ~ flag /\ prodPc = "idle") => size = 0
=============================================================================
