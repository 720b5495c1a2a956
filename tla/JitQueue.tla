------------------------------ MODULE JitQueue -------------------------------
(***************************************************************************)
(* The just-in-time queue of the gateway, jitqueue.c: the downlink packets *)
(* that wait for their time of transmission.  The queue is the array       *)
(* nodes[0 .. num_pkt-1], here a sequence; behind it the array is zeroed.  *)
(* The operators are what one critical section of mx_jit_queue does;       *)
(* GwDownlink puts them into the two threads that share the queue.         *)
(*                                                                         *)
(* Time is a number of ticks since some whole second.  A timeval is a pair *)
(* of that second, counted in Unix time, and of the ticks within it.       *)
(***************************************************************************)
EXTENDS Integers, Sequences

CONSTANTS Pkts,
          TicksPerSec,
          Epoch,                (* the Unix second of tick 0                  *)
          TX_START_DELAY, TX_MARGIN_DELAY, TX_JIT_DELAY,
          TX_MAX_ADVANCE_DELAY, TX_DEVIATION_THRESHOLD,
          JIT_QUEUE_MAX,
          Word                  (* a uint32_t holds the values 0 .. Word - 1  *)

\* Unix time has more seconds than a second has microseconds.
ASSUME TimeAssumption ==
    /\ TicksPerSec \in Nat \ {0}
    /\ Epoch \in Nat /\ Epoch >= TicksPerSec
ASSUME DelayAssumption ==
    /\ TX_START_DELAY \in Nat /\ TX_MARGIN_DELAY \in Nat /\ TX_JIT_DELAY \in Nat
    /\ TX_MAX_ADVANCE_DELAY \in Nat /\ TX_DEVIATION_THRESHOLD \in Nat
    /\ JIT_QUEUE_MAX \in Nat \ {0}
    /\ Word \in Nat \ {0}
-----------------------------------------------------------------------------
Time == Nat

Sec(t)  == Epoch + t \div TicksPerSec
Usec(t) == t % TicksPerSec

\* A packet with the time it is to be sent at and its time on air.
Node == [pkt : Pkts, tx : Time, post : Nat]

PreDelay == TX_START_DELAY + TX_JIT_DELAY

\* Within one second the microseconds of p are set against the seconds of q.
compare(p, q) ==
    IF \/ Sec(p.tx) > Sec(q.tx)
       \/ (Sec(p.tx) = Sec(q.tx) /\ Usec(p.tx) > Sec(q.tx))
    THEN 1 ELSE -1

Orders(n) == {p \in [1 .. n -> 1 .. n] : \A i, j \in 1 .. n : p[i] = p[j] => i = j}

\* A sort that loses the last node and doubles the first.
jit_sort_queue_Doubles(nodes) ==
    {[i \in 1 .. Len(nodes) |-> IF i = Len(nodes) THEN nodes[1] ELSE nodes[i]]}

\* The queue after a stable sort (qsort_r is a merge sort): of two nodes the
\* left one stays in front unless compare() puts it behind.  There is one
\* such order; p[k] is the place the k-th node came from.
jit_sort_queue(nodes) ==
    LET n == Len(nodes)
        Stable(p) == \A k \in 1 .. n : \A l \in k + 1 .. n :
                        IF p[k] < p[l]
                        THEN compare(nodes[p[k]], nodes[p[l]]) <= 0
                        ELSE compare(nodes[p[l]], nodes[p[k]]) > 0
    IN  {[k \in 1 .. n |-> nodes[p[k]]] : p \in {q \in Orders(n) : Stable(q)}}

\* A test that leaves out the time on air of the earlier packet.
jit_collision_test_NoAirTime(p, q) ==
    IF p.tx <= q.tx
    THEN (q.tx - p.tx) % Word <= PreDelay + TX_MARGIN_DELAY
    ELSE (p.tx - q.tx) % Word <= PreDelay + TX_MARGIN_DELAY

\* A test that takes the new packet for the earlier one.
jit_collision_test_OneSided(p, q) ==
    p.tx <= q.tx /\ (q.tx - p.tx) % Word <= PreDelay + p.post + TX_MARGIN_DELAY

\* The later packet's pre-delay reaches into the time of the earlier one.
jit_collision_test(p, q) ==
    IF p.tx <= q.tx
    THEN (q.tx - p.tx) % Word <= PreDelay + p.post + TX_MARGIN_DELAY
    ELSE (p.tx - q.tx) % Word <= PreDelay + q.post + TX_MARGIN_DELAY

\* now + delay as a timeval; a fraction of exactly one second is not carried.
Later(now, delay) ==
    LET u == Usec(now) + delay
    IN  IF u > TicksPerSec
        THEN <<Sec(now) + u \div TicksPerSec, u % TicksPerSec>>
        ELSE <<Sec(now), u>>

\* timercmp(t, v, <=) and timercmp(t, v, >=)
NotAfter(t, v)  == Sec(t) < v[1] \/ (Sec(t) = v[1] /\ Usec(t) <= v[2])
NotBefore(t, v) == Sec(t) > v[1] \/ (Sec(t) = v[1] /\ Usec(t) >= v[2])

\* A test without the time that thread_jit may be asleep.
TooLate_NoJitDelay(now, tx) == NotAfter(tx, Later(now, TX_MARGIN_DELAY))

TooLate(now, tx)  == NotAfter(tx, Later(now, TX_MARGIN_DELAY + TX_JIT_DELAY))
TooEarly(now, tx) == NotBefore(tx, Later(now, TX_MAX_ADVANCE_DELAY))

Collides(nodes, node) == \E i \in 1 .. Len(nodes) : jit_collision_test(node, nodes[i])

jit_queue_init == << >>

\* A test that lets one packet too many in.
jit_queue_is_full_OffByOne(nodes) == Len(nodes) > JIT_QUEUE_MAX

jit_queue_is_full(nodes) == Len(nodes) = JIT_QUEUE_MAX

\* A test that takes a queue of one packet for empty.
jit_queue_is_empty_OffByOne(nodes) == Len(nodes) <= 1

jit_queue_is_empty(nodes) == nodes = << >>

\* What jit_enqueue answers once the queue was not full.
EnqueueResult(nodes, now, node) ==
    CASE TooLate(now, node.tx)   -> "JIT_ERROR_TOO_LATE"
      [] ~ TooLate(now, node.tx) /\ TooEarly(now, node.tx) -> "JIT_ERROR_TOO_EARLY"
      [] ~ TooLate(now, node.tx) /\ ~ TooEarly(now, node.tx) /\ Collides(nodes, node)
                                 -> "JIT_ERROR_COLLISION_PACKET"
      [] OTHER                   -> "JIT_ERROR_OK"

\* The queues after the insertion: the node goes behind the others, then sort.
Enqueued(nodes, node) == jit_sort_queue(Append(nodes, node))

\* A removal that does not sort.
WithoutNode_Unsorted(nodes, i) ==
    {[k \in 1 .. Len(nodes) - 1 |-> IF k = i THEN nodes[Len(nodes)] ELSE nodes[k]]}

\* The queues after node i was taken out: the last node takes its place, then
\* sort.  Shared by jit_dequeue and by the purge of jit_peek.
WithoutNode(nodes, i) ==
    jit_sort_queue([k \in 1 .. Len(nodes) - 1 |->
                      IF k = i THEN nodes[Len(nodes)] ELSE nodes[k]])

Outdated(nodes, i, now) == now > nodes[i].tx

\* A peek that takes a packet one tick early.
PeekIndex_Early(nodes, now) ==
    IF nodes = << >> \/ nodes[1].tx - now <= TX_DEVIATION_THRESHOLD THEN 1 ELSE 0

\* The end of jit_peek: only the first node is looked at.  The first node of
\* an emptied queue is zeroed, so that its time has come, too.
PeekIndex(nodes, now) ==
    IF nodes = << >> \/ nodes[1].tx - now < TX_DEVIATION_THRESHOLD THEN 1 ELSE 0
=============================================================================
