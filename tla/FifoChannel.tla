----------------------------- MODULE FifoChannel -----------------------------
(***************************************************************************)
(* What the packet queue between two threads of the server promises: a     *)
(* first-in first-out buffer of bounded capacity.  A message is put in     *)
(* while there is room, stays exactly once, and messages are got in the    *)
(* order in which they were put.                                           *)
(***************************************************************************)
EXTENDS Naturals, Sequences

CONSTANTS Msgs, NoMsg, Capacity

VARIABLES buf,   (* the messages in the channel                              *)
          out    (* the message the receiver got last                        *)

vars == <<buf, out>>

Init == buf = << >> /\ out = NoMsg

Put(m) ==
    /\ Len(buf) < Capacity
    /\ buf' = Append(buf, m)
    /\ UNCHANGED out

Get ==
    /\ buf # << >>
    /\ out' = Head(buf)
    /\ buf' = Tail(buf)

Next == Get \/ \E m \in Msgs : Put(m)

Spec == Init /\ [][Next]_vars
=============================================================================
