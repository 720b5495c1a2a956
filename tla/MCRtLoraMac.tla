----------------------------- MODULE MCRtLoraMac -----------------------------
\* Instances of RtLoraMac for TLC: two relays and a node both can hear.
EXTENDS RtLoraMac

CONSTANTS r1, r2, c

Self(a, k) == [src |-> a, self |-> TRUE, nodes |-> <<[addr |-> a, class |-> k]>>]

WithChild(a, ch, k) ==
    [src |-> a, self |-> FALSE,
     nodes |-> <<[addr |-> a, class |-> 0], [addr |-> ch, class |-> k]>>]

OnlyChild(a, ch, k) ==
    [src |-> a, self |-> FALSE, nodes |-> <<[addr |-> ch, class |-> k]>>]

Requests ==
    {Self(r1, 0), Self(r1, 1), Self(c, 0), WithChild(r1, c, 0), OnlyChild(r1, c, 1),
     WithChild(r2, c, 0), OnlyChild(r1, r2, 0)}
-----------------------------------------------------------------------------
(* What the phase handler thread owes to others is done in the end: the     *)
(* change of the phase the operator asked for, and the announcements of     *)
(* every schedule, as often as promised, once nodes stop registering.       *)
PhasesProceed == PhaseRequestHonoured /\ Sched!EveryScheduleIsAnnounced
=============================================================================
