------------------------------ MODULE GwTimeSync ------------------------------
(***************************************************************************)
(* The time synchronisation of a gateway with its server: the thread that  *)
(* sends requests (thread_timesync_to_server of rtlora_gw.c), the answer   *)
(* of the server (lora_network_server.c), and the downlink thread of the   *)
(* gateway, which takes the answer and computes the offset of the clocks.  *)
(* The connection keeps the order and delays at will.  The main program    *)
(* does not start the thread at present (rtlora_gw.c:843-849).             *)
(*                                                                         *)
(* Time is counted in ticks, PerSec of them in the second of a timeval.    *)
(***************************************************************************)
EXTENDS Integers, Sequences

CONSTANTS
    PerSec,     (* ticks of a second                                        *)
    Base,       (* what the gateway's clock says at the start               *)
    Shifts,     (* how far the server's clock may be ahead of it            *)
    Tolerance,  (* TIMESYNC_MAX_ERROR_TOLERANT                              *)
    Wait,       (* the time an answer has: 100 ms                           *)
    Short, Long, (* TIMESYNC_SHORT_INTERVAL, TIMESYNC_LONG_INTERVAL         *)
    Tokens,     (* tokens are 1 .. Tokens in turn: 16 random bits           *)
    Prompt,     (* t0 is recorded before an answer can come back            *)
    MaxTime     (* ticks of a behaviour                                     *)

TimeSyncAssumption ==
    /\ {PerSec, Wait, Short, Long, Tokens} \subseteq Nat \ {0}
    /\ {Base, Tolerance, MaxTime} \subseteq Nat
    /\ Shifts \subseteq Int /\ \A s \in Shifts : Base + s >= 0
    /\ Prompt \in BOOLEAN

VARIABLES
    now,        (* ticks since the start                                    *)
    shift,      (* the server's clock minus the gateway's                   *)
    pc,         (* the step of the timesync thread                          *)
    unix,       (* its unix_timeval                                         *)
    until,      (* the end of its wait_ms                                   *)
    var,        (* timesync_var: token, t0, time_offset, offset_drift, flag *)
    req, res,   (* requests and answers under way                           *)
    srv,        (* the request the server is answering, or none             *)
    answered    (* the last answer taken: its token, the time the exchange   *)
                (* took from the t0 that was read for it                    *)

net == <<req, res, srv>>
vars == <<now, shift, pc, unix, until, var, req, res, srv, answered>>

GwClock == Base + now
SvClock == Base + now + shift

Init ==
    /\ now = 0 /\ shift \in Shifts
    /\ pc = "token" /\ unix = 0 /\ until = 0
    /\ var = [token |-> 0, t0 |-> 0, offset |-> 0, drift |-> 0, flag |-> "done"]
    /\ req = <<>> /\ res = <<>> /\ srv = <<>>
    /\ answered = [token |-> 0, rtt |-> 0]

-----------------------------------------------------------------------------
(* thread_timesync_to_server                                                *)

NewToken ==
    /\ pc = "token" /\ pc' = "clock"
    /\ var' = [var EXCEPT !.token = (@ % Tokens) + 1]
    /\ UNCHANGED <<now, shift, unix, until, net, answered>>

ReadClock ==
    /\ pc = "clock" /\ pc' = "send"
    /\ unix' = GwClock
    /\ UNCHANGED <<now, shift, until, var, net, answered>>

SendReq ==
    /\ pc = "send" /\ pc' = "record"
    /\ req' = Append(req, var.token)
    /\ UNCHANGED <<now, shift, unix, until, var, res, srv, answered>>

\* mutant: the clock is read again after the request is out
Record_Later ==
    /\ pc = "record" /\ pc' = "wait"
    /\ var' = [var EXCEPT !.t0 = GwClock, !.flag = "waiting"]
    /\ until' = now + Wait
    /\ UNCHANGED <<now, shift, unix, net, answered>>

\* mutant: the mark of the last round is kept
Record_Unmarked ==
    /\ pc = "record" /\ pc' = "wait"
    /\ var' = [var EXCEPT !.t0 = unix]
    /\ until' = now + Wait
    /\ UNCHANGED <<now, shift, unix, net, answered>>

\* record t0 timestamp
Record ==
    /\ pc = "record" /\ pc' = "wait"
    /\ var' = [var EXCEPT !.t0 = unix, !.flag = "waiting"]
    /\ until' = now + Wait
    /\ UNCHANGED <<now, shift, unix, net, answered>>

\* The wait is over: long or short until the next request
WaitOver ==
    /\ pc = "wait" /\ now >= until /\ pc' = "sleep"
    /\ IF var.flag # "done"
          THEN var' = [var EXCEPT !.flag = "error"] /\ until' = now + Short
          ELSE var' = var /\ until' = now + Long
    /\ UNCHANGED <<now, shift, unix, net, answered>>

Again ==
    /\ pc = "sleep" /\ now >= until /\ pc' = "token"
    /\ UNCHANGED <<now, shift, unix, until, var, net, answered>>

-----------------------------------------------------------------------------
(* The server                                                               *)

\* Get receiving timestamp
SvReceive ==
    /\ srv = <<>> /\ req # <<>>
    /\ srv' = <<[token |-> Head(req), t1 |-> SvClock]>>
    /\ req' = Tail(req)
    /\ UNCHANGED <<now, shift, pc, unix, until, var, res, answered>>

\* Get transmitting timestamp, send the response
SvAnswer ==
    /\ srv # <<>> /\ srv' = <<>>
    /\ res' = Append(res, [token |-> srv[1].token, t1 |-> srv[1].t1, t2 |-> SvClock])
    /\ UNCHANGED <<now, shift, pc, unix, until, var, req, answered>>

-----------------------------------------------------------------------------
(* thread_down, PKT_TIMESYNC_RES                                            *)

Timeval(t) == [sec |-> t \div PerSec, usec |-> t % PerSec]

\* mutant: nothing is borrowed from the seconds
TIMERSUB_NoBorrow(a, b) ==
    LET s == a.sec - b.sec u == a.usec - b.usec
    IN  IF u < 0 THEN [sec |-> s, usec |-> u + PerSec] ELSE [sec |-> s, usec |-> u]

TIMERSUB(a, b) ==
    LET s == a.sec - b.sec u == a.usec - b.usec
    IN  IF u < 0 THEN [sec |-> s - 1, usec |-> u + PerSec] ELSE [sec |-> s, usec |-> u]

\* The quotient of C, which goes towards zero
Half(n) == IF n >= 0 THEN n \div 2 ELSE -((-n) \div 2)

Offset(t0, t1, t2, t3) ==
    LET a == TIMERSUB(Timeval(t1), Timeval(t0))
        b == TIMERSUB(Timeval(t2), Timeval(t3))
    IN  Half((a.sec * PerSec) + a.usec + (b.sec * PerSec) + b.usec)

Tolerable(offset) == offset \in -Tolerance .. Tolerance

SameToken(m) == m.token = var.token

\* timesync_res is false at every answer: it is reset in each turn of the loop
Down ==
    /\ res # <<>> /\ res' = Tail(res)
    /\ Prompt => pc # "record"
    /\ LET m == Head(res)
           o == Offset(var.t0, m.t1, m.t2, GwClock)
       IN  IF SameToken(m)
              THEN /\ var' = [var EXCEPT !.offset = o, !.drift = o - var.offset,
                                         !.flag = IF Tolerable(o) THEN "done" ELSE "error"]
                   /\ answered' = [token |-> m.token, rtt |-> GwClock - unix]
              ELSE var' = [var EXCEPT !.flag = "error"] /\ answered' = answered
    /\ UNCHANGED <<now, shift, pc, unix, until, req, srv>>

Tick ==
    /\ now < MaxTime /\ now' = now + 1
    /\ UNCHANGED <<shift, pc, unix, until, var, net, answered>>

Next ==
    \/ NewToken \/ ReadClock \/ SendReq \/ Record \/ WaitOver \/ Again
    \/ SvReceive \/ SvAnswer
    \/ Down
    \/ Tick

Spec == Init /\ [][Next]_vars

-----------------------------------------------------------------------------
TypeOK ==
    /\ now \in 0 .. MaxTime /\ shift \in Shifts
    /\ pc \in {"token", "clock", "send", "record", "wait", "sleep"}
    /\ unix \in 0 .. GwClock /\ until \in Nat
    /\ var.token \in 0 .. Tokens /\ var.t0 \in 0 .. unix
    /\ {var.offset, var.drift} \subseteq Int
    /\ var.flag \in {"done", "waiting", "error"}
    /\ req \in Seq(1 .. Tokens) /\ Len(srv) <= 1 /\ answered \in [token : 0 .. Tokens, rtt : 0 .. GwClock]

Abs(n) == IF n < 0 THEN -n ELSE n

\* The offset an answer gives is that of the clocks to within half of the
\* time the exchange took (rtlora_gw.c:1290-1306), for all delays on the way
\* and late answers to earlier requests.  PROTOCOL.txt:73-77 draws t0 at the
\* sending of the request that the answer is for.
OffsetAccurate ==
    answered.token # 0 => Abs(2 * (var.offset - shift)) <= answered.rtt + 1

\* While a request waits or the thread sleeps after it, the mark says done
\* exactly if that request was answered within the tolerance: never for the
\* answer to an earlier one (rtlora_gw.c:1308-1320, 1709-1717).
DoneIsThisRequest ==
    pc \in {"wait", "sleep"} =>
        (var.flag = "done" <=> answered.token = var.token /\ Tolerable(var.offset))
=============================================================================
