--------------------------------- MODULE TxTest ---------------------------------
(***************************************************************************)
(* The transmission test of the concentrator (util_tx_test.c): its options,*)
(* the configuration and start of the concentrator, the loop that sends    *)
(* numbered packets and waits for the end of each, with and without        *)
(* listening before talking, and the end after the last packet or a signal.*)
(*                                                                         *)
(* The concentrator is modelled as the program sees it through lgw_send,   *)
(* lgw_status and lgw_get_trigcnt: a packet waits for its time, is emitted *)
(* and is done; the counter that is read is the present one only while     *)
(* LGW_GPS_EN is 0, and else the one captured at the last pulse.           *)
(***************************************************************************)
EXTENDS Integers, Sequences

CONSTANTS
    OptionValues,   (* the values that may be given to each option         *)
    Wrap,           (* cycle_count has this many values: 65536             *)
    Ahead,          (* a timestamp lies this far ahead: 50 ms              *)
    MaxSent,        (* bound: packets that are sent                        *)
    MaxTime         (* bound: the counter of the concentrator stops        *)

Option == DOMAIN OptionValues
LbtOption == {"lbt-sctm", "lbt-rssi", "lbt-rssi-offset", "lbt-nbch"}

TxTestAssumption ==
    /\ {"f", "r", "n", "b", "s", "c", "p", "l", "z", "t", "x", "k", "d", "lbt-freq"}
          \cup LbtOption = Option
    /\ \A o \in Option : OptionValues[o] \subseteq Int
    /\ {Wrap, Ahead, MaxSent, MaxTime} \subseteq Nat \ {0}

VARIABLES
    params,         (* the parameters; f and r are 0 until they are given  *)
    pc,             (* where main is                                       *)
    running,        (* the concentrator runs                               *)
    cycle_count,
    sent,           (* the numbers of the packets that were handed over    *)
    packet,         (* what the concentrator does with the last: "free",   *)
                    (* "scheduled" or "emitting"                           *)
    count_us,       (* the time of the last packet                         *)
    GPS_EN,         (* the counter is captured at pulses only              *)
    now,            (* the counter of the concentrator                     *)
    captured,       (* and its value at the last pulse                     *)
    sig             (* the signals that came                               *)

radio == <<packet, count_us, GPS_EN>>
clock == <<now, captured>>
vars == <<params, pc, running, cycle_count, sent, radio, clock, sig>>

lbt_enable == params["lbt-freq"] # 0

Init ==
    /\ params = [o \in Option |->
         CASE o = "s" -> 10 [] o = "c" -> 1 [] o = "b" -> 125 [] o = "p" -> 14
           [] o = "l" -> 8 [] o = "z" -> 16 [] o = "t" -> 1000 [] o = "x" -> -1
           [] o = "k" -> 1 [] o = "n" -> 129 [] o = "d" -> 25 [] o = "lbt-sctm" -> 5000
           [] o = "lbt-rssi" -> -80 [] o = "lbt-rssi-offset" -> -4
           [] o = "lbt-nbch" -> 1 [] OTHER -> 0]
    /\ pc = "options" /\ running = FALSE /\ cycle_count = 0 /\ sent = << >>
    /\ packet = "free" /\ count_us = 0 /\ GPS_EN = TRUE /\ now = 0 /\ captured = 0
    /\ sig = {}

-----------------------------------------------------------------------------
\* mutant: the coding rate is compared with the number of rates
Accepted_Wide(o, v) ==
    CASE o = "f" -> v \in 30 .. 3000 [] o = "c" -> v \in 0 .. 4 [] OTHER -> TRUE

\* The values that are accepted; the tests of lbt-rssi and lbt-rssi-offset
\* are never met
Accepted(o, v) ==
    CASE o \in {"f", "lbt-freq"} -> v \in 30 .. 3000
      [] o = "n" -> v \in 126 .. 250
      [] o = "b" -> v \in {125, 250, 500}
      [] o = "s" -> v \in 7 .. 12
      [] o = "c" -> v \in 1 .. 4
      [] o = "p" -> v \in -60 .. 60
      [] o = "d" -> v \in 1 .. 250
      [] o = "l" -> v >= 6
      [] o = "z" -> v > 0
      [] o = "t" -> v >= 0
      [] o = "x" -> v >= -1
      [] o = "r" -> v \in {1255, 1257}
      [] o = "k" -> v \in {0, 1}
      [] o \in {"lbt-sctm", "lbt-nbch"} -> lbt_enable /\ v >= 0
      [] o \in {"lbt-rssi", "lbt-rssi-offset"} -> lbt_enable

\* One option; a value that is refused ends the program
ParseOption(o, v) ==
    /\ pc = "options"
    /\ IF Accepted(o, v) THEN params' = [params EXCEPT ![o] = v] /\ pc' = pc
                         ELSE params' = params /\ pc' = "failed"
    /\ UNCHANGED <<running, cycle_count, sent, radio, clock, sig>>

\* The frequency and the type of the radio have to be given
Sane == params["f"] # 0 /\ params["r"] # 0

\* The board, the channels to listen to, the radios and the gains are set
\* without a look at the results, and the concentrator is started
Configure(ok) ==
    /\ pc = "options"
    /\ running' = (Sane /\ ok)
    /\ pc' = IF Sane /\ ok THEN "loop" ELSE "failed"
    /\ UNCHANGED <<params, cycle_count, sent, radio, clock, sig>>

-----------------------------------------------------------------------------
\* mutant: one packet more than asked for
More_Extra == params["x"] = -1 \/ cycle_count <= params["x"]
More == params["x"] = -1 \/ cycle_count < params["x"]

\* The number goes into the payload; with a listening concentrator a packet
\* needs a time, and the capture at pulses is switched off to read the counter
BeginCycle ==
    /\ pc = "loop"
    /\ IF More THEN /\ Len(sent) < MaxSent
                    /\ cycle_count' = (cycle_count + 1) % Wrap
                    /\ pc' = IF lbt_enable THEN "capture" ELSE "send"
               ELSE cycle_count' = cycle_count /\ pc' = "stop"
    /\ UNCHANGED <<params, running, sent, radio, clock, sig>>

\* mutant: the capture stays on
CaptureWhileRead_On == TRUE
CaptureWhileRead == FALSE

CaptureOff ==
    /\ pc = "capture" /\ GPS_EN' = CaptureWhileRead /\ pc' = "read"
    /\ UNCHANGED <<params, running, cycle_count, sent, packet, count_us, clock, sig>>

lgw_get_trigcnt ==
    /\ pc = "read"
    /\ count_us' = (IF GPS_EN THEN captured ELSE now) + Ahead
    /\ GPS_EN' = TRUE /\ pc' = "send"
    /\ UNCHANGED <<params, running, cycle_count, sent, packet, clock, sig>>

\* mutant: the program does not wait for the end of the packet
Waits_Not == "pause"
Waits == "status"

\* lgw_send: refused because the channel is in use, failed, or taken
lgw_send(result) ==
    /\ pc = "send"
    /\ result = "busy" => lbt_enable
    /\ CASE result = "taken" -> /\ packet' = IF lbt_enable THEN "scheduled" ELSE "emitting"
                                /\ pc' = Waits
         [] result = "busy"  -> packet' = packet /\ pc' = "pause"
         [] result = "error" -> packet' = packet /\ pc' = "failed"
    /\ sent' = Append(sent, cycle_count)
    /\ UNCHANGED <<params, running, cycle_count, count_us, GPS_EN, clock, sig>>

lgw_status ==
    /\ pc = "status" /\ packet = "free" /\ pc' = "pause"
    /\ UNCHANGED <<params, running, cycle_count, sent, radio, clock, sig>>

Stops == sig # {}

Pause ==
    /\ pc = "pause" /\ pc' = IF Stops THEN "stop" ELSE "loop"
    /\ UNCHANGED <<params, running, cycle_count, sent, radio, clock, sig>>

\* mutant: the concentrator keeps running
StoppedState_On == running
StoppedState == FALSE

lgw_stop ==
    /\ pc = "stop" /\ running' = StoppedState /\ pc' = "end"
    /\ UNCHANGED <<params, cycle_count, sent, radio, clock, sig>>

Done == pc \in {"failed", "end"}

sig_handler(s) ==
    /\ ~Done /\ pc # "options" /\ s \notin sig /\ Len(sent) < MaxSent /\ sig' = sig \cup {s}
    /\ UNCHANGED <<params, pc, running, cycle_count, sent, radio, clock>>

\* The concentrator: time, a pulse, the begin and the end of an emission; the
\* program is taken to need less than Ahead from reading the counter to sending
Tick ==
    /\ running /\ ~Done /\ lbt_enable /\ now < MaxTime
    /\ pc = "send" => now + 1 < count_us
    /\ packet = "scheduled" => now < count_us
    /\ now' = now + 1
    /\ UNCHANGED <<params, pc, running, cycle_count, sent, radio, captured, sig>>

Pulse ==
    /\ running /\ ~Done /\ captured # now /\ captured' = now
    /\ UNCHANGED <<params, pc, running, cycle_count, sent, radio, now, sig>>

Emit ==
    /\ packet = "scheduled" /\ (now = count_us \/ now = MaxTime) /\ packet' = "emitting"
    /\ UNCHANGED <<params, pc, running, cycle_count, sent, count_us, GPS_EN, clock, sig>>

EmitEnd ==
    /\ packet = "emitting" /\ packet' = "free"
    /\ UNCHANGED <<params, pc, running, cycle_count, sent, count_us, GPS_EN, clock, sig>>

Main ==
    \/ \E o \in Option : \E v \in OptionValues[o] : ParseOption(o, v)
    \/ \E ok \in BOOLEAN : Configure(ok)
    \/ BeginCycle \/ CaptureOff \/ lgw_get_trigcnt
    \/ \E r \in {"taken", "busy", "error"} : lgw_send(r)
    \/ lgw_status \/ Pause \/ lgw_stop

Next == Main \/ Tick \/ Pulse \/ Emit \/ EmitEnd \/ \E s \in {"exit", "quit"} : sig_handler(s)

Spec == Init /\ [][Next]_vars
\* The program takes its steps, and the concentrator its time and its packets
FairSpec ==
    /\ Spec /\ WF_vars(Tick) /\ WF_vars(Emit) /\ WF_vars(EmitEnd)
    /\ WF_vars((pc # "options" /\ Main))

-----------------------------------------------------------------------------
\* Every variable has its type, and the parameters the program runs with were
\* accepted.
TypeOK ==
    /\ pc \in {"options", "loop", "capture", "read", "send", "status", "pause", "stop",
               "failed", "end"}
    /\ running => /\ Sane /\ params["f"] \in 30 .. 3000 /\ params["c"] \in 1 .. 4
                  /\ params["s"] \in 7 .. 12 /\ params["b"] \in {125, 250, 500}
    /\ cycle_count \in 0 .. Wrap - 1 /\ Len(sent) <= MaxSent
    /\ packet \in {"free", "scheduled", "emitting"}
    /\ count_us \in 0 .. MaxTime + Ahead /\ GPS_EN \in BOOLEAN
    /\ now \in 0 .. MaxTime /\ captured \in 0 .. now
    /\ sig \subseteq {"exit", "quit"}

\* A packet is handed over only when the one before it is done: lgw_send would
\* overwrite the packet that is emitted.
OneAtATime == [][sent' # sent => packet = "free"]_vars

\* When packets have a time, the one that is handed over lies ahead, so that it
\* is not missed, although the counter can only be read while no pulse is
\* captured; and the capture is on again.
TimeLiesAhead ==
    [][(sent' # sent /\ lbt_enable) => count_us > now /\ count_us <= now + Ahead /\ GPS_EN]_vars

\* The numbers count the packets from 1 without a gap, and no more are sent
\* than asked for as long as the number does not wrap.
Numbered ==
    /\ \A i \in 1 .. Len(sent) : sent[i] = i % Wrap
    /\ params["x"] \in 0 .. Wrap - 1 => Len(sent) <= params["x"]

\* After a signal the program ends, and unless sending failed, with the
\* concentrator stopped.
EndsOnSignal == sig # {} ~> pc = "failed" \/ (pc = "end" /\ ~running)

\* The parameters lie in the ranges that are announced: "payload size (bytes,
\* <256)", "number of channels [1..8]", "scan time in usec [...] [128, 5000]",
\* "rssi target in dBm [-128..0]" (util_tx_test.c:146, :151, :152, :153).
AnnouncedRanges ==
    running => /\ params["z"] < 256 /\ params["lbt-nbch"] \in 1 .. 8
               /\ params["lbt-sctm"] \in 128 .. 5000 /\ params["lbt-rssi"] \in -128 .. 0

\* The sequence is repeated as often as asked for ("nb of times the sequence is
\* repeated", util_tx_test.c:149).
Repeated == params["x"] >= 0 => Len(sent) <= params["x"]

\* SIGQUIT leaves the hardware as it is ("application terminates without
\* shutting down the hardware", util_tx_test.c:64).
QuitKeepsHardware == (pc = "end" /\ sig = {"quit"}) => running
=============================================================================
