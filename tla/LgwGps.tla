-------------------------------- MODULE LgwGps --------------------------------
(***************************************************************************)
(* The GPS part of the concentrator library (loragw_gps.c) as the loop of  *)
(* test_loragw_gps.c drives it.  Once a second the GPS module gives a      *)
(* pulse, at which the concentrator latches its counter, and sends a burst *)
(* of sentences that tell the time of that pulse; the host reads them when *)
(* it gets to it.  The parsers write file variables that lgw_gps_get reads,*)
(* and each UBX time sentence makes a point (counter, UTC, native time)    *)
(* for lgw_gps_sync, which drops points that are aberrant against the      *)
(* reference and starts anew at the third in a row.                        *)
(*                                                                         *)
(* Days, weeks and seconds are short: a day is Day seconds, a second is    *)
(* Cps counts, the counter has CntMod values (2^32 in the program, where   *)
(* it wraps after 71 minutes and within a second).  UTC and native time    *)
(* have the same origin (no leap seconds).                                 *)
(* A slope between two points is in range when it is exactly 1: 10 ppm are *)
(* less than a count.  Sentences are records of what they say; their       *)
(* checksums and fields are in Codings.                                    *)
(***************************************************************************)
EXTENDS Integers, Sequences

CONSTANTS
    Bursts,     (* what the module may send for one pulse: sequences of     *)
                (* [k: sentence, q: quality]                                *)
    Cps, Sub,   (* counts in a second; the fraction at which pulses come    *)
    Day, Epoch, (* seconds of a day; the time of the start                  *)
    CntMod,     (* values of the counter                                    *)
    MaxPulses,  (* pulses of a behaviour                                    *)
    MaxLine,    (* sentences the serial line holds                          *)
    None        (* no result yet                                            *)

Kinds == {"RMC", "GGA", "UBX", "other"}
Qualities == {"fix", "nofix", "nodate", "empty", "partial", "both", "week", "tow", "none", "bad"}

\* The module sends one native time a second at most (ubx_cmd_timegps)
GpsAssumption ==
    /\ {Cps, Day, CntMod, MaxPulses, MaxLine} \subseteq Nat \ {0}
    /\ Sub \in 0 .. (Cps - 1)
    /\ Epoch \in Nat
    /\ Bursts \subseteq Seq([k : Kinds, q : Qualities])
    /\ \A b \in Bursts : \A i, j \in DOMAIN b : b[i].k = "UBX" /\ b[j].k = "UBX" => i = j

VARIABLES
    now,        (* the pulses so far                                        *)
    line,       (* sentences sent and not read                              *)
    port,       (* the serial port: closed, open (by lgw_gps_enable)        *)
    ubxOn,      (* the module was told to send native time                  *)
    result,     (* what the last library call returned                      *)
    utcP,       (* gps_yea .. gps_sec: day and second                       *)
    gpsP,       (* gps_week, gps_iTOW, as week (of Day seconds) and second  *)
    timeOk,     (* gps_time_ok                                              *)
    pos,        (* latitude, longitude, altitude: the pulse each is of      *)
    posOk,      (* gps_pos_ok                                               *)
    ref,        (* the struct tref of the host                              *)
    aber,       (* <<aber_min1, aber_min2>>                                 *)
    run         (* points in a row that were right, that were wrong; a      *)
                (* point in range came since the last reset; the pulse the  *)
                (* reference is of                                          *)

gpsVars == <<utcP, gpsP, timeOk>>
posVars == <<pos, posOk>>
syncVars == <<ref, aber, run>>
vars == <<now, line, port, ubxOn, result, utcP, gpsP, timeOk, pos, posOk, ref, aber, run>>

-----------------------------------------------------------------------------
(* Time: a second since the origin, and the counter that goes with it.      *)

\* mutant: the counter is kept as a wider number
Cnt_Wide(ticks) == ticks

\* The counter at a count since the origin
Cnt(ticks) == ticks % CntMod

\* What the pulse of second s latches
PulseCnt(s) == Cnt((s * Cps) + Sub)

Second(p) == (p.day * Day) + p.sec
Split(s) == [day |-> s \div Day, sec |-> s % Day]

Init ==
    /\ now = Epoch /\ line = <<>>
    /\ port = "closed" /\ ubxOn = FALSE /\ result = None
    /\ utcP = Split(0) /\ gpsP = Split(0) /\ timeOk = FALSE
    /\ pos = [lat |-> 0, lon |-> 0, alt |-> 0] /\ posOk = FALSE
    /\ ref = [systime |-> 0, cnt |-> 0, utc |-> 0, gps |-> 0, xtal |-> 0]
    /\ aber = <<FALSE, FALSE>>
    /\ run = [right |-> 0, wrong |-> 0, firm |-> FALSE, of |-> 0]

-----------------------------------------------------------------------------
(* The serial port                                                          *)

\* The port opens or does not; its attributes can be read and set or not;
\* the command that turns native time on is written or not, which the
\* result does not tell.  A failure after open leaves the port open.
lgw_gps_enable ==
    /\ port = "closed"
    /\ \/ /\ result' = "error"                      \* open fails
          /\ UNCHANGED <<port, ubxOn, timeOk, posOk, line>>
       \/ /\ port' = "open" /\ result' = "error"    \* the attributes fail
          /\ UNCHANGED <<ubxOn, timeOk, posOk, line>>
       \/ /\ port' = "open" /\ result' = "success"
          /\ ubxOn' \in {ubxOn, TRUE}
          /\ timeOk' = FALSE /\ posOk' = FALSE /\ line' = <<>>
    /\ UNCHANGED <<now, utcP, gpsP, pos, syncVars>>

\* close() returns 0 when it succeeds, and the test is i <= 0
lgw_gps_disable ==
    /\ port = "open"
    /\ \/ /\ result' = "error"                      \* tcsetattr fails
          /\ UNCHANGED <<port, line>>
       \/ \E i \in {0, -1} :
             /\ port' = IF i = 0 THEN "closed" ELSE "open"
             /\ line' = <<>>
             /\ result' = IF i <= 0 THEN "error" ELSE "success"
    /\ UNCHANGED <<now, ubxOn, gpsVars, posVars, syncVars>>

-----------------------------------------------------------------------------
(* The GPS module                                                           *)

\* The sentences of the pulse t
Stamped(b, t) == [i \in DOMAIN b |-> [k |-> b[i].k, q |-> b[i].q, t |-> t]]

\* A pulse and its sentences.  Native time is sent only when asked for.
Pulse ==
    /\ now < Epoch + MaxPulses
    /\ \E b \in Bursts :
          /\ ubxOn \/ \A i \in DOMAIN b : b[i].k # "UBX"
          /\ Len(line) + Len(b) <= MaxLine
          /\ line' = IF port = "open" THEN line \o Stamped(b, now + 1) ELSE line
    /\ now' = now + 1
    /\ UNCHANGED <<port, ubxOn, result, gpsVars, posVars, syncVars>>

-----------------------------------------------------------------------------
(* The parsers                                                              *)

Read(k) == port = "open" /\ line # <<>> /\ Head(line).k = k /\ line' = Tail(line)

\* lgw_parse_nmea, RMC: a fix, no fix with an estimated time, a time without
\* a date, or neither.  What sscanf converts is stored in any case.
ParseRmc ==
    /\ Read("RMC")
    /\ LET m == Head(line) d == Split(m.t) IN
       /\ utcP' = CASE m.q \in {"fix", "nofix"} -> d
                    [] m.q = "nodate" -> [utcP EXCEPT !.sec = d.sec]
                    [] OTHER -> utcP
       /\ timeOk' = (m.q = "fix")
    /\ UNCHANGED <<now, port, ubxOn, result, gpsP, posVars, syncVars>>

\* mutant: sentences without all coordinates leave the mark as it was
ParseGga_Kept ==
    /\ Read("GGA")
    /\ LET m == Head(line) IN
       /\ pos' = IF m.q = "fix" THEN [lat |-> m.t, lon |-> m.t, alt |-> m.t]
                 ELSE [pos EXCEPT !.lat = m.t, !.lon = m.t]
       /\ posOk' = (posOk \/ m.q = "fix")
    /\ UNCHANGED <<now, port, ubxOn, result, gpsVars, syncVars>>

\* lgw_parse_nmea, GGA: all three coordinates, or no altitude
ParseGga ==
    /\ Read("GGA")
    /\ LET m == Head(line) IN
       /\ pos' = IF m.q = "fix" THEN [lat |-> m.t, lon |-> m.t, alt |-> m.t]
                 ELSE [pos EXCEPT !.lat = m.t, !.lon = m.t]
       /\ posOk' = (m.q = "fix")
    /\ UNCHANGED <<now, port, ubxOn, result, gpsVars, syncVars>>

\* lgw_parse_ubx: the week or the time of week alone is enough to be taken
\* for valid, with whatever the other field says
Native(m) ==
    CASE m.q = "both" -> Split(m.t)
      [] m.q = "week" -> [Split(m.t) EXCEPT !.sec = 0]
      [] m.q = "tow"  -> [Split(m.t) EXCEPT !.day = 0]
      [] OTHER -> gpsP

-----------------------------------------------------------------------------
(* Synchronisation                                                          *)

\* The slope against the reference is in range.  The count difference wraps.
InRange(point) ==
    LET cnt_diff == (point.cnt - ref.cnt) % CntMod
        utc_diff == (point.utc - ref.utc) * Cps
    IN  utc_diff # 0 /\ cnt_diff = utc_diff

\* The reference a point becomes: a point in range gives its slope, a reset
\* keeps the one there is unless it is out of range
Adopt(point, inRange) ==
    [systime |-> 1, cnt |-> point.cnt, utc |-> point.utc, gps |-> point.gps,
     xtal |-> IF inRange \/ ref.xtal # 1 THEN 1 ELSE ref.xtal]

\* mutant: two aberrant points in a row are enough for a reset
ThirdAberrant_Second == aber[1]

\* mutant: one more point is waited for when the last reference was kept
ThirdAberrant_Never == aber[1] /\ ~aber[2]

\* The reset: this point and the two before it were aberrant
ThirdAberrant == aber[1] /\ aber[2]

\* The UTC of a point is that of its counter, of the latest pulse.  Native time is not
\* compared: it is adopted with the UTC, whatever it is.
Right(point) == point.utc = now

lgw_gps_sync(point) ==
    /\ aber' = <<~InRange(point), aber[1]>>
    /\ IF InRange(point) \/ ThirdAberrant
          THEN ref' = Adopt(point, InRange(point)) /\ result' = "success"
          ELSE ref' = ref /\ result' = "error"
    /\ LET next(n, counts) == IF ~counts THEN 0 ELSE IF n < 3 THEN n + 1 ELSE 3
       IN  run' = [right |-> next(run.right, Right(point)),
                   wrong |-> next(run.wrong, ~Right(point)),
                   firm  |-> InRange(point) \/ (run.firm /\ ~ThirdAberrant),
                   of    |-> IF InRange(point) \/ ThirdAberrant THEN now ELSE run.of]

\* A UBX time sentence, and gps_process_sync of the host: lgw_gps_get, the
\* counter of the latest pulse, lgw_gps_sync
ParseUbx ==
    /\ Read("UBX")
    /\ LET m == Head(line) IN
       /\ gpsP' = Native(m)
       /\ timeOk' = (m.q # "none")
       /\ IF timeOk'
             THEN lgw_gps_sync([cnt |-> PulseCnt(now), utc |-> Second(utcP), gps |-> Second(gpsP')])
             ELSE result' = "error" /\ UNCHANGED syncVars
    /\ UNCHANGED <<now, port, ubxOn, utcP, posVars>>

\* A frame with a bad checksum, a wrong number of fields, or another label
Ignore ==
    /\ port = "open" /\ line # <<>> /\ Head(line).k = "other" /\ line' = Tail(line)
    /\ UNCHANGED <<now, port, ubxOn, result, gpsVars, posVars, syncVars>>

Next ==
    \/ lgw_gps_enable \/ lgw_gps_disable
    \/ Pulse
    \/ ParseRmc \/ ParseGga \/ ParseUbx \/ Ignore

Spec == Init /\ [][Next]_vars

-----------------------------------------------------------------------------
(* The conversions, in counts                                               *)

RefSet == ref.systime # 0 /\ ref.xtal = 1

\* mutant: the nanoseconds carry no second
Carry_None(sec, sub) == [sec |-> sec, sub |-> sub % Cps]

\* The fraction overflows by at most one second
Carry(sec, sub) ==
    IF sub < Cps THEN [sec |-> sec, sub |-> sub] ELSE [sec |-> sec + 1, sub |-> sub - Cps]

\* lgw_cnt2utc; lgw_cnt2gps does the same with ref.gps
CntTo(base, count_us) ==
    LET delta == (count_us - ref.cnt) % CntMod
    IN  Carry(base + (delta \div Cps), Sub + (delta % Cps))
lgw_cnt2utc(count_us) == CntTo(ref.utc, count_us)
lgw_cnt2gps(count_us) == CntTo(ref.gps, count_us)

\* lgw_utc2cnt; lgw_gps2cnt does the same with ref.gps
ToCnt(base, t) == (ref.cnt + (((t.sec - base) * Cps) + (t.sub - Sub))) % CntMod
lgw_utc2cnt(t) == ToCnt(ref.utc, t)
lgw_gps2cnt(t) == ToCnt(ref.gps, t)

-----------------------------------------------------------------------------
TypeOK ==
    /\ now \in Epoch .. (Epoch + MaxPulses)
    /\ line \in Seq([k : Kinds, q : Qualities, t : Epoch .. now]) /\ Len(line) <= MaxLine
    /\ port \in {"closed", "open"} /\ ubxOn \in BOOLEAN
    /\ result \in {None, "success", "error"}
    /\ utcP \in [day : Nat, sec : 0 .. (Day - 1)] /\ gpsP \in [day : Nat, sec : 0 .. (Day - 1)]
    /\ timeOk \in BOOLEAN /\ posOk \in BOOLEAN
    /\ pos \in [lat : Nat, lon : Nat, alt : Nat]
    /\ ref \in [systime : {0, 1}, cnt : 0 .. (CntMod - 1), utc : Nat, gps : Nat, xtal : {0, 1}]
    /\ aber \in [1 .. 2 -> BOOLEAN]
    /\ run \in [right : 0 .. 3, wrong : 0 .. 3, firm : BOOLEAN, of : 0 .. now]

\* A position lgw_gps_get may return has its three coordinates from one
\* sentence (gps_pos_ok, loragw_gps.c:582-590).
PosFromOneSentence == posOk => pos.lat = pos.lon /\ pos.lon = pos.alt

\* The UTC of the reference is that of its counter
RefTrue == RefSet /\ ref.utc = run.of

\* Three right points in a row, whatever came before them, leave a true
\* reference: the first two may be dropped as aberrant, the third resets
\* (loragw_gps.c:694-727).
RecoversInThree == run.right = 3 => RefTrue

\* One or two wrong points in a row cost nothing: a true reference that a
\* second point has confirmed is lost only to a third, or after a pause in
\* which the counter wrapped.  (The two marks stay set at a reset: the point
\* after it is accepted whatever it is, loragw_gps.c:707-721.)
KeptThroughTwo ==
    [][(RefTrue /\ run.firm /\ ~RefTrue') => (run'.wrong = 3 \/ (now - ref.utc) * Cps >= CntMod)]_vars

\* A packet stamped since the reference converts to its true UTC and back,
\* for as long as the counter has not wrapped; the way to native time and
\* back returns to where it began.
StampRight ==
    RefTrue =>
        \A d \in 0 .. (CntMod - 1) :
            LET true == (ref.utc * Cps) + Sub + d
                t    == [sec |-> true \div Cps, sub |-> true % Cps]
            IN  /\ lgw_cnt2utc(Cnt(true)) = t /\ lgw_utc2cnt(t) = Cnt(true)
                /\ lgw_gps2cnt(lgw_cnt2gps(Cnt(true))) = Cnt(true)

\* What a reader of loragw_gps.h:185-187 expects: "when a packet is received"
\* its counter value converts to the time it was received, also when the
\* reference was renewed between the reception and the conversion.
EarlyStampRight ==
    RefTrue =>
        \A d \in 1 .. Cps :
            LET true == ((ref.utc * Cps) + Sub) - d
            IN  lgw_cnt2utc(Cnt(true)) = [sec |-> true \div Cps, sub |-> true % Cps]

\* loragw_gps.h:173: "Set systime to 0 in ref to trigger initial
\* synchronization", so that the first point sets the reference.
FirstSyncSucceeds ==
    [][(ref.systime = 0 /\ run' # run) => result' = "success"]_vars

\* loragw_gps.h:114: lgw_gps_disable returns "success if the function was
\* able to complete".
ClosedIsSuccess == [][(port = "open" /\ port' = "closed") => result' = "success"]_vars

\* loragw_gps.h:106: lgw_gps_enable returns "success if the function was able
\* to connect and configure a GPS module".
EnabledIsConfigured == [][(port = "closed" /\ port' = "open" /\ result' = "success") => ubxOn']_vars

\* loragw_gps.c:394: "iTOW, fTOW and week validity" is what one flag stands
\* for, so a reference has a native time that a sentence told.
NativeIsValid == RefSet => ref.gps \in Epoch .. now

\* lgw_gps_get returns "success if the chosen elements could be returned"
\* (loragw_gps.h:154): UTC that no sentence told cannot be returned, and so
\* is no part of a reference.
UtcWasTold == RefSet => ref.utc \in Epoch .. now
=============================================================================
