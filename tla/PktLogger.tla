------------------------------- MODULE PktLogger -------------------------------
(***************************************************************************)
(* The packet logger of the concentrator (util_pkt_logger.c): the choice   *)
(* and parsing of the configuration files, the start of the concentrator,  *)
(* the loop that writes every received packet to a log file and rotates    *)
(* the file, and the end after a signal or a failed fetch.                 *)
(*                                                                         *)
(* A configuration file is a function from the sections it has (board,     *)
(* radios, channels, in the order of Order) to one of a few settings; a    *)
(* packet is its number in the order of reception, a log file the sequence *)
(* of the packets on its lines.                                            *)
(***************************************************************************)
EXTENDS Integers, Sequences, SequencesExt

CONSTANTS
    Order,          (* the sections in the order in which they are parsed  *)
    Disks,          (* the configuration files that may lie on the disk    *)
    Intervals,      (* the arguments that may be given with -r             *)
    DefaultRotate,  (* log_rotate_interval without -r: 3600                *)
    Fetch,          (* packets that one fetch returns at most: 16          *)
    Check,          (* rounds between two looks at the age of the log: 8   *)
    MaxPkts,        (* bound: packets that are received                    *)
    MaxFiles,       (* bound: log files that are opened                    *)
    MaxAge          (* bound: the clock stops at this age of a log         *)

Section == Range(Order)
\* Enabled with one or another set of parameters, disabled, not accepted by
\* the concentrator library
Setting == {"a", "b", "off", "bad"}

LoggerAssumption ==
    /\ Order # << >> /\ Order[1] = "board"
    /\ \A d \in Disks : /\ DOMAIN d \subseteq {"debug", "global", "local"}
                        /\ \A f \in DOMAIN d : /\ DOMAIN d[f].sx \subseteq Section
                                               /\ Range(d[f].sx) \subseteq Setting
    /\ Intervals \subseteq Int
    /\ {DefaultRotate, Fetch, Check, MaxFiles, MaxAge} \subseteq Nat \ {0}
    /\ MaxPkts \in Nat

VARIABLES
    disk,           (* the configuration files                             *)
    rotate,         (* log_rotate_interval                                 *)
    pc,             (* where main is                                       *)
    files,          (* the configuration files still to be read            *)
    at,             (* the section that is parsed next                     *)
    conf,           (* what the library was given for each section         *)
    lgwm,           (* the gateway's identifier                            *)
    running,        (* the concentrator runs                               *)
    arrived,        (* packets received by the concentrator                *)
    fetched,        (* and handed to the logger                            *)
    rxpkt,          (* packets fetched and not yet written                 *)
    log,            (* the log files                                       *)
    open,           (* the last of them is open                            *)
    pkt_in_log,     (* the count of its packets                            *)
    time_check,     (* rounds since the last look at its age               *)
    age,            (* now_time - log_start_time                           *)
    sig             (* the signals that came                               *)

confVars == <<disk, rotate, files, at, conf, lgwm>>
logVars == <<log, open, pkt_in_log, age>>
vars == <<confVars, logVars, pc, running, arrived, fetched, rxpkt, time_check, sig>>

\* The files that are read: the one for debugging alone, or else the global
\* one before the local one
Read(d) == IF "debug" \in DOMAIN d THEN <<"debug">>
           ELSE SelectSeq(<<"global", "local">>, LAMBDA f : f \in DOMAIN d)

Init ==
    /\ disk \in Disks /\ rotate = DefaultRotate /\ pc = "options"
    /\ files = Read(disk) /\ at = 1
    /\ conf = [s \in Section |-> "unset"] /\ lgwm = "zero"
    /\ running = FALSE /\ arrived = 0 /\ fetched = 0 /\ rxpkt = << >>
    /\ log = << >> /\ open = FALSE /\ pkt_in_log = 0 /\ age = 0
    /\ time_check = 0 /\ sig = {}

-----------------------------------------------------------------------------
\* The -r option
SetInterval(n) ==
    /\ pc = "options" /\ rotate = DefaultRotate /\ rotate' = n
    /\ pc' = IF n = 0 \/ n < -1 THEN "failed" ELSE pc
    /\ UNCHANGED <<disk, files, at, conf, lgwm, logVars, running, arrived, fetched, rxpkt,
                   time_check, sig>>

FindConfiguration ==
    /\ pc = "options"
    /\ pc' = IF files = << >> THEN "failed" ELSE "sx1301"
    /\ UNCHANGED <<confVars, logVars, running, arrived, fetched, rxpkt, time_check, sig>>

File == disk[Head(files)]

\* What is submitted for a section: the board is always set, from zero; a
\* radio or channel that the file does not mention is left alone
\* mutant: a section that is not mentioned is switched off
Submitted_Off(s) ==
    IF s \in DOMAIN File.sx THEN File.sx[s] ELSE "off"
Submitted(s) ==
    IF s \in DOMAIN File.sx THEN File.sx[s]
    ELSE IF s = "board" THEN "zero" ELSE conf[s]

\* One section of the object SX1301_conf; what the library does not accept
\* ends the object, and main goes on without looking at the result
\* mutant: the rest of the object is parsed
Continues_Always(s) == TRUE
Continues(s) == Submitted(s) # "bad"

parse_SX1301_configuration ==
    /\ pc = "sx1301"
    /\ IF ~File.valid THEN pc' = "failed" /\ UNCHANGED <<at, conf>>
       ELSE IF ~File.has_sx \/ at > Len(Order)
       THEN pc' = "gateway" /\ at' = 1 /\ conf' = conf
       ELSE IF Continues(Order[at])
       THEN /\ conf' = [conf EXCEPT ![Order[at]] = Submitted(Order[at])]
            /\ at' = at + 1 /\ pc' = pc
       ELSE pc' = "gateway" /\ at' = 1 /\ conf' = conf
    /\ UNCHANGED <<disk, rotate, files, lgwm, logVars, running, arrived, fetched, rxpkt,
                   time_check, sig>>

\* The object gateway_conf, and on to the next file
parse_gateway_configuration ==
    /\ pc = "gateway"
    /\ lgwm' = IF File.id = "none" THEN lgwm ELSE File.id
    /\ files' = Tail(files)
    /\ pc' = IF Tail(files) = << >> THEN "start" ELSE "sx1301"
    /\ UNCHANGED <<disk, rotate, at, conf, logVars, running, arrived, fetched, rxpkt,
                   time_check, sig>>

-----------------------------------------------------------------------------
\* mutant: the count goes on
Counted_On == pkt_in_log
Counted == 0

\* mutant: an earlier file of that name is written over
Opened_Over == IF Len(log) > 1 THEN Append(Tail(log), << >>) ELSE Append(log, << >>)
Opened == Append(log, << >>)

\* A file whose name holds the time, which cannot always be created
open_log(ok) ==
    /\ Len(log) < MaxFiles
    /\ IF ok THEN log' = Opened /\ open' = TRUE ELSE log' = log /\ open' = FALSE
    /\ age' = 0
    /\ pkt_in_log' = Counted

lgw_start(ok, created) ==
    /\ pc = "start"
    /\ IF ok THEN /\ running' = TRUE /\ open_log(created)
                  /\ pc' = IF created THEN "loop" ELSE "failed"
             ELSE running' = FALSE /\ pc' = "failed" /\ UNCHANGED logVars
    /\ UNCHANGED <<confVars, arrived, fetched, rxpkt, time_check, sig>>

\* The packets that are held, and those of them that fit in the array
Waiting == [i \in 1 .. arrived - fetched |-> fetched + i]
\* mutant: packets that do not fit in the array are dropped
Taken_Last == IF Len(Waiting) > Fetch THEN SubSeq(Waiting, Len(Waiting) - Fetch + 1, Len(Waiting)) ELSE Waiting
Taken == IF Len(Waiting) > Fetch THEN SubSeq(Waiting, 1, Fetch) ELSE Waiting

\* A failed fetch ends the program with the concentrator running
lgw_receive(ok) ==
    /\ pc = "loop" /\ sig = {}
    /\ IF ok THEN rxpkt' = Taken /\ fetched' = fetched + Len(Taken) /\ pc' = "write"
             ELSE UNCHANGED <<rxpkt, fetched>> /\ pc' = "failed"
    /\ UNCHANGED <<confVars, logVars, running, arrived, time_check, sig>>

\* One line, flushed
WritePacket ==
    /\ pc = "write" /\ rxpkt # << >>
    /\ log' = [log EXCEPT ![Len(log)] = Append(@, Head(rxpkt))]
    /\ rxpkt' = Tail(rxpkt) /\ pkt_in_log' = pkt_in_log + 1
    /\ UNCHANGED <<confVars, open, age, pc, running, arrived, fetched, time_check, sig>>

\* mutant: the program leaves the loop only when there was no packet
Again_Busy == "write"
Again == "loop"

\* Every Check rounds the age of the log is looked at
RotateLog(created) ==
    /\ pc = "write" /\ rxpkt = << >>
    /\ IF time_check + 1 < Check
       THEN time_check' = time_check + 1 /\ pc' = Again /\ UNCHANGED logVars
       ELSE /\ time_check' = 0
            /\ IF age > rotate
               THEN open_log(created) /\ pc' = IF created THEN Again ELSE "failed"
               ELSE pc' = Again /\ UNCHANGED logVars
    /\ UNCHANGED <<confVars, running, arrived, fetched, rxpkt, sig>>

\* mutant: SIGQUIT is obeyed first
Leave_Quit == IF "quit" \notin sig THEN "cleanup" ELSE "end"
\* mutant: the concentrator is stopped on SIGQUIT as well
Leave_Clean == "cleanup"
Leave == IF "exit" \in sig THEN "cleanup" ELSE "end"

LeaveLoop ==
    /\ pc = "loop" /\ sig # {} /\ pc' = Leave
    /\ UNCHANGED <<confVars, logVars, running, arrived, fetched, rxpkt, time_check, sig>>

\* lgw_stop always takes the library to its stopped state
lgw_stop ==
    /\ pc = "cleanup" /\ running' = FALSE /\ open' = FALSE /\ pc' = "end"
    /\ UNCHANGED <<confVars, log, pkt_in_log, age, arrived, fetched, rxpkt, time_check, sig>>

Done == pc \in {"failed", "end"}

\* SIGINT and SIGTERM, or SIGQUIT
sig_handler(s) ==
    /\ ~Done /\ pc # "options" /\ s \notin sig /\ sig' = sig \cup {s}
    /\ UNCHANGED <<confVars, logVars, pc, running, arrived, fetched, rxpkt, time_check>>

\* Packets come while the concentrator runs, also before the first fetch
Arrive ==
    /\ running /\ ~Done /\ arrived < MaxPkts /\ arrived' = arrived + 1
    /\ UNCHANGED <<confVars, logVars, pc, running, fetched, rxpkt, time_check, sig>>

Second ==
    /\ open /\ ~Done /\ age < MaxAge /\ Len(log) < MaxFiles /\ age' = age + 1
    /\ UNCHANGED <<confVars, log, open, pkt_in_log, pc, running, arrived, fetched, rxpkt,
                   time_check, sig>>

Main ==
    \/ \E n \in Intervals : SetInterval(n)
    \/ FindConfiguration \/ parse_SX1301_configuration \/ parse_gateway_configuration
    \/ \E ok, created \in BOOLEAN : lgw_start(ok, created)
    \/ \E ok \in BOOLEAN : lgw_receive(ok) \/ RotateLog(ok)
    \/ WritePacket \/ LeaveLoop \/ lgw_stop

Environment == Arrive \/ Second \/ \E s \in {"exit", "quit"} : sig_handler(s)

Next == Main \/ Environment

Spec == Init /\ [][Next]_vars
FairSpec == Spec /\ WF_vars(Main)

-----------------------------------------------------------------------------
\* Every variable has its type and the batch its bound.
TypeOK ==
    /\ disk \in Disks /\ rotate \in Intervals \cup {DefaultRotate}
    /\ pc \in {"options", "sx1301", "gateway", "start", "loop", "write", "cleanup",
               "failed", "end"}
    /\ at \in 1 .. Len(Order) + 1
    /\ \A s \in Section : conf[s] \in (Setting \ {"bad"}) \cup {"unset", "zero"}
    /\ running \in BOOLEAN /\ open \in BOOLEAN
    /\ arrived \in 0 .. MaxPkts /\ Len(rxpkt) \in 0 .. Fetch
    /\ Len(log) \in 0 .. MaxFiles /\ pkt_in_log \in 0 .. MaxPkts
    /\ time_check \in 0 .. Check - 1 /\ age \in 0 .. MaxAge
    /\ sig \subseteq {"exit", "quit"}

\* A packet that was fetched stands on exactly one line of the log files, in
\* the order of reception, whatever rotations, signals and failures come
\* between: "No packet is lost during that rotation" (readme.md of
\* util_pkt_logger).
LoggedOnceInOrder ==
    /\ LET seen == FlattenSeq(log) \o rxpkt IN \A i \in 1 .. Len(seen) : seen[i] = i
    /\ Done => rxpkt = << >>

\* The count that is reported for a file is the number of its lines.
CountTrue == open => pkt_in_log = Len(Last(log))

\* A file that was closed is not touched again: it can "be modified, uploaded
\* and/or deleted without any consequence" (readme.md of util_pkt_logger).
ClosedFilesStay ==
    [][\A i \in 1 .. Len(log) : i < Len(log') => /\ i <= Len(log) => log'[i] = log[i]]_vars

\* The sections of a file that are parsed: all before the first that the
\* library does not accept
Reached(f) ==
    IF ~disk[f].has_sx THEN {}
    ELSE {Order[i] : i \in {j \in 1 .. Len(Order) : \A k \in 1 .. j :
              Order[k] \in DOMAIN disk[f].sx => disk[f].sx[Order[k]] # "bad"}}

\* When the concentrator runs, a radio or channel has the setting of the last
\* file that has it among the sections that were parsed, and the identifier is
\* that of the last file that gives one.
LastFileWins ==
    running =>
      LET read == Read(disk)
          Latest(P(_)) == {i \in 1 .. Len(read) : P(read[i]) /\
                              \A j \in i + 1 .. Len(read) : ~P(read[j])}
      IN /\ \A s \in Section \ {"board"} :
              LET from == Latest(LAMBDA f : s \in Reached(f) /\ s \in DOMAIN disk[f].sx)
              IN \/ from = {} /\ conf[s] = "unset"
                 \/ \E i \in from : conf[s] = disk[read[i]].sx[s]
         /\ \/ \E i \in Latest(LAMBDA f : disk[f].id # "none") : lgwm = disk[read[i]].id
            \/ lgwm = "zero" /\ \A i \in 1 .. Len(read) : disk[read[i]].id = "none"

\* After SIGINT or SIGTERM the program ends, and unless something failed or
\* SIGQUIT asked otherwise, the concentrator is stopped and the log is closed.
StopsOnSignal ==
    "exit" \in sig ~> pc = "failed" \/ (pc = "end" /\ ~running /\ ~open)

\* SIGQUIT alone leaves the hardware running (util_pkt_logger.c:52,
\* "application terminates without shutting down the hardware").
QuitKeepsHardware == (pc = "end" /\ "exit" \notin sig) => running

\* With -r -1 the log is not rotated ("-1 disable log rotation",
\* util_pkt_logger.c:372).
RotationOff == rotate = -1 => Len(log) <= 1

\* A parameter that only the global file has keeps its value: the local file
\* overwrites the "global parameters for parameters that are defined in both"
\* (util_pkt_logger.c:390).
GlobalKept ==
    (running /\ Read(disk) = <<"global", "local">> /\ "board" \in DOMAIN disk["global"].sx
        /\ "board" \notin DOMAIN disk["local"].sx)
      => conf["board"] = disk["global"].sx["board"]
=============================================================================
