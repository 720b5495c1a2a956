------------------------------ MODULE MCTools ------------------------------
(***************************************************************************)
(* Reception from the concentrator and the two utilities on it, side by    *)
(* side: lgw_receive, the packet logger and the transmission test.  They   *)
(* share no variable: `part' is the part that moves, and the others stand  *)
(* where they started.                                                     *)
(***************************************************************************)
EXTENDS LgwReceive, TLC

CONSTANT Parts  \* the parts to be checked

VARIABLES
    part,  \* the part a behaviour is of
    tiArrived, tiAired, tiFifo, tiFetched, tiFaults,
    loDisk, loRotate, loPc, loFiles, loAt, loConf, loLgwm, loRunning,
    loArrived, loFetched, loRxpkt, loLog, loOpen, loPkt_in_log, loTime_check,
    loAge, loSig,
    txParams, txPc, txRunning, txCycle_count, txSent, txPacket, txCount_us,
    txGPS_EN, txNow, txCaptured, txSig

tiVars == <<tiArrived, tiAired, tiFifo, tiFetched, tiFaults>>
loVars == <<loDisk, loRotate, loPc, loFiles, loAt, loConf, loLgwm, loRunning,
            loArrived, loFetched, loRxpkt, loLog, loOpen, loPkt_in_log,
            loTime_check, loAge, loSig>>
txVars == <<txParams, txPc, txRunning, txCycle_count, txSent, txPacket,
            txCount_us, txGPS_EN, txNow, txCaptured, txSig>>
-----------------------------------------------------------------------------
\* Every modem; every spreading factor, the sizes around the edges of the
\* formula, and a stamp that has wrapped.
Pkt(m, f, r, z, c, s) == [modem |-> m, sf |-> f, cr |-> r, size |-> z, crc |-> c, stamp |-> s]

FifoPackets == {Pkt("multi", 12, 1, 20, "ok", 0), Pkt("std", 7, 1, 255, "bad", 40000),
              Pkt("fsk", 0, 0, 9, "none", 5)}

TimedPackets == {Pkt(m, f, r, z, c, s) : m \in {"multi", "std"}, f \in 7 .. 12, r \in {1, 4},
                z \in {3, 4, 20, 255}, c \in {"ok", "none"}, s \in {7, 100000}}

FileOrder == <<"board", "radio", "multi">>
NoFile == [s \in {} |-> "a"]
\* Full files, one whose radio is not accepted, one that only switches a
\* channel off, one without the object, one that is not JSON
Full(x, i) == [valid |-> TRUE, has_sx |-> TRUE, id |-> i, sx |-> [s \in Range(FileOrder) |-> x]]
BadRadio == [Full("a", "g") EXCEPT !.sx["radio"] = "bad"]
OneOff == [Full("a", "none") EXCEPT !.sx = [s \in {"multi"} |-> "off"]]
NoObject == [Full("a", "l") EXCEPT !.has_sx = FALSE]
NotJson == [Full("a", "none") EXCEPT !.valid = FALSE]
File1 == {Full("a", "g"), BadRadio, NotJson}
File2 == {Full("b", "l"), OneOff, NoObject}

FileSets ==
    {NoFile} \cup {[d \in {"debug", "global"} |-> IF d = "debug" THEN OneOff ELSE BadRadio]}
    \cup [{"local"} -> {OneOff}]
    \cup UNION {{[d \in {"global", "local"} |-> IF d = "global" THEN g ELSE l] : l \in File2}
                   : g \in File1}

Options == {"f", "r", "n", "b", "s", "c", "p", "l", "z", "t", "x", "k", "d", "lbt-freq",
            "lbt-sctm", "lbt-rssi", "lbt-rssi-offset", "lbt-nbch"}
\* Values inside and outside the ranges
SomeValues == [o \in Options |->
    CASE o = "f" -> {29, 868} [] o = "r" -> {1255, 1300} [] o = "c" -> {0, 4}
      [] o = "x" -> {-2, 2} [] o = "lbt-freq" -> {868, 3001} [] o = "lbt-sctm" -> {-1, 128}
      [] OTHER -> {}]

\* One packet of every kind, for the timestamps.
Timed == INSTANCE LgwReceive WITH
    FifoDepth <- 1, Packets <- TimedPackets, StdBw <- 250000, FskDr <- 50000,
    MaxPkt <- {1, 8}, Width <- 30, MaxArrivals <- 1, MaxFaults <- 0,
    arrived <- tiArrived, aired <- tiAired, fifo <- tiFifo,
    fetched <- tiFetched, faults <- tiFaults

\* The packet logger: eleven sets of configuration files.
Logger == INSTANCE PktLogger WITH
    Order <- FileOrder, Disks <- FileSets, Intervals <- {-2, 0, 2},
    DefaultRotate <- 1, Fetch <- 2, Check <- 2, MaxPkts <- 3, MaxFiles <- 3,
    MaxAge <- 3, disk <- loDisk, rotate <- loRotate, pc <- loPc,
    files <- loFiles, at <- loAt, conf <- loConf, lgwm <- loLgwm,
    running <- loRunning, arrived <- loArrived, fetched <- loFetched,
    rxpkt <- loRxpkt, log <- loLog, open <- loOpen,
    pkt_in_log <- loPkt_in_log, time_check <- loTime_check, age <- loAge,
    sig <- loSig

\* The transmission test: six options, with and without listening before
\* talking.
Test == INSTANCE TxTest WITH
    OptionValues <- SomeValues, Wrap <- 4, Ahead <- 2, MaxSent <- 3,
    MaxTime <- 4, params <- txParams, pc <- txPc, running <- txRunning,
    cycle_count <- txCycle_count, sent <- txSent, packet <- txPacket,
    count_us <- txCount_us, GPS_EN <- txGPS_EN, now <- txNow,
    captured <- txCaptured, sig <- txSig

-----------------------------------------------------------------------------
ASSUME PartsAssumption ==
    /\ Timed!ReceiveAssumption
    /\ Logger!LoggerAssumption
    /\ Test!TxTestAssumption

\* All parts start; the one of the behaviour may start in any way, the
\* others in one.
BenchInit ==
    /\ part \in Parts
    /\ Init
    /\ Timed!Init
    /\ Logger!Init /\ (part # "logger" => loDisk = NoFile)
    /\ Test!Init

BenchNext ==
    /\ UNCHANGED part
    /\ \/ part = "receive" /\ Next
       \/ part = "times" /\ Timed!Next
       \/ part = "logger" /\ Logger!Next
       \/ part = "txtest" /\ Test!Next
    /\ part # "receive" => UNCHANGED vars
    /\ part # "times" => UNCHANGED tiVars
    /\ part # "logger" => UNCHANGED loVars
    /\ part # "txtest" => UNCHANGED txVars

BenchSpec ==
    /\ BenchInit /\ [][BenchNext]_<<part, vars, tiVars, loVars, txVars>>
    /\ WF_vars(part = "receive" /\ \E max \in MaxPkt : lgw_receive(max))
    /\ WF_loVars(part = "logger" /\ Logger!Main)
    /\ WF_txVars(part = "txtest" /\ Test!Tick) /\ WF_txVars(part = "txtest" /\ Test!Emit)
    /\ WF_txVars(part = "txtest" /\ Test!EmitEnd)
    /\ WF_txVars(part = "txtest" /\ txPc # "options" /\ Test!Main)
-----------------------------------------------------------------------------
(* Abandoned fetches leave no packet in the FIFO for ever, and every packet  *)
(* of more than two bytes has the time of its end, also across a wrap of the *)
(* counter.                                                                  *)
FetchedWithTime ==
    /\ [](part = "receive" => TypeOK)
    /\ [](part = "times" => Timed!TimestampRight)
    /\ part = "receive" => FifoDrained

(* The logger: each fetched packet is on one line, in order, over rotations, *)
(* signals and failures; the reported count is that of the lines; a closed   *)
(* file is left alone; the last file that sets a channel wins; a signal ends *)
(* the program, with the concentrator as it was asked to leave it.           *)
LoggerSound ==
    /\ [](part = "logger" =>
             /\ Logger!TypeOK /\ Logger!LoggedOnceInOrder /\ Logger!CountTrue
             /\ Logger!LastFileWins /\ Logger!QuitKeepsHardware)
    /\ Logger!ClosedFilesStay
    /\ part = "logger" => Logger!StopsOnSignal

(* The transmission test: one packet at a time, numbered without a gap and   *)
(* no more than asked for; a timed packet lies ahead; a signal ends the      *)
(* program.                                                                  *)
TxTestSound ==
    /\ [](part = "txtest" => Test!TypeOK /\ Test!Numbered)
    /\ Test!OneAtATime /\ Test!TimeLiesAhead
    /\ part = "txtest" => Test!EndsOnSignal
=============================================================================
