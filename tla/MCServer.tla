----------------------------- MODULE MCServer ------------------------------
(***************************************************************************)
(* The parts of the server beside the MAC's tables, side by side: its main *)
(* thread, the queue from the gateways, the phases of the MAC, the         *)
(* statistics and the weather data.  They share no variable, so that a     *)
(* behaviour of the program, seen from one part, is one of that part       *)
(* alone: `part' is the part that moves, and the others stand where they   *)
(* started.                                                                *)
(***************************************************************************)
EXTENDS ServerMain, TLC

CONSTANTS Parts,  \* the parts to be checked
          None

VARIABLES
    part,  \* the part a behaviour is of
    pqHead, pqTail, pqSize, pqPkt, pqNext, pqLive, pqFlag, pqProdPc, pqMsg,
    pqConsPc, pqGot,
    phPhase, phPc, phPhaseTransRequest, phPhaseTransCount, phNumber,
    phSch2Sslot, phRNL, phHeld, phToAdd, phMessage, phElapsed, phGap,
    phLatest, phTaken,
    stNodes, stTodo, stAt, stSeq, stFrames, stHeard, stTotal, stRestarts,
    stRegs, stMissed, stFresh,
    weRaw, weMeta, weCopy, weI, weSent, weUpdates, weAge

pqVars == <<pqHead, pqTail, pqSize, pqPkt, pqNext, pqLive, pqFlag, pqProdPc,
            pqMsg, pqConsPc, pqGot>>
phVars == <<phPhase, phPc, phPhaseTransRequest, phPhaseTransCount, phNumber,
            phSch2Sslot, phRNL, phHeld, phToAdd, phMessage, phElapsed, phGap,
            phLatest, phTaken>>
stVars == <<stNodes, stTodo, stAt, stSeq, stFrames, stHeard, stTotal,
            stRestarts, stRegs, stMissed, stFresh>>
weVars == <<weRaw, weMeta, weCopy, weI, weSent, weUpdates, weAge>>
-----------------------------------------------------------------------------
\* Values at and outside the bounds of some options
SomeChoices == [n |-> {0}, u |-> {320}, d |-> {}, c |-> {8}]
\* One node registers twice
Registrations == ("n1" :> 2) @@ ("n2" :> 1) @@ ("n3" :> 1)
IntervalLength == ("init" :> 3) @@ ("schedule" :> 1) @@ ("data" :> 2)

\* The queue of packets from the gateways.
Inbound == INSTANCE PktHandoff WITH
    Cells <- 1 .. 3, NULL <- None, PKT_QUEUE_MAX <- 2,
    Msgs <- {"a", "b", "c"}, NoMsg <- None, EnqueuesUnderLock <- TRUE,
    DrainsQueue <- TRUE, head <- pqHead, tail <- pqTail, size <- pqSize,
    pkt <- pqPkt, next <- pqNext, live <- pqLive, flag <- pqFlag,
    prodPc <- pqProdPc, msg <- pqMsg, consPc <- pqConsPc, got <- pqGot

\* The phases of the MAC, from the data collection the program starts in and
\* from the network initialisation its source begins with.
Phases == INSTANCE MacPhases WITH
    FirstPhases <- {"data", "init"}, Period <- 2, MaxInRnl <- 2, Slots <- 2,
    Relays <- {0, 2}, Length <- IntervalLength, Sch2Slot <- 1,
    WorkTimes <- {1, 3}, Usec <- 64, Counter <- 4, Byte <- 4,
    Nodes <- {"n1", "n2", "n3"}, NoNode <- None, MaxRegs <- Registrations,
    phase <- phPhase,
    pc <- phPc, phaseTransRequest <- phPhaseTransRequest,
    phaseTransCount <- phPhaseTransCount, number <- phNumber,
    sch2Sslot <- phSch2Sslot, RNL <- phRNL, held <- phHeld,
    toAdd <- phToAdd, message <- phMessage, elapsed <- phElapsed,
    gap <- phGap, latest <- phLatest, taken <- phTaken

\* The statistics of one two-hop node that one gateway hears.
Stats == INSTANCE DataStats WITH
    Node <- {"two"}, Types <- [a \in {"two"} |-> {"Twohop"}], Limit <- 2,
    Wrap <- 9, Gateways <- 1, MaxSent <- 3, MaxRestarts <- 1, MaxRegs <- 2,
    nodes <- stNodes, todo <- stTodo, at <- stAt, seq <- stSeq,
    frames <- stFrames, heard <- stHeard, total <- stTotal,
    restarts <- stRestarts, regs <- stRegs, missed <- stMissed,
    fresh <- stFresh

\* The weather data of three nodes: one payload of theirs is virtual, one
\* names a device beyond the table.
Weather == INSTANCE WeatherData WITH
    Index <- 3, Reporter <- 1 .. 3, DeviceId <- {1, 6, 9}, Virtual <- 9,
    Limit <- 2, MaxUpdates <- 2, raw <- weRaw, meta <- weMeta,
    copy <- weCopy, i <- weI, sent <- weSent, updates <- weUpdates,
    age <- weAge

-----------------------------------------------------------------------------
ASSUME PartsAssumption ==
    /\ Inbound!HandoffAssumption
    /\ Phases!PhasesAssumption
    /\ Stats!StatsAssumption
    /\ Weather!WeatherAssumption

\* All parts start; the one of the behaviour may start in any way, the
\* others in one.
BenchInit ==
    /\ part \in Parts
    /\ Init
    /\ Inbound!Init
    /\ Phases!Init
    /\ Stats!Init
    /\ Weather!Init

BenchNext ==
    /\ UNCHANGED part
    /\ \/ part = "main" /\ Next
       \/ part = "inbound" /\ Inbound!Next
       \/ part = "phases" /\ Phases!Next
       \/ part = "stats" /\ Stats!Next
       \/ part = "weather" /\ Weather!Next
    /\ part # "main" => UNCHANGED vars
    /\ part # "inbound" => UNCHANGED pqVars
    /\ part # "phases" => UNCHANGED phVars
    /\ part # "stats" => UNCHANGED stVars
    /\ part # "weather" => UNCHANGED weVars

BenchSpec ==
    /\ BenchInit /\ [][BenchNext]_<<part, vars, pqVars, phVars, stVars, weVars>>
    /\ WF_vars(part = "main" /\ \E ok \in BOOLEAN : OpenFirst(ok))
    /\ WF_vars(part = "main" /\ (Start \/ Stop \/ CloseLog \/ Return))
    /\ WF_vars(part = "main" /\ ~Ended /\ Mac)
    /\ WF_phVars(part = "phases" /\ Phases!phaseHandlerThread)
    /\ WF_stVars(part = "stats" /\ Stats!CheckMissed)
    /\ WF_stVars(part = "stats" /\ Stats!Connect("two"))
    /\ WF_weVars(part = "weather" /\ Weather!AppParseData)
-----------------------------------------------------------------------------
(* The server announces the options it uses itself, holds one log file open, *)
(* replaces none early, and ends after a signal.                             *)
ServerEnds ==
    /\ [](part = "main" => TypeOK /\ AnnouncedIsUsed /\ OneFileOpen)
    /\ NotEarly
    /\ part = "main" => EndsOnSignal

(* The queue of packets from the gateways is a bounded first-in first-out    *)
(* channel, although the tests for a full and an empty queue and the changes  *)
(* are separate critical sections and the consumer empties it in one go.      *)
QueueIsFifo == Inbound!ImplementsFifo /\ [](part = "inbound" => Inbound!PointersSound)

(* The phases of the MAC: the end of one is announced in each of its last    *)
(* messages, numbered down.  Registrations are taken over one by one while   *)
(* nodes register, also again: none is lost, taken twice or undoes a later   *)
(* one, and a message names just those it counts.  The data collection waits *)
(* for all relays of the schedule messages; messages of a phase are an       *)
(* interval apart.  A request is met, and a node that waits is taken over.   *)
PhasesKept ==
    /\ [](part = "phases" =>
             /\ Phases!TypeOK /\ Phases!AnnouncedDown
             /\ Phases!NoneLost /\ Phases!NewestLast /\ Phases!RnlComplete
             /\ Phases!RelaysInTurn /\ Phases!IntervalKept)
    /\ Phases!EndsWithOne
    /\ part = "phases" => Phases!RequestIsMet
    /\ part = "phases" => Phases!WaitingAreTaken

(* The printed statistics: frames are counted once each, over two ways, over *)
(* losses and over a restart of the node; a node that falls silent is seen   *)
(* to.                                                                       *)
StatisticsTrue ==
    /\ [](part = "stats" =>
             /\ Stats!TypeOK /\ Stats!SharesAtMost100
             /\ Stats!TotalCounted /\ Stats!LinksCounted)
    /\ part = "stats" => Stats!SilenceIsSeen

(* What is shown of the weather: each payload once it is parsed, never an    *)
(* older one than before, with its age; the message to the database is well  *)
(* formed.  A node that no longer reports is outdated in the end.            *)
WeatherShown ==
    /\ [](part = "weather" =>
             /\ Weather!TypeOK /\ Weather!LevelIsAge
             /\ Weather!NewestShown /\ Weather!MessageWellFormed)
    /\ Weather!NeverBack
    /\ part = "weather" => Weather!OutdatedInTheEnd
=============================================================================
