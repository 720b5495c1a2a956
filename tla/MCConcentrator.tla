-------------------------- MODULE MCConcentrator ---------------------------
(***************************************************************************)
(* The parts of the concentrator library, side by side: register access,   *)
(* configuration, listen before talk, transmission, the radios and GPS     *)
(* time.  They share no variable: `part' is the part that moves, and the   *)
(* others stand where they started.                                        *)
(***************************************************************************)
EXTENDS LgwReg, TLC

CONSTANTS Parts,  \* the parts to be checked
          Nil,
          \* of the configuration and start
          RfChains, MultiChains, StdChain, FskChain, RfConfs, IfConfs,
          LutConfs, LutMax, DefaultLut, Lbt, Restart, GainAtRun, FwFaults,
          \* of listen before talk
          LbtConfigs, StartFreq, ChannelNb, Grain, Wrap, Margin, MaxLong,
          MaxShort, MaxShort2, TxStartDelay, LbtFreqs, Leads, Durations,
          MaxBusy, MaxRequests,
          \* of GPS time
          TimeBursts, PosBursts, Cps, Sub, Day, Epoch, CntMod, MaxPulses,
          PosTime, MaxLine

VARIABLES
    part,  \* the part a behaviour is of
    haRf, haIfc, haSfmask, haStd, haFsk, haLut, haStarted, haPc, haChip,
    lbConf, lbFpga, lbRunning, lbNow, lbAge, lbVerdict, lbRequests,
    seCount, seDelay, seGain, seBuffer, seTrigger, seAir, seCall, seSends,
    seAccepted, seLast,
    saConf, saSpi, saRadio, saChain, saTodo, saPll, saAttempts, saResult,
    saFaults,
    sbArg, sbChip, sbLine, sbRegs, sbI, sbStage, sbFound, sbResult, sbFaults,
    gpNow, gpLine, gpPort, gpUbxOn, gpResult, gpUtcP, gpGpsP, gpTimeOk,
    gpPos, gpPosOk, gpRef, gpAber, gpRun

haVars == <<haRf, haIfc, haSfmask, haStd, haFsk, haLut, haStarted, haPc,
            haChip>>
lbVars == <<lbConf, lbFpga, lbRunning, lbNow, lbAge, lbVerdict, lbRequests>>
seVars == <<seCount, seDelay, seGain, seBuffer, seTrigger, seAir, seCall,
            seSends, seAccepted, seLast>>
saVars == <<saConf, saSpi, saRadio, saChain, saTodo, saPll, saAttempts,
            saResult, saFaults>>
sbVars == <<sbArg, sbChip, sbLine, sbRegs, sbI, sbStage, sbFound, sbResult,
            sbFaults>>
gpVars == <<gpNow, gpLine, gpPort, gpUbxOn, gpResult, gpUtcP, gpGpsP,
            gpTimeOk, gpPos, gpPosOk, gpRef, gpAber, gpRun>>
-----------------------------------------------------------------------------
\* A small register file: two fields of one byte of page 0, a signed register
\* of two bytes and a read-only one on page 1, a port for bursts on every page,
\* and one of the FPGA.  Bytes have three bits.
Field(p, a, o, l, s, rd) == [page |-> p, addr |-> a, offs |-> o, leng |-> l, sign |-> s, rdon |-> rd]

MCRegs == {"lo", "hi", "wide", "status", "port"}
MCFpgaRegs == {"ram"}
MCLoregs ==
    [n \in MCRegs \cup MCFpgaRegs |->
        CASE n = "lo" -> Field(0, 1, 0, 1, FALSE, FALSE)
          [] n = "hi" -> Field(0, 1, 1, 2, TRUE, FALSE)
          [] n = "wide" -> Field(1, 1, 0, 5, TRUE, FALSE)
          [] n = "status" -> Field(1, 0, 0, 2, FALSE, TRUE)
          [] n = "port" -> Field(-1, 0, 0, 3, FALSE, FALSE)
          [] n = "ram" -> Field(-1, 0, 0, 3, FALSE, FALSE)]

MCValues == {-2, 1}
MCBursts == {<<2, 6, 1>>}
MCPages == {0, 1}
MCAddrs == 0 .. 2

\* Requests that are accepted, refused and completed with defaults, at and
\* beyond the edges of the band; gain tables shorter and longer.
Rf(e, f, t, x, n) == [enable |-> e, freq |-> f, type |-> t, tx |-> x, notch |-> n]
MCRfConfs == {Rf(TRUE, 867500000, "SX1257", TRUE, 129000), Rf(TRUE, 868500000, "none", FALSE, 0),
              Rf(FALSE, 0, "none", FALSE, 0)}

If(e, r, f, b, d, x) == [enable |-> e, rf |-> r, freq |-> f, bw |-> b, dr |-> d, fdr |-> x]
MCIfConfs == {If(FALSE, 0, 0, 0, {}, 0), If(TRUE, 0, -375000, 250000, {7}, 500),
              If(TRUE, 0, -375001, 250000, {7}, 500), If(TRUE, 1, 0, 125000, {8, 9}, 0),
              If(TRUE, 2, 0, 125000, {7}, 0)}
GainOf(m, p) == [dig |-> 0, pa |-> p, dac |-> 3, mix |-> m, pow |-> m]
MCDefaultLut == <<GainOf(10, 2), GainOf(14, 3)>>
MCLutConfs == {<<GainOf(8, 0)>>, <<GainOf(9, 0), GainOf(12, 1), GainOf(15, 3)>>}

\* Two neighbours, one channel, one out of range, and no channels.
Ch(f, s) == [freq |-> f, scan |-> s]
MCLbtConfigs == {[enable |-> TRUE, channels |-> <<Ch(863100000, 5000), Ch(863300000, 128)>>],
              [enable |-> TRUE, channels |-> <<Ch(863300000, 128)>>],
              [enable |-> TRUE, channels |-> <<Ch(862900000, 128)>>],
              [enable |-> FALSE, channels |-> << >>]}

\* For the interleavings a packet per mode, with different bandwidths and
\* powers; for the formulas the edges of every field.
Lora(m, bw, sf, z, pre, cnt, pow) ==
    [chain |-> 0, mode |-> m, mod |-> "lora", bw |-> bw, sf |-> sf, cr |-> 1, size |-> z,
     crc |-> TRUE, header |-> TRUE, preamble |-> pre, count_us |-> cnt, power |-> pow,
     freq |-> 868300000]
Fsk(m, z, pre, dr, pow) ==
    [chain |-> 0, mode |-> m, mod |-> "fsk", bw |-> 0, size |-> z, crc |-> TRUE, fdev |-> 25, dr |-> dr,
     preamble |-> pre, count_us |-> 0, power |-> pow, freq |-> 868800000]

SendPackets == {Lora("TIMESTAMPED", 125, 7, 20, 8, 1, 14), Lora("TIMESTAMPED", 500, 9, 20, 8, 5, 27),
              Lora("ON_GPS", 125, 12, 20, 0, 0, 3), Fsk("IMMEDIATE", 9, 5, 50000, 20),
              [Fsk("IMMEDIATE", 9, 5, 50000, 20) EXCEPT !.chain = 1]}

Fields == {[cr |-> r, header |-> h, crc |-> c, freq |-> f] :
              r \in {1, 4}, h \in BOOLEAN, c \in BOOLEAN, f \in {863000000, 923300001}}
PacketKinds ==
    {[Lora("IMMEDIATE", bw, sf, z, pre, 0, 14)
        EXCEPT !.cr = v.cr, !.header = v.header, !.crc = v.crc, !.freq = v.freq] :
       bw \in {125, 250, 500}, sf \in 7 .. 12, z \in {0, 20, 255, 256}, pre \in {0, 1}, v \in Fields}
    \cup {Fsk("IMMEDIATE", z, pre, dr, 14) : z \in {0, 255, 256}, pre \in {0, 1, 5}, dr \in {500, 50000}}

\* Both types, each clock source, a radio in standby.
Conf(clk, e0, e1, t, f0, f1) ==
    [clkout |-> clk, enable |-> (0 :> e0 @@ 1 :> e1), type |-> (0 :> t @@ 1 :> t),
     freq |-> (0 :> f0 @@ 1 :> f1)]
Tunings == {Conf(1, TRUE, TRUE, 1257, 867500000, 868500001), Conf(0, TRUE, FALSE, 1257, 923200000, 0),
              Conf(0, TRUE, TRUE, 1255, 433375000, 434000001)}

\* What may be behind the table: no type, or a type with any version.
BehindTheTable == {[type |-> t, version |-> v] : t \in {"SX1272", "SX1276", "none"}, v \in {0, 36, 255}}

\* The usual sentences; UTC without a date; native time first, missing or half
\* valid; positions complete and not, with and without a fix.
Rmc(q) == [k |-> "RMC", q |-> q]
Ubx(q) == [k |-> "UBX", q |-> q]
Gga(q) == [k |-> "GGA", q |-> q]
Other  == [k |-> "other", q |-> "bad"]

Usual == <<Rmc("fix"), Ubx("both")>>

MCTimeBursts == {Usual, <<Ubx("both"), Rmc("fix")>>, <<Rmc("nodate"), Ubx("both")>>,
                 <<Rmc("fix"), Ubx("tow")>>, <<Rmc("fix")>>}
MCPosBursts == {<<Gga("fix")>>, <<Gga("partial")>>, <<Gga("partial"), Ubx("none")>>, Usual,
                <<Rmc("fix")>>, <<Rmc("nofix"), Other>>}

\* Configuration, start and stop: with the values of the run, by a program that
\* follows the rules.
Hal == INSTANCE LgwHal WITH
    rf <- haRf, ifc <- haIfc, sfmask <- haSfmask, std <- haStd, fsk <- haFsk,
    lut <- haLut, started <- haStarted, pc <- haPc, chip <- haChip

\* Listen before talk: with the values of the run, restarts with other
\* configurations, two channels.
Listen == INSTANCE LgwLbt WITH
    Configs <- LbtConfigs, Freqs <- LbtFreqs, None <- Nil, conf <- lbConf,
    fpga <- lbFpga, running <- lbRunning, now <- lbNow, age <- lbAge,
    verdict <- lbVerdict, requests <- lbRequests

\* Transmission: a program that sends at any time, one that waits for
\* TX_FREE, and one packet of every kind.
Send == INSTANCE LgwSend WITH
    Packets <- SendPackets, Lut <- <<10, 14, 20>>, Chains <- {0},
    RadioShift <- 8, DelayDefault <- 5, NotchNs <- 1937, SyncSize <- 3,
    Width <- 3, Lbt <- {"free", "busy", "error"}, MaxSends <- 3, None <- Nil,
    count <- seCount, delay <- seDelay, gain <- seGain, buffer <- seBuffer,
    trigger <- seTrigger, air <- seAir, call <- seCall, sends <- seSends,
    accepted <- seAccepted, last <- seLast
Polite == INSTANCE LgwSend WITH
    Packets <- SendPackets, Lut <- <<10, 14, 20>>, Chains <- {0},
    RadioShift <- 8, DelayDefault <- 5, NotchNs <- 1937, SyncSize <- 3,
    Width <- 3, Lbt <- {"free", "busy", "error"}, MaxSends <- 2, None <- Nil,
    count <- seCount, delay <- seDelay, gain <- seGain, buffer <- seBuffer,
    trigger <- seTrigger, air <- seAir, call <- seCall, sends <- seSends,
    accepted <- seAccepted, last <- seLast
Sizes == INSTANCE LgwSend WITH
    Packets <- PacketKinds, Lut <- <<10, 14, 20>>, Chains <- {0},
    RadioShift <- 8, DelayDefault <- 5, NotchNs <- 1937, SyncSize <- 3,
    Width <- 1, Lbt <- {"free"}, MaxSends <- 1, None <- Nil,
    count <- seCount, delay <- seDelay, gain <- seGain, buffer <- seBuffer,
    trigger <- seTrigger, air <- seAir, call <- seCall, sends <- seSends,
    accepted <- seAccepted, last <- seLast

\* The setup of the two radios, one register access failing.
Sx125x == INSTANCE LgwSx125x WITH
    Configs <- Tunings, MaxAttempts <- 5, MaxFaults <- 1, None <- Nil,
    conf <- saConf, spi <- saSpi, radio <- saRadio, chain <- saChain,
    todo <- saTodo, pll <- saPll, attempts <- saAttempts, result <- saResult,
    faults <- saFaults

\* The setup of the radio for listening, whichever is on the board.
Sx127x == INSTANCE LgwSx127x WITH
    Freqs <- {863000000, 868300007}, Bandwidths <- {0, 6, 7, 13, 14, 20},
    Offsets <- {-20, -16, -1, 0, 4, 15},
    Chips <- {"SX1272", "SX1276", "other", "none"},
    Garbage <- BehindTheTable, MaxFaults <- 1, None <- Nil, arg <- sbArg,
    chip <- sbChip, line <- sbLine, regs <- sbRegs, i <- sbI,
    stage <- sbStage, found <- sbFound, result <- sbResult,
    faults <- sbFaults

\* Time from the GPS module, and positions.
Gps == INSTANCE LgwGps WITH
    Bursts <- TimeBursts, None <- Nil, now <- gpNow, line <- gpLine,
    port <- gpPort, ubxOn <- gpUbxOn, result <- gpResult, utcP <- gpUtcP,
    gpsP <- gpGpsP, timeOk <- gpTimeOk, pos <- gpPos, posOk <- gpPosOk,
    ref <- gpRef, aber <- gpAber, run <- gpRun
GpsPos == INSTANCE LgwGps WITH
    Bursts <- PosBursts, MaxPulses <- PosTime, None <- Nil, now <- gpNow, line <- gpLine,
    port <- gpPort, ubxOn <- gpUbxOn, result <- gpResult, utcP <- gpUtcP,
    gpsP <- gpGpsP, timeOk <- gpTimeOk, pos <- gpPos, posOk <- gpPosOk,
    ref <- gpRef, aber <- gpAber, run <- gpRun

-----------------------------------------------------------------------------
ASSUME PartsAssumption ==
    /\ Hal!HalAssumption
    /\ Listen!LbtAssumption
    /\ Send!SendAssumption
    /\ Polite!SendAssumption
    /\ Sizes!SendAssumption
    /\ Sx125x!Sx125xAssumption
    /\ Sx127x!Sx127xAssumption
    /\ Gps!GpsAssumption
    /\ GpsPos!GpsAssumption

\* All parts start; the one of the behaviour may start in any way, the
\* others in one.
BenchInit ==
    /\ part \in Parts
    /\ Init /\ (part # "reg" => chipPage = 0)
    /\ Hal!Init
    /\ Listen!Init
    /\ Send!Init
    /\ Sx125x!Init /\ (part # "sx125x" => saConf = (CHOOSE c \in Tunings : TRUE))
    /\ Sx127x!Init /\ (part # "sx127x" => sbArg = [freq |-> 863000000, bw |-> 0, offset |-> 0] /\ sbChip = "none")
    /\ Gps!Init

BenchNext ==
    /\ UNCHANGED part
    /\ \/ part = "reg" /\ Next
       \/ part = "hal" /\ Hal!Next
       \/ part = "lbt" /\ Listen!Next
       \/ part = "send" /\ Send!Next
       \/ part = "polite" /\ Polite!PoliteNext
       \/ part = "sizes" /\ Sizes!Next
       \/ part = "sx125x" /\ Sx125x!Next
       \/ part = "sx127x" /\ Sx127x!Next
       \/ part = "gps" /\ Gps!Next
       \/ part = "gpsPos" /\ GpsPos!Next
    /\ part # "reg" => UNCHANGED vars
    /\ part # "hal" => UNCHANGED haVars
    /\ part # "lbt" => UNCHANGED lbVars
    /\ part \notin {"send", "polite", "sizes"} => UNCHANGED seVars
    /\ part # "sx125x" => UNCHANGED saVars
    /\ part # "sx127x" => UNCHANGED sbVars
    /\ part \notin {"gps", "gpsPos"} => UNCHANGED gpVars

BenchSpec ==
    /\ BenchInit
    /\ [][BenchNext]_<<part, vars, haVars, lbVars, seVars, saVars, sbVars, gpVars>>
    /\ WF_seVars(part = "polite" /\ Polite!Driver) /\ WF_seVars(part = "polite" /\ Polite!Tick)
    /\ WF_seVars(part = "polite" /\ Polite!Pps) /\ WF_seVars(part = "polite" /\ Polite!EmitEnd)
    /\ WF_saVars(part = "sx125x" /\ Sx125x!Setup) /\ WF_sbVars(part = "sx127x" /\ Sx127x!Setup)
-----------------------------------------------------------------------------
(* Register access: what was written with success is read back, whatever     *)
(* field of the byte, page and chunk is accessed in between, unless a call   *)
(* on the same byte returned an error or an access went to a wrong page; a   *)
(* burst reports success only when all of it moved, and the link is open     *)
(* when an access needs it.                                                  *)
RegistersSound ==
    part = "reg" => TypeOK /\ TargetOpen /\ AnswersRight

(* A concentrator that was started runs as it was configured, with modems    *)
(* that can be programmed and all gains of its table.                        *)
RunsAsConfigured ==
    part = "hal" =>
        /\ Hal!TypeOK /\ Hal!RunsAsConfigured
        /\ Hal!ModemsProgrammable /\ Hal!GainsComplete

(* Listen before talk grants a packet on a channel that was found free only, *)
(* with a bounded overrun, and scans as it was configured.                   *)
TalksWhenFree ==
    part = "lbt" =>
        /\ Listen!TypeOK /\ Listen!GrantedOnFreeChannel
        /\ Listen!OverrunBounded /\ Listen!FpgaAsConfigured

(* A packet is emitted when it was asked for, from the buffer that holds it, *)
(* with a power of the table, a frequency within a step and an airtime that  *)
(* is covered; refused ones are not.  When the program waits for TX_FREE all *)
(* accepted ones are.                                                        *)
EmitsWhatWasSent ==
    /\ [](part = "send" =>
             /\ Send!TypeOK /\ Send!StartsOnTime /\ Send!PowerWithin
             /\ Send!ScheduledWasAccepted /\ Send!EmittedIsBuffered)
    /\ [](part = "sizes" => Sizes!BufferFits /\ Sizes!FrequencyWithin /\ Sizes!AirtimeCovers)
    /\ part = "polite" => Polite!AcceptedIsEmitted

(* The setup of a radio ends, and reports success only for a radio that is   *)
(* tuned and, for listening, there, known and receiving.                     *)
RadiosSetUp ==
    /\ [](part = "sx125x" => Sx125x!TypeOK /\ Sx125x!SuccessMeansTuned)
    /\ [](part = "sx127x" =>
             /\ Sx127x!TypeOK /\ Sx127x!FoundIsChip
             /\ Sx127x!SuccessMeansReceiving /\ Sx127x!SupportedIsFound)
    /\ part = "sx125x" => Sx125x!SetupEnds
    /\ part = "sx127x" => Sx127x!SetupEnds

(* The reference of GPS time is right again three good points after it was   *)
(* lost, stamps with it are right, and it is kept through two bad points; a  *)
(* position is of one sentence.                                              *)
GpsTimeSound ==
    /\ [](part = "gps" => Gps!TypeOK /\ Gps!RecoversInThree /\ Gps!StampRight)
    /\ [](part = "gpsPos" => GpsPos!PosFromOneSentence)
    /\ Gps!KeptThroughTwo
=============================================================================
