----------------------------- MODULE MCGateway -----------------------------
(***************************************************************************)
(* The parts of the gateway, side by side: the just-in-time queue, the way *)
(* up and the way down, the time synchronisation, the configuration and    *)
(* the life of the program.  They share no variable: `part' is the part    *)
(* that moves, and the others stand where they started.                    *)
(***************************************************************************)
EXTENDS GwDownlink, TLC

CONSTANTS Parts,  \* the parts to be checked
          None, BROKEN, Invalid,
          \* of the time synchronisation
          PerSec, Base, Shifts, Tolerance, Wait, Short, Long, Tokens, Prompt,
          MaxTime,
          \* of the configuration
          Files, LGW_RF_CHAIN_NB, LGW_MULTI_NB, LutMax

VARIABLES
    part,  \* the part a behaviour is of
    upReceived, upFetched, upSent, upStream, upInbound, upGwRuns,
    dnSent, dnMeant, dnStream, dnAccepted, dnTrees, dnServer,
    tsNow, tsShift, tsPc, tsUnix, tsUntil, tsVar, tsReq, tsRes, tsSrv,
    tsAnswered,
    cfFiles, cfTodo, cfSect, cfHal, cfLgwm, cfGain, cfState,
    gmPc, gmAttempts, gmServer, gmSock, gmHal, gmThread, gmCancelled,
    gmExitSig, gmQuitSig, gmLeft, gmGone, gmSig

upVars == <<upReceived, upFetched, upSent, upStream, upInbound, upGwRuns>>
dnVars == <<dnSent, dnMeant, dnStream, dnAccepted, dnTrees, dnServer>>
tsVars == <<tsNow, tsShift, tsPc, tsUnix, tsUntil, tsVar, tsReq, tsRes,
            tsSrv, tsAnswered>>
cfVars == <<cfFiles, cfTodo, cfSect, cfHal, cfLgwm, cfGain, cfState>>
gmVars == <<gmPc, gmAttempts, gmServer, gmSock, gmHal, gmThread, gmCancelled,
            gmExitSig, gmQuitSig, gmLeft, gmGone, gmSig>>
-----------------------------------------------------------------------------
\* Packets are interchangeable.
Symmetry == Permutations(Pkts)

\* What the MAC sends (prepareDownlinkMsgMetaData, rtlora_mac.c 725-741) ...
MacMsg == [tm |-> 5, rf_chain |-> 0, freq |-> 922, rf_power |-> 23,
           modulation |-> "LORA", datarate |-> "SF7", bandwidth |-> 125,
           coderate |-> "4/5", invert_pol |-> FALSE, preamble |-> 8,
           size |-> 1, payload |-> "a"]

\* ... what the fields of a message allow beyond that ...
AllMsgs == {MacMsg,
            [MacMsg EXCEPT !.datarate = "SF12", !.bandwidth = 500, !.coderate = "4/8"],
            [MacMsg EXCEPT !.rf_power = 20, !.payload = "b"],
            [MacMsg EXCEPT !.coderate = "OFF"],
            [MacMsg EXCEPT !.bandwidth = 62],
            [MacMsg EXCEPT !.invert_pol = TRUE],
            [MacMsg EXCEPT !.modulation = "FSK", !.datarate = 50]}

\* ... and datagrams of another server.
Good == [tm |-> 5, imme |-> TRUE, rfch |-> 0, freq |-> 922, powe |-> 23,
         modu |-> "LORA", datr |-> <<"SF7", 125>>, codr |-> "4/5",
         ipol |-> FALSE, prea |-> 8, size |-> 1, data |-> "a"]
AllForeign ==
    {[f \in DOMAIN Good \ {g} |-> Good[f]] : g \in DOMAIN Good}
    \cup {BROKEN, [Good EXCEPT !.modu = "FSK"], [Good EXCEPT !.modu = "none"],
          [Good EXCEPT !.prea = 2], [Good EXCEPT !.codr = "1/2"]}

\* Configuration files: one section of each kind in several forms.
Num(n) == <<"num", n>>
Str(s) == <<"str", s>>
On     == <<"bool", TRUE>>

Sx(s)   == [SX1301 |-> s, gateway |-> [gateway_ID |-> Str("A")]]
On2(r, f) == [enable |-> On, radio |-> Num(r), if |-> Num(f)]

Boards  == {[clksrc |-> Num(1), lorawan_public |-> On], [clksrc |-> Str("x")]}
Radio57 == [enable |-> On, type |-> Str("SX1257"), freq |-> Num(9), tx_enable |-> On, tx_notch_freq |-> Num(129000)]
RadioSets == {[k \in {0} |-> [Radio57 EXCEPT !.tx_notch_freq = Num(3)]], [k \in {1} |-> [enable |-> On, type |-> Str("SX1255"), freq |-> Num(8)]],
              [k \in {1} |-> [enable |-> On, type |-> Str("other")]],
              [k \in {0} |-> [enable |-> On]], [k \in {0} |-> [freq |-> Num(7)]]}
MultiSets == {[k \in {0, 1} |-> On2(k, 4)], [k \in {1} |-> [enable |-> Num(1)]], [k \in {0} |-> On2(5, 4)],
              [k \in {1} |-> On2(0, 400001)]}
\* accepted as they are and with the library's values, and refused for the data
\* rate, the radio and the band
One(b, sf, d, r, f) == [bandwidth |-> Num(b), spread_factor |-> Num(sf), datarate |-> Num(d),
                        enable |-> On, radio |-> Num(r), if |-> Num(f)]
Lone == {One(125000, 7, 50000, 0, 0), One(9000, 13, 0, 0, 0), One(600000, 7, 50000, 0, -400000),
         One(9000, 7, 2, 0, 0), One(125000, 7, 50000, 2, 0), One(125000, 7, 50000, 0, 400001),
         One(500000, 12, 500, 0, 300001), [bandwidth |-> Num(1)]}
Gains == {[antenna_gain |-> Num(5)], [antenna_gain |-> Str("x")]}
\* one that is accepted, one refused after its first entry, one with a gap
Entry(k, m) == [rf_power |-> Num(10 + k), pa_gain |-> Num(k), mix_gain |-> Num(m)]
Luts  == {[k \in {0, 1} |-> Entry(k, 8 + k)], [k \in {0, 1} |-> Entry(k, 15 + k)],
          [k \in {0, 2} |-> Entry(k, 9)]}

Singles ==
    {[board |-> b] : b \in Boards} \cup {[radio |-> r] : r \in RadioSets} \cup
    {[multi |-> m] : m \in MultiSets} \cup {[std |-> c] : c \in Lone} \cup
    {[fsk |-> c] : c \in Lone} \cup {[gain |-> g] : g \in Gains} \cup {[lut |-> l] : l \in Luts}

Full == [board |-> [clksrc |-> Num(2), lorawan_public |-> On], radio |-> [k \in {0, 1} |-> Radio57],
         multi |-> [k \in {0, 1} |-> On2(1, 6)], std |-> On2(0, 1), fsk |-> On2(1, 2),
         lut |-> [k \in {0, 1, 2} |-> Entry(k, 10 + k)]]

Odd == {None, Invalid, [SX1301 |-> None, gateway |-> None], [SX1301 |-> None, gateway |-> [gateway_ID |-> Str("B")]],
        [SX1301 |-> Full, gateway |-> None]}

MCFiles ==
    [debug : {None} \cup {Sx(s) : s \in Singles}, global : {None, Sx(Full)}, local : {None, Sx(Full)}]
    \cup [debug : {None}, global : {Sx(Full)} \cup {Sx(s) : s \in Singles}, local : {Sx(s) : s \in Singles}]
    \cup [debug : Odd, global : {None, Sx(Full)}, local : {None}]
    \cup [debug : {None}, global : Odd, local : Odd]

NoFiles == [debug |-> None, global |-> None, local |-> None]

\* The way up, with datagrams joined and cut in any way, and with one
\* datagram on the connection at a time.
Up == INSTANCE UplinkPath WITH
    Kinds <- {"lora", "fsk", "badCrc"}, MaxRx <- 4, NB_PKT_MAX <- 2,
    ReadMax <- 3, Paced <- FALSE, received <- upReceived,
    fetched <- upFetched, sent <- upSent, stream <- upStream,
    inbound <- upInbound, gwRuns <- upGwRuns
UpPaced == INSTANCE UplinkPath WITH
    Kinds <- {"lora", "fsk", "badCrc", "odd"}, MaxRx <- 5, NB_PKT_MAX <- 3,
    ReadMax <- 3, Paced <- TRUE, received <- upReceived,
    fetched <- upFetched, sent <- upSent, stream <- upStream,
    inbound <- upInbound, gwRuns <- upGwRuns

\* The way down, likewise.
Down == INSTANCE DownlinkPath WITH
    Msgs <- AllMsgs, Foreign <- AllForeign, BROKEN <- BROKEN, NULL <- None,
    txlut <- {13, 14, 27}, antenna_gain <- 10, MIN_LORA_PREAMB <- 6,
    STD_LORA_PREAMB <- 8, Units <- 2, ReadMax <- 3, MaxSent <- 2,
    Paced <- FALSE, sent <- dnSent, meant <- dnMeant, stream <- dnStream,
    accepted <- dnAccepted, trees <- dnTrees, server <- dnServer
DownPaced == INSTANCE DownlinkPath WITH
    Msgs <- AllMsgs, Foreign <- AllForeign, BROKEN <- BROKEN, NULL <- None,
    txlut <- {13, 14, 27}, antenna_gain <- 10, MIN_LORA_PREAMB <- 6,
    STD_LORA_PREAMB <- 8, Units <- 1, ReadMax <- 3, MaxSent <- 2,
    Paced <- TRUE, sent <- dnSent, meant <- dnMeant, stream <- dnStream,
    accepted <- dnAccepted, trees <- dnTrees, server <- dnServer

\* The time synchronisation: with the values of the configurations, clocks apart
\* by nothing, within and beyond the tolerance.
Sync == INSTANCE GwTimeSync WITH
    now <- tsNow, shift <- tsShift, pc <- tsPc, unix <- tsUnix,
    until <- tsUntil, var <- tsVar, req <- tsReq, res <- tsRes, srv <- tsSrv,
    answered <- tsAnswered

\* The configuration files.
Conf == INSTANCE GwConfig WITH
    files <- cfFiles, todo <- cfTodo, sect <- cfSect, hal <- cfHal,
    lgwm <- cfLgwm, gain <- cfGain, state <- cfState

\* The life of the program.
GMain == INSTANCE GwMain WITH
    MaxAttempts <- 3, Stat <- 1, Cycle <- 4, BadCancel <- FALSE, pc <- gmPc,
    attempts <- gmAttempts, server <- gmServer, sock <- gmSock, hal <- gmHal,
    thread <- gmThread, cancelled <- gmCancelled, exitSig <- gmExitSig,
    quitSig <- gmQuitSig, left <- gmLeft, gone <- gmGone, sig <- gmSig

-----------------------------------------------------------------------------
ASSUME PartsAssumption ==
    /\ Up!UplinkAssumption
    /\ UpPaced!UplinkAssumption
    /\ Down!DownlinkPathAssumption
    /\ DownPaced!DownlinkPathAssumption
    /\ Sync!TimeSyncAssumption
    /\ Conf!ConfigAssumption
    /\ GMain!MainAssumption

\* All parts start; the one of the behaviour may start in any way, the
\* others in one.
BenchInit ==
    /\ part \in Parts
    /\ Init
    /\ Up!Init
    /\ Down!Init
    /\ Sync!Init /\ (part # "sync" => tsShift = 0)
    /\ Conf!Init /\ (part # "conf" => cfFiles = NoFiles)
    /\ GMain!Init /\ (part # "main" => gmServer)

BenchNext ==
    /\ UNCHANGED part
    /\ \/ part = "jit" /\ Next
       \/ part = "up" /\ Up!Next
       \/ part = "upPaced" /\ UpPaced!Next
       \/ part = "down" /\ Down!Next
       \/ part = "downPaced" /\ DownPaced!Next
       \/ part = "sync" /\ Sync!Next
       \/ part = "conf" /\ Conf!Next
       \/ part = "main" /\ GMain!Next
    /\ part # "jit" => UNCHANGED vars
    /\ part \notin {"up", "upPaced"} => UNCHANGED upVars
    /\ part \notin {"down", "downPaced"} => UNCHANGED dnVars
    /\ part # "sync" => UNCHANGED tsVars
    /\ part # "conf" => UNCHANGED cfVars
    /\ part # "main" => UNCHANGED gmVars

BenchSpec ==
    BenchInit /\ [][BenchNext]_<<part, vars, upVars, dnVars, tsVars, cfVars, gmVars>>

\* The threads of the gateway run, and time goes on.
BenchFairSpec ==
    /\ BenchSpec
    /\ WF_vars(part = "jit" /\ Tick) /\ WF_vars(part = "jit" /\ JitStep)
    /\ WF_vars(part = "jit" /\ (EnqueueTestFull \/ EnqueueInsert))
    /\ WF_gmVars(part = "main" /\ GMain!Main) /\ WF_gmVars(part = "main" /\ GMain!Tick)
    /\ \A t \in GMain!Threads : WF_gmVars(part = "main" /\ GMain!Return(t))
-----------------------------------------------------------------------------
(* The just-in-time queue: sorted by seconds, within its array, with every   *)
(* queued packet in it once.  On a timely host a packet goes on the air      *)
(* within the threshold before its time, only what compare() put behind a    *)
(* later packet is purged, and only a packet that came while another was on  *)
(* the air finds the radio busy.                                             *)
ServedOnTime ==
    /\ [](part = "jit" => TypeOK /\ SortedBySecond /\ QueueBounded /\ QueuedOnce)
    /\ SentOnTime /\ OnlyMisorderedPurged /\ OnlyNewcomersMeetBusyRadio

(* However the connection joins and cuts datagrams, packets arrive whole, in *)
(* order and at most once in both directions, and unaltered; with one        *)
(* datagram under way at a time, all of them that can be sent arrive.        *)
DatagramsArrive ==
    /\ [](part = "up" => Up!TypeOK /\ Up!InOrderAtMostOnce)
    /\ Up!WholeDatagrams
    /\ [](part = "upPaced" => UpPaced!TypeOK /\ UpPaced!PacedAllArrive)
    /\ [](part = "down" => Down!TypeOK /\ Down!PktIsMsg /\ Down!InOrderAtMostOnce)
    /\ [](part = "downPaced" => DownPaced!OnlyFskLeaks /\ DownPaced!PacedAllQueued)

(* The measured offset of the server's clock is right to within half of the  *)
(* exchange, and the mark says done for the answer to this request only.     *)
OffsetAccurate ==
    part = "sync" => Sync!TypeOK /\ Sync!OffsetAccurate /\ Sync!DoneIsThisRequest

(* The concentrator gets what the files say, the later over the earlier; a   *)
(* section it refuses stops the program; all gains are in both tables, and   *)
(* an FSK channel is wide enough.                                            *)
ConfigLayers ==
    part = "conf" =>
        /\ Conf!TypeOK /\ Conf!LayersInOrder
        /\ Conf!RefusedStops /\ Conf!GainsComplete /\ Conf!FskWideEnough

(* Whether the server is there, comes, goes or never listens, the program    *)
(* comes to its loop or to an end; a signal ends it, with the concentrator   *)
(* as it was asked to leave it.                                              *)
MainSettles ==
    /\ [](part = "main" => GMain!TypeOK /\ GMain!EndsAsAsked)
    /\ part = "main" => GMain!Settles /\ GMain!SignalEnds
=============================================================================
