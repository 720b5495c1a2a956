------------------------------- MODULE GwConfig -------------------------------
(***************************************************************************)
(* How the gateway reads its configuration (rtlora_gw.c): which of the     *)
(* files debug_conf.json, global_conf.json and local_conf.json are parsed, *)
(* in which order, and what parse_SX1301_configuration and                 *)
(* parse_gateway_configuration hand to the concentrator library, section   *)
(* by section.                                                             *)
(*                                                                         *)
(* A file is a function from the names of its sections to their contents,  *)
(* a content a function from parameters to values.  A value is a pair of   *)
(* its JSON type and itself.  Radios, channels and gain entries are found  *)
(* by their index.  What the library (loragw_hal.c) fills in, refuses and  *)
(* stores of a section is part of parsing it.                              *)
(***************************************************************************)
EXTENDS Integers, Sequences, FiniteSets

CONSTANTS
    Files,      (* what may be on the disk: [debug, global, local] with     *)
                (* files or None                                            *)
    LGW_RF_CHAIN_NB,    (* radios                                           *)
    LGW_MULTI_NB,       (* channels for several spreading factors           *)
    LutMax,     (* TX_GAIN_LUT_SIZE_MAX, room for the library's own table   *)
    None,       (* no file, no object, no section, no address               *)
    Invalid     (* a file that is no JSON                                   *)

Radios   == 0 .. LGW_RF_CHAIN_NB - 1
Channels == 0 .. LGW_MULTI_NB - 1

\* The values of a content are of their JSON types
WellTyped(c) ==
    \A p \in DOMAIN c : /\ c[p][1] = "bool" => c[p][2] \in BOOLEAN
                        /\ c[p][1] = "num" => c[p][2] \in Int

\* No section is None.  Gain entries beyond the table are not looked for.
SectionsAssumption(c) ==
    /\ \A k \in DOMAIN c : c[k] # None
    /\ \A k \in {"radio", "multi"} \cap DOMAIN c :
          \A i \in DOMAIN c[k] : c[k][i] # None /\ WellTyped(c[k][i])
    /\ \A k \in {"std", "fsk"} \cap DOMAIN c : WellTyped(c[k])
    /\ "lut" \in DOMAIN c => DOMAIN c["lut"] \subseteq 0 .. LutMax - 1

ConfigAssumption ==
    /\ LGW_RF_CHAIN_NB \in Nat /\ LGW_MULTI_NB \in Nat /\ LutMax \in Nat \ {0, 1}
    /\ \A f \in Files :
          /\ DOMAIN f = {"debug", "global", "local"}
          /\ \A n \in DOMAIN f : (f[n] \notin {None, Invalid} /\ f[n].SX1301 # None)
                                 => SectionsAssumption(f[n].SX1301)

VARIABLES
    files,      (* the files                                                *)
    todo,       (* the files still to parse, with their checks              *)
    sect,       (* the sections of the file in hand still to parse          *)
    hal,        (* what the library has; with its gain table the program's  *)
                (* own one, txlut                                           *)
    lgwm,       (* the MAC address                                          *)
    gain,       (* antenna_gain                                             *)
    state       (* parsing, ready, exited or crashed                        *)

vars == <<files, todo, sect, hal, lgwm, gain, state>>

-----------------------------------------------------------------------------
(* Access to JSON values (parson.c)                                         *)

Typed(c, p, t) == p \in DOMAIN c /\ c[p][1] = t
Boolean(c, p)  == IF Typed(c, p, "bool") THEN c[p][2] ELSE FALSE
Number(c, p)   == IF Typed(c, p, "num") THEN c[p][2] ELSE 0

-----------------------------------------------------------------------------
(* The sections of SX1301_conf                                              *)

\* The order of parse_SX1301_configuration
Order ==
    <<<<"board", 0>>, <<"gain", 0>>, <<"lut", 0>>>> \o
    [i \in 1 .. LGW_RF_CHAIN_NB |-> <<"radio", i - 1>>] \o
    [i \in 1 .. LGW_MULTI_NB |-> <<"multi", i - 1>>] \o
    <<<<"std", 0>>, <<"fsk", 0>>, <<"gateway", 0>>>>

\* lorawan_public and clksrc, false and 0 when they are missing
Board(c) == [public |-> Boolean(c, "lorawan_public"), clksrc |-> Number(c, "clksrc")]

NoLutEntry == [pa |-> 0, dac |-> 0, dig |-> 0, mix |-> 0, pow |-> 0]

\* dac_gain is 3 when it is missing, the others 0
LutEntry(c) ==
    [pa |-> Number(c, "pa_gain"),
     dac |-> IF Typed(c, "dac_gain", "num") THEN Number(c, "dac_gain") ELSE 3,
     dig |-> Number(c, "dig_gain"), mix |-> Number(c, "mix_gain"), pow |-> Number(c, "rf_power")]

\* The program's table has as many entries as the file has objects, each at its
\* index; it is cleared for each file, also for one without gains
Lut(c) ==
    [size |-> Cardinality(DOMAIN c),
     entry |-> [i \in 0 .. (LutMax - 1) |-> IF i \in DOMAIN c THEN LutEntry(c[i]) ELSE NoLutEntry]]

\* lgw_txgain_setconf: gains in the range of the chip and the radio
GainOk(e) == e.dig \in 0 .. 3 /\ e.dac = 3 /\ e.mix \in 8 .. 15 /\ e.pa \in 0 .. 3
LutAccepted(own) == \A i \in 0 .. own.size - 1 : GainOk(own.entry[i])

\* It stores the size, then entry by entry up to the first it refuses; a table
\* without entries is not submitted
Gains(old, own) ==
    [own |-> own,
     size |-> IF own.size = 0 THEN old.size ELSE own.size,
     entry |-> [i \in 0 .. (LutMax - 1) |->
                  IF i < own.size /\ \A k \in 0 .. i : GainOk(own.entry[k])
                  THEN own.entry[i] ELSE old.entry[i]]]

\* A notch filter out of range is replaced by none (LGW_MIN_NOTCH_FREQ)
Notch(n) == IF n \in 126000 .. 250000 THEN n ELSE 0

\* A radio that is not enabled has no type
Radio(c) ==
    IF ~Boolean(c, "enable")
    THEN [enable |-> FALSE, freq |-> 0, type |-> "none", tx |-> FALSE, notch |-> 0]
    ELSE [enable |-> TRUE, freq |-> Number(c, "freq"),
          type |-> IF Typed(c, "type", "str") /\ c["type"][2] \in {"SX1255", "SX1257"}
                   THEN c["type"][2] ELSE "none",
          tx |-> Boolean(c, "tx_enable"),
          notch |-> IF Boolean(c, "tx_enable") THEN Notch(Number(c, "tx_notch_freq")) ELSE 0]

\* strncmp on the type string: a missing one is a null pointer
RadioCrashes(c) == Boolean(c, "enable") /\ ~Typed(c, "type", "str")

Chain(c) == [enable |-> Boolean(c, "enable"),
             radio |-> IF Boolean(c, "enable") THEN Number(c, "radio") ELSE 0,
             freq |-> IF Boolean(c, "enable") THEN Number(c, "if") ELSE 0]

\* lgw_rxif_setconf: a chain that is disabled keeps its radio
MultiSf(old, c) ==
    IF Boolean(c, "enable") THEN Chain(c) ELSE [enable |-> FALSE, radio |-> old.radio, freq |-> 0]

\* What is undefined gets the library's value
Filled(n, default) == IF n = 0 THEN default ELSE n

StdBandwidth(n) == IF n \in {125000, 250000, 500000} THEN n ELSE 0

\* mutant: what is no spreading factor is kept
StdDatarate_Raw(n) == n

StdDatarate(n)  == IF n \in 7 .. 12 THEN n ELSE 0

\* The channel of one spreading factor; what is no known number is undefined.
\* A chain that is disabled keeps its other parameters.
Std(old, c) ==
    [chain |-> MultiSf(old.chain, c),
     bw |-> IF Boolean(c, "enable")
            THEN Filled(StdBandwidth(Number(c, "bandwidth")), 250000) ELSE old.bw,
     sf |-> IF Boolean(c, "enable")
            THEN Filled(StdDatarate(Number(c, "spread_factor")), 9) ELSE old.sf]

\* mutant: the bandwidth of an FSK channel is rounded down
FskBandwidth_Down(n) ==
    LET fit == {b \in {7800, 15600, 31200, 62500, 125000, 250000, 500000} : b <= n}
    IN  IF fit = {} THEN 0 ELSE CHOOSE b \in fit : \A d \in fit : b >= d

\* The smallest bandwidth that is not below the number, or undefined
FskBandwidth(n) ==
    LET fit == {b \in {7800, 15600, 31200, 62500, 125000, 250000, 500000} : n <= b}
    IN  IF fit = {} THEN 0 ELSE CHOOSE b \in fit : \A d \in fit : b <= d

Fsk(old, c) ==
    [chain |-> MultiSf(old.chain, c),
     bw |-> IF Boolean(c, "enable")
            THEN Filled(FskBandwidth(Number(c, "bandwidth")), 250000) ELSE old.bw,
     rate |-> IF Boolean(c, "enable") THEN Filled(Number(c, "datarate"), 64000) ELSE old.rate]

\* What the library refuses: a radio without a type; a chain on a radio that is
\* not there, or with a channel that is not within the band of its radio.  The
\* bandwidth is looked at before it is filled in.
RadioAccepted(r) == r.type # "none"

RadioBandwidth(bw) == CASE bw = 250000 -> 1000000 [] bw = 500000 -> 1100000 [] OTHER -> 925000

InBand(freq, bw) ==
    LET half == Filled(bw, 125000) \div 2
        edge == RadioBandwidth(bw) \div 2
    IN  freq + half <= edge /\ freq - half >= -edge

ChainAccepted(c, bw) ==
    Boolean(c, "enable") => Number(c, "radio") \in Radios /\ InBand(Number(c, "if"), bw)

\* The bandwidth and the data rates of these channels are never set: the library
\* fills in 125 kHz and all of them, which it accepts
MultiAccepted(c) == ChainAccepted(c, 0)
StdAccepted(c)   == ChainAccepted(c, StdBandwidth(Number(c, "bandwidth")))

\* FSK has a range of data rates
FskAccepted(c) ==
    /\ ChainAccepted(c, FskBandwidth(Number(c, "bandwidth")))
    /\ Boolean(c, "enable") => Filled(Number(c, "datarate"), 64000) \in 500 .. 250000

-----------------------------------------------------------------------------
(* The files                                                                *)

\* mutant: the local file is parsed first
Plan_LocalFirst ==
    IF files.debug # None THEN <<[name |-> "debug", checked |-> TRUE]>>
    ELSE IF files.global # None
         THEN IF files.local # None
              THEN <<[name |-> "local", checked |-> FALSE], [name |-> "global", checked |-> TRUE]>>
              ELSE <<[name |-> "global", checked |-> TRUE]>>
         ELSE IF files.local # None THEN <<[name |-> "local", checked |-> FALSE]>> ELSE <<>>

\* mutant: the result of the global file is not looked at
Plan_Unchecked ==
    IF files.debug # None THEN <<[name |-> "debug", checked |-> TRUE]>>
    ELSE IF files.global # None THEN <<[name |-> "global", checked |-> FALSE]>> ELSE <<>>

\* A debug file alone, or the global file and the local one on top, or the
\* local one.  The results of the local file are not looked at: x is not
\* assigned.
Plan ==
    IF files.debug # None THEN <<[name |-> "debug", checked |-> TRUE]>>
    ELSE (IF files.global # None THEN <<[name |-> "global", checked |-> TRUE]>> ELSE <<>>) \o
         (IF files.local # None THEN <<[name |-> "local", checked |-> FALSE]>> ELSE <<>>)

NoChain == [enable |-> FALSE, radio |-> 0, freq |-> 0]

\* The library's table to begin with
DefaultGains ==
    [own |-> Lut(<<>>), size |-> 2,
     entry |-> [i \in 0 .. (LutMax - 1) |->
                  CASE i = 0 -> [pa |-> 2, dac |-> 3, dig |-> 0, mix |-> 10, pow |-> 14]
                    [] i = 1 -> [pa |-> 3, dac |-> 3, dig |-> 0, mix |-> 14, pow |-> 27]
                    [] OTHER -> NoLutEntry]]

Default ==
    [board |-> Board(<<>>), lut |-> DefaultGains,
     radio |-> [i \in Radios |-> Radio(<<>>)], multi |-> [i \in Channels |-> NoChain],
     std |-> [chain |-> NoChain, bw |-> 0, sf |-> 0],
     fsk |-> [chain |-> NoChain, bw |-> 0, rate |-> 0]]

Init ==
    /\ files \in Files
    /\ todo = Plan /\ sect = Order
    /\ hal = Default
    /\ lgwm = None /\ gain = 0
    /\ state = IF todo = <<>> THEN "exited" ELSE "parsing"

File == files[todo[1].name]

\* The content of a section of an object of the file, None for none
Section(s) ==
    LET key == s[1]
    IN  IF key \notin DOMAIN File.SX1301 THEN None
        ELSE IF key \in {"radio", "multi"}
             THEN IF s[2] \in DOMAIN File.SX1301[key] THEN File.SX1301[key][s[2]] ELSE None
             ELSE File.SX1301[key]

\* The function returns -1: an error for a file that is checked; otherwise
\* the parser of the next object, or the next file, goes on
Refused ==
    IF todo[1].checked
    THEN state' = "exited" /\ UNCHANGED <<todo, sect>>
    ELSE /\ state' = state
         /\ IF Head(sect)[1] # "gateway" /\ File.gateway # None
               THEN sect' = <<<<"gateway", 0>>>> /\ todo' = todo
               ELSE sect' = Order /\ todo' = Tail(todo)

Advance ==
    /\ state' = state
    /\ IF Len(sect) = 1 THEN sect' = Order /\ todo' = Tail(todo)
                        ELSE sect' = Tail(sect) /\ todo' = todo

\* A file that is no JSON ends the program; one without the object returns -1
NoObject ==
    /\ state = "parsing" /\ todo # <<>>
    /\ \/ File = Invalid /\ state' = "exited" /\ UNCHANGED <<todo, sect>>
       \/ /\ File # Invalid
          /\ \/ sect = Order /\ File.SX1301 = None
             \/ Head(sect)[1] = "gateway" /\ File.gateway = None
          /\ Refused
    /\ UNCHANGED <<files, hal, lgwm, gain>>

\* A section is handed to the library, which accepts it or not
Submit(s, value, accepted) ==
    IF accepted THEN hal' = [hal EXCEPT ![s] = value] /\ Advance
                ELSE hal' = hal /\ Refused

Parse(s) ==
    state = "parsing" /\ todo # <<>> /\ File # Invalid /\ File.SX1301 # None /\ Head(sect) = s

ParseBoard ==
    /\ Parse(<<"board", 0>>)
    /\ LET c == Section(<<"board", 0>>) IN Submit("board", Board(IF c = None THEN <<>> ELSE c), TRUE)
    /\ UNCHANGED <<files, lgwm, gain>>

\* The antenna gain stays when it is missing
ParseGain ==
    /\ Parse(<<"gain", 0>>)
    /\ gain' = IF Section(<<"gain", 0>>) = None THEN gain ELSE Number(Section(<<"gain", 0>>), "antenna_gain")
    /\ Advance
    /\ UNCHANGED <<files, hal, lgwm>>

\* A table that is refused has been stored in part
ParseLut ==
    /\ Parse(<<"lut", 0>>)
    /\ LET c == Section(<<"lut", 0>>)
           own == Lut(IF c = None THEN <<>> ELSE c)
       IN /\ hal' = [hal EXCEPT !["lut"] = Gains(hal.lut, own)]
          /\ IF LutAccepted(own) THEN Advance ELSE Refused
    /\ UNCHANGED <<files, lgwm, gain>>

ParseRadio ==
    /\ \E i \in Radios :
          /\ Parse(<<"radio", i>>)
          /\ LET c == Section(<<"radio", i>>) IN
             IF c = None THEN hal' = hal /\ Advance
             ELSE IF RadioCrashes(c) THEN state' = "crashed" /\ UNCHANGED <<hal, todo, sect>>
             ELSE Submit("radio", [hal.radio EXCEPT ![i] = Radio(c)], RadioAccepted(Radio(c)))
    /\ UNCHANGED <<files, lgwm, gain>>

ParseMulti ==
    /\ \E i \in Channels :
          /\ Parse(<<"multi", i>>)
          /\ LET c == Section(<<"multi", i>>) IN
             IF c = None THEN hal' = hal /\ Advance
             ELSE Submit("multi", [hal.multi EXCEPT ![i] = MultiSf(hal.multi[i], c)], MultiAccepted(c))
    /\ UNCHANGED <<files, lgwm, gain>>

ParseStd ==
    /\ Parse(<<"std", 0>>)
    /\ LET c == Section(<<"std", 0>>) IN
       IF c = None THEN hal' = hal /\ Advance ELSE Submit("std", Std(hal.std, c), StdAccepted(c))
    /\ UNCHANGED <<files, lgwm, gain>>

ParseFsk ==
    /\ Parse(<<"fsk", 0>>)
    /\ LET c == Section(<<"fsk", 0>>) IN
       IF c = None THEN hal' = hal /\ Advance ELSE Submit("fsk", Fsk(hal.fsk, c), FskAccepted(c))
    /\ UNCHANGED <<files, lgwm, gain>>

\* parse_gateway_configuration: the MAC address stays when it is missing
ParseGateway ==
    /\ state = "parsing" /\ todo # <<>> /\ File # Invalid
    /\ Head(sect)[1] = "gateway" /\ File.gateway # None
    /\ lgwm' = IF "gateway_ID" \in DOMAIN File.gateway THEN File.gateway["gateway_ID"][2] ELSE lgwm
    /\ Advance
    /\ UNCHANGED <<files, hal, gain>>

Ready ==
    /\ state = "parsing" /\ todo = <<>> /\ state' = "ready"
    /\ UNCHANGED <<files, todo, sect, hal, lgwm, gain>>

Next ==
    \/ NoObject
    \/ ParseBoard \/ ParseGain \/ ParseLut \/ ParseRadio \/ ParseMulti \/ ParseStd \/ ParseFsk
    \/ ParseGateway
    \/ Ready

Spec == Init /\ [][Next]_vars
-----------------------------------------------------------------------------
TypeOK ==
    /\ files \in Files
    /\ todo \in Seq([name : {"debug", "global", "local"}, checked : BOOLEAN])
    /\ \A i \in DOMAIN sect : sect[i] \in {Order[j] : j \in DOMAIN Order}
    /\ hal.lut.size \in 0 .. LutMax
    /\ \A i \in Radios : hal.radio[i].type \in {"none", "SX1255", "SX1257"}
    /\ \A i \in Channels : hal.multi[i].enable \in BOOLEAN
    /\ hal.std.sf \in {0} \cup (7 .. 12)
    /\ state \in {"parsing", "ready", "exited", "crashed"}

\* What a file makes of a configuration, taken as a whole
Over(old, f) ==
    IF f = None \/ f.SX1301 = None THEN old
    ELSE LET c == f.SX1301
             has(k, i) == k \in DOMAIN c /\ i \in DOMAIN c[k]
         IN  [board |-> Board(IF "board" \in DOMAIN c THEN c["board"] ELSE <<>>),
              lut   |-> Gains(old.lut, Lut(IF "lut" \in DOMAIN c THEN c["lut"] ELSE <<>>)),
              radio |-> [i \in Radios |-> IF has("radio", i) THEN Radio(c["radio"][i]) ELSE old.radio[i]],
              multi |-> [i \in Channels |-> IF has("multi", i) THEN MultiSf(old.multi[i], c["multi"][i]) ELSE old.multi[i]],
              std   |-> IF "std" \in DOMAIN c THEN Std(old.std, c["std"]) ELSE old.std,
              fsk   |-> IF "fsk" \in DOMAIN c THEN Fsk(old.fsk, c["fsk"]) ELSE old.fsk]

\* The library accepts all that the file has, and the file has both objects
Accepted(f) ==
    f # None =>
        /\ f # Invalid /\ f.SX1301 # None /\ f.gateway # None
        /\ LET c == f.SX1301 IN
           /\ "lut" \in DOMAIN c => LutAccepted(Lut(c["lut"]))
           /\ "radio" \in DOMAIN c =>
                 \A i \in DOMAIN c["radio"] : i \in Radios => RadioAccepted(Radio(c["radio"][i]))
           /\ "multi" \in DOMAIN c =>
                 \A i \in DOMAIN c["multi"] : i \in Channels => MultiAccepted(c["multi"][i])
           /\ "std" \in DOMAIN c => StdAccepted(c["std"])
           /\ "fsk" \in DOMAIN c => FskAccepted(c["fsk"])

\* A debug file decides alone; else the local file lies over the global one,
\* section by section (rtlora_gw.c:711-752).
LayersInOrder ==
    state = "ready" =>
        IF files.debug # None THEN hal = Over(Default, files.debug)
        ELSE Accepted(files.local) => hal = Over(Over(Default, files.global), files.local)

\* The program goes on only with a global or debug configuration that the
\* library took as a whole (rtlora_gw.c:714-732).
RefusedStops ==
    state = "ready" =>
        IF files.debug # None THEN Accepted(files.debug) ELSE Accepted(files.global)

\* The file that has the last word.
Last == IF files.debug # None THEN files.debug
        ELSE IF files.local # None THEN files.local ELSE files.global

\* Every gain of the file is at its index in the program's table, where powers
\* are looked up (rtlora_gw.c:1531), and in the library's, although the size
\* of the table is only the number of the file's objects (rtlora_gw.c:344).
GainsComplete ==
    state = "ready" /\ Accepted(Last) /\ "lut" \in DOMAIN Last.SX1301 =>
        LET c == Last.SX1301["lut"] IN
        \A i \in DOMAIN c :
            /\ i < hal.lut.size /\ i < hal.lut.own.size
            /\ hal.lut.entry[i] = LutEntry(c[i]) /\ hal.lut.own.entry[i] = LutEntry(c[i])

\* An FSK channel is at least as wide as its configuration says, up to the
\* 500 kHz of the chip (rtlora_gw.c:554-561); beyond them it is undefined, and
\* the library makes it 250 kHz.
FskWideEnough ==
    state = "ready" /\ files.debug # None /\ "fsk" \in DOMAIN files.debug.SX1301 =>
        LET asked == Number(files.debug.SX1301["fsk"], "bandwidth") IN
        hal.fsk.chain.enable /\ asked <= 500000 => hal.fsk.bw >= asked

\* rtlora_gw.c:673: the local file is to "overwrite global parameters for
\* parameters that are defined in both", so what it does not define stays: the
\* clock source, and the table in which powers are looked up.
OnlyWhatIsDefined ==
    state = "ready" /\ files.debug = None /\ Accepted(files.local)
    /\ files.global # None /\ files.local # None =>
        LET old == files.global.SX1301
            new == files.local.SX1301
        IN  /\ "board" \in DOMAIN old /\ "board" \notin DOMAIN new =>
                   hal.board.clksrc = Number(old["board"], "clksrc")
            /\ "lut" \in DOMAIN old /\ "lut" \notin DOMAIN new =>
                   hal.lut.own.size = Cardinality(DOMAIN old["lut"])

\* rtlora_gw.c:344: the size of the table is "based on JSON object found in
\* configuration file", so that gains at any indices can be found there.
GainsAnywhere ==
    files.debug # None /\ state = "exited" =>
        ~(/\ files.debug # Invalid /\ files.debug.SX1301 # None /\ files.debug.gateway # None
          /\ DOMAIN files.debug.SX1301 = {"lut"}
          /\ \A i \in DOMAIN files.debug.SX1301["lut"] :
                GainOk(LutEntry(files.debug.SX1301["lut"][i])))

\* rtlora_gw.c:414: of a disabled radio there is "nothing else to parse"; it
\* is a configuration the program runs with.
DisabledRadioRuns ==
    files.debug # None /\ state = "exited" =>
        ~(/\ files.debug # Invalid /\ files.debug.SX1301 # None /\ files.debug.gateway # None
          /\ DOMAIN files.debug.SX1301 = {"radio"}
          /\ \A i \in DOMAIN files.debug.SX1301["radio"] :
                ~Boolean(files.debug.SX1301["radio"][i], "enable"))

\* rtlora_gw.c:742-748: with a local file only, a result that is not 0 ends
\* the program.
LocalRefusedStops ==
    state = "ready" /\ files.debug = None /\ files.global = None => Accepted(files.local)
=============================================================================
