------------------------------- MODULE LgwHal -------------------------------
(***************************************************************************)
(* Configuration, start and stop of the concentrator (loragw_hal.c).  The  *)
(* _setconf functions check a request and store it in static variables;    *)
(* lgw_start connects, sets the radios up, has the AGC processor calibrate *)
(* them, programs the modems from the static variables, loads the          *)
(* firmwares and hands the TX gain table to the AGC firmware entry by      *)
(* entry.  A step that fails returns from lgw_start and undoes nothing.    *)
(***************************************************************************)
EXTENDS Integers, Sequences, FiniteSets, SequencesExt

CONSTANTS
    RfChains,     (* 0 .. LGW_RF_CHAIN_NB - 1 *)
    MultiChains,  (* IF chains of the 'multi' modem *)
    StdChain, FskChain,   (* IF chains of the stand-alone LoRa and FSK modems *)
    RfConfs,      (* requests of lgw_rxrf_setconf *)
    IfConfs,      (* requests of lgw_rxif_setconf *)
    LutConfs,     (* requests of lgw_txgain_setconf: sequences of gains *)
    LutMax,       (* TX_GAIN_LUT_SIZE_MAX *)
    DefaultLut,   (* the initial txgain_lut *)
    Lbt,          (* whether LBT is configured *)
    Restart,      (* whether the program starts a concentrator that runs *)
    GainAtRun,    (* whether the program sets the gains while it runs *)
    FwFaults      (* whether a firmware may be loaded with errors *)

RadioTypes == {"none", "SX1255", "SX1257", "SX1272", "SX1276"}
Gain == [dig : Nat, pa : Nat, dac : Nat, mix : Nat, pow : Int]

HalAssumption ==
    /\ RfChains = {0, 1}
    /\ StdChain # FskChain /\ MultiChains \cap {StdChain, FskChain} = {}
    /\ \A r \in RfConfs :
          r \in [enable : BOOLEAN, freq : Nat, type : RadioTypes, tx : BOOLEAN, notch : Nat]
    /\ \A r \in IfConfs : r.freq \in Int
    /\ LutConfs \cup {DefaultLut} \subseteq Seq(Gain)
    /\ LutMax \in Nat \ {0}
    /\ Len(DefaultLut) \in 1 .. LutMax

VARIABLES
    rf,        (* rf_enable, rf_rx_freq, rf_radio_type, rf_tx_enable *)
    ifc,       (* if_enable, if_rf_chain, if_freq *)
    sfmask,    (* lora_multi_sfmask *)
    std,       (* lora_rx_bw, lora_rx_sf, lora_rx_ppm_offset *)
    fsk,       (* fsk_rx_bw, fsk_rx_dr *)
    lut,       (* txgain_lut: its size and its entries *)
    started,   (* lgw_is_started *)
    pc,        (* the step of lgw_start, "idle" outside of it *)
    chip       (* what the concentrator was given *)

conf == <<rf, ifc, sfmask, std, fsk>>
vars == <<rf, ifc, sfmask, std, fsk, lut, started, pc, chip>>

IfChains == MultiChains \cup {StdChain, FskChain}
SFs == 7 .. 12
LoraBws == {125000, 250000, 500000}
FskBws == {7800, 15600, 31200, 62500} \cup LoraBws
Undefined == 0                 (* BW_UNDEFINED, DR_UNDEFINED *)

ZeroGain == [dig |-> 0, pa |-> 0, dac |-> 0, mix |-> 0, pow |-> 0]
ChipOff == [connected |-> FALSE, radios |-> << >>, modems |-> << >>, lut |-> << >>,
            fw |-> "none", agc |-> "reset", runs |-> FALSE]

Init ==
    /\ rf = [c \in RfChains |-> [enable |-> FALSE, freq |-> 0, type |-> "none", tx |-> FALSE, notch |-> 0]]
    /\ ifc = [c \in IfChains |-> [enable |-> FALSE, rf |-> 0, freq |-> 0]]
    /\ sfmask = [c \in MultiChains |-> {}]
    /\ std = [bw |-> Undefined, sf |-> {}, ppm |-> FALSE]
    /\ fsk = [bw |-> Undefined, dr |-> 0]
    /\ lut = [size |-> Len(DefaultLut),
              ent |-> [i \in 1 .. LutMax |-> IF i <= Len(DefaultLut) THEN DefaultLut[i] ELSE ZeroGain]]
    /\ started = FALSE
    /\ pc = "idle"
    /\ chip = ChipOff

(***************************************************************************)
(* Configuration.                                                          *)
(***************************************************************************)

NotchOk(f) == 126000 <= f /\ f <= 250000  (* LGW_MIN_NOTCH_FREQ, LGW_MAX_NOTCH_FREQ *)

(* lgw_rxrf_setconf.  A notch frequency out of range is replaced by 0, which *)
(* lgw_fpga_configure takes for its default.                                 *)
lgw_rxrf_setconf_Notch(c, r) ==                    \* mutant: the notch is stored unchecked
    /\ pc = "idle" /\ ~started
    /\ r.type \in {"SX1255", "SX1257"}
    /\ rf' = [rf EXCEPT ![c] = r]
    /\ UNCHANGED <<ifc, sfmask, std, fsk, lut, started, pc, chip>>

lgw_rxrf_setconf(c, r) ==
    /\ pc = "idle" /\ ~started
    /\ r.type \in {"SX1255", "SX1257"}
    /\ rf' = [rf EXCEPT ![c] =
                [r EXCEPT !.notch = IF r.tx /\ ~NotchOk(@) THEN 0 ELSE @]]
    /\ UNCHANGED <<ifc, sfmask, std, fsk, lut, started, pc, chip>>

(* lgw_bw_getval; -1 for an undefined bandwidth. *)
lgw_bw_getval(bw) == IF bw \in FskBws THEN bw ELSE -1

(* The IF frequency must leave the channel inside the band of the radio.    *)
(* An undefined bandwidth counts as LGW_REF_BW: it is given its value later. *)
InBand(freq, bw) ==
    LET width == IF lgw_bw_getval(bw) = -1 THEN 125000 ELSE lgw_bw_getval(bw)
        radio == CASE bw = 250000 -> 1000000 [] bw = 500000 -> 1100000 [] OTHER -> 925000
    IN freq + width \div 2 <= radio \div 2 /\ freq - width \div 2 >= -(radio \div 2)

SetPpm(bw, sf) == (bw = 125000 /\ sf \in {{11}, {12}}) \/ (bw = 250000 /\ sf = {12})

(* The three kinds of IF chain: the defaults, the checks, what is stored.   *)
(* mutant: several spreading factors are taken for one *)
StdSetconf_AnySf(c, r) ==
    LET bw == IF r.bw = Undefined THEN 250000 ELSE r.bw
        sf == IF r.dr = {} THEN {9} ELSE r.dr
    IN /\ c = StdChain
       /\ bw \in LoraBws /\ sf \subseteq SFs
       /\ std' = [bw |-> bw, sf |-> sf, ppm |-> SetPpm(bw, sf)]
       /\ UNCHANGED <<sfmask, fsk>>

StdSetconf(c, r) ==
    LET bw == IF r.bw = Undefined THEN 250000 ELSE r.bw
        sf == IF r.dr = {} THEN {9} ELSE r.dr
    IN /\ c = StdChain
       /\ bw \in LoraBws /\ sf \in {{s} : s \in SFs}
       /\ std' = [bw |-> bw, sf |-> sf, ppm |-> SetPpm(bw, sf)]
       /\ UNCHANGED <<sfmask, fsk>>

MultiSetconf(c, r) ==
    LET bw == IF r.bw = Undefined THEN 125000 ELSE r.bw
        sf == IF r.dr = {} THEN SFs ELSE r.dr
    IN /\ c \in MultiChains
       /\ bw = 125000 /\ sf \subseteq SFs
       /\ sfmask' = [sfmask EXCEPT ![c] = sf]
       /\ UNCHANGED <<std, fsk>>

FskRate(dr) == 500 <= dr /\ dr <= 250000      (* DR_FSK_MIN, DR_FSK_MAX *)

FskSetconf(c, r) ==
    LET bw == IF r.bw = Undefined THEN 250000 ELSE r.bw
        dr == IF r.fdr = Undefined THEN 64000 ELSE r.fdr
    IN /\ c = FskChain
       /\ bw \in FskBws /\ FskRate(dr)
       /\ fsk' = [bw |-> bw, dr |-> dr]
       /\ UNCHANGED <<sfmask, std>>

(* lgw_rxif_setconf: a chain that is switched off keeps its radio and modem. *)
StoreIf(c, r) ==
    IF ~r.enable
    THEN /\ ifc' = [ifc EXCEPT ![c].enable = FALSE, ![c].freq = 0]
         /\ UNCHANGED <<sfmask, std, fsk>>
    ELSE /\ r.rf \in RfChains
         /\ InBand(r.freq, r.bw)
         /\ StdSetconf(c, r) \/ MultiSetconf(c, r) \/ FskSetconf(c, r)
         /\ ifc' = [ifc EXCEPT ![c] = [enable |-> TRUE, rf |-> r.rf, freq |-> r.freq]]

lgw_rxif_setconf_AnyTime(c, r) ==                  \* mutant: also while it runs
    pc = "idle" /\ StoreIf(c, r) /\ UNCHANGED <<rf, lut, started, pc, chip>>

lgw_rxif_setconf(c, r) ==
    pc = "idle" /\ ~started /\ StoreIf(c, r) /\ UNCHANGED <<rf, lut, started, pc, chip>>

GainOk(g) == g.dig <= 3 /\ g.dac = 3 /\ g.mix \in 8 .. 15 /\ g.pa <= 3

Refused(g) == {i \in DOMAIN g : ~GainOk(g[i])}
Upto(g) ==
    IF Refused(g) = {} THEN Len(g)
    ELSE (CHOOSE i \in Refused(g) : \A j \in Refused(g) : i <= j) - 1

(* lgw_txgain_setconf: does not look at lgw_is_started; the size is stored   *)
(* first, then the entries up to the first one that is refused.              *)
lgw_txgain_setconf(g) ==
    /\ pc = "idle"
    /\ started => GainAtRun
    /\ Len(g) \in 1 .. LutMax
    /\ lut' = [size |-> Len(g),
               ent |-> [i \in 1 .. LutMax |-> IF i <= Upto(g) THEN g[i] ELSE lut.ent[i]]]
    /\ UNCHANGED <<conf, started, pc, chip>>

(***************************************************************************)
(* lgw_start, step by step.  Fail is a return of LGW_HAL_ERROR.            *)
(***************************************************************************)
Fail == pc' = "idle" /\ UNCHANGED <<conf, lut, started>>
Go(next) == pc' = next /\ UNCHANGED <<conf, lut, started>>

(* Connect and reset: the chip forgets everything. *)
StartConnect ==
    /\ pc = "idle"
    /\ started => Restart
    /\ \/ Go("radios") /\ chip' = [ChipOff EXCEPT !.connected = TRUE]
       \/ Fail /\ chip' = [chip EXCEPT !.connected = FALSE]

(* lgw_setup_sx125x for both radios: only an enabled radio can fail. *)
StartRadios ==
    /\ pc = "radios"
    /\ \/ /\ Go(IF Lbt THEN "lbt" ELSE "calibrate")
          /\ chip' = [chip EXCEPT !.radios = [c \in RfChains |-> rf[c].enable]]
       \/ (\E c \in RfChains : rf[c].enable) /\ Fail /\ UNCHANGED chip

(* lbt_setup and lbt_start. *)
StartLbt ==
    /\ pc = "lbt"
    /\ (Go("calibrate") \/ Fail)
    /\ UNCHANGED chip

(* load_firmware writes the program and reads it back; lgw_start ignores     *)
(* what it returns, so that a program that differs stays in the processor.   *)
load_firmware(program) == {program} \cup (IF FwFaults THEN {"corrupt"} ELSE {})

(* The calibration firmware: its version and the status it leaves are        *)
(* checked; a corrupt program may still answer both.                         *)
StartCalibrate ==
    /\ pc = "calibrate"
    /\ \E program \in load_firmware("cal") : chip' = [chip EXCEPT !.fw = program]
    /\ Go("modems") \/ Fail

(* The values the modems are programmed with; the stand-alone modem must     *)
(* have one of its bandwidths and one spreading factor.                      *)
Modems ==
    [freq  |-> [c \in IfChains |-> ifc[c].freq],
     multi |-> [c \in MultiChains |-> IF ifc[c].enable THEN sfmask[c] ELSE {}],
     std   |-> IF ifc[StdChain].enable THEN <<ifc[StdChain].rf, std>> ELSE << >>,
     fsk   |-> IF ifc[FskChain].enable THEN <<ifc[FskChain].rf, fsk>> ELSE << >>]

StdProgrammable ==
    ifc[StdChain].enable => std.bw \in LoraBws /\ std.sf \in {{s} : s \in SFs}

StartModems ==
    /\ pc = "modems"
    /\ IF rf[0].freq = 0 \/ ~StdProgrammable
       THEN Fail /\ UNCHANGED chip
       ELSE Go("firmware") /\ chip' = [chip EXCEPT !.modems = Modems]

(* The AGC and arbiter firmwares; their versions are checked, then the AGC   *)
(* must have reached its initial status.                                     *)
StartFirmware ==
    /\ pc = "firmware"
    /\ \E program \in load_firmware("run") :
            chip' = [chip EXCEPT !.fw = program, !.agc = "lut"]
    /\ Go("gains") \/ Fail

(* One entry of the gain table: AGC_CMD_WAIT opens the transaction, the next *)
(* word is the entry, or AGC_CMD_ABORT (17) to end a table that is not full. *)
(* The firmware must answer with the number of the entry.                    *)
LoadVal(g) == (g.mix + 16 * g.dac + 64 * g.pa) % 256

(* mutant: the last entry is left out *)
StartGains_Short ==
    LET i == Len(chip.lut) + 1 IN
    /\ pc = "gains"
    /\ \/ /\ i < lut.size
          /\ chip' = [chip EXCEPT !.lut = Append(@, LoadVal(lut.ent[i]))]
          /\ Go("gains")
       \/ i >= lut.size /\ chip' = [chip EXCEPT !.agc = "freq"] /\ Go("end")
       \/ Fail /\ UNCHANGED chip

StartGains ==
    LET i == Len(chip.lut) + 1 IN
    /\ pc = "gains"
    /\ \/ /\ i <= lut.size
          /\ LoadVal(lut.ent[i]) # 17
          /\ chip' = [chip EXCEPT !.lut = Append(@, LoadVal(lut.ent[i])),
                                  !.agc = IF i = LutMax THEN "freq" ELSE @]
          /\ Go("gains")
       \/ i > lut.size /\ chip' = [chip EXCEPT !.agc = "freq"] /\ Go("end")
       \/ Fail /\ UNCHANGED chip

(* TX frequency, channel selection and RADIO_SELECT end the handshake; then  *)
(* the concentrator runs.                                                    *)
StartEnd ==
    /\ pc = "end"
    /\ \/ /\ chip' = [chip EXCEPT !.agc = "ready", !.runs = TRUE]
          /\ started' = TRUE /\ pc' = "idle" /\ UNCHANGED <<conf, lut>>
       \/ Fail /\ UNCHANGED chip

(* lgw_stop: soft reset, disconnect. *)
lgw_stop ==
    /\ pc = "idle"
    /\ started' = FALSE
    /\ chip' = ChipOff
    /\ UNCHANGED <<conf, lut, pc>>

Next ==
    \/ \E c \in RfChains, r \in RfConfs : lgw_rxrf_setconf(c, r)
    \/ \E c \in IfChains, r \in IfConfs : lgw_rxif_setconf(c, r)
    \/ \E g \in LutConfs : lgw_txgain_setconf(g)
    \/ StartConnect \/ StartRadios \/ StartLbt \/ StartCalibrate
    \/ StartModems \/ StartFirmware \/ StartGains \/ StartEnd
    \/ lgw_stop

Spec == Init /\ [][Next]_vars

-----------------------------------------------------------------------------
(***************************************************************************)
(* Properties.                                                             *)
(***************************************************************************)

TypeOK ==
    /\ \A c \in RfChains : rf[c].enable \in BOOLEAN /\ (rf[c].tx => rf[c].notch = 0 \/ NotchOk(rf[c].notch))
    /\ \A c \in IfChains : ifc[c].enable \in BOOLEAN /\ ifc[c].rf \in RfChains
    /\ lut.size \in 1 .. LutMax
    /\ started \in BOOLEAN
    /\ pc \in {"idle", "radios", "lbt", "calibrate", "modems", "firmware", "gains", "end"}

(* While the concentrator is started its modems, radios and gain table are   *)
(* those the configuration describes: lgw_receive computes the frequency of  *)
(* a packet, and lgw_send picks a power, from the configuration.             *)
RunsAsConfigured ==
    started /\ pc = "idle" =>
        /\ chip.runs
        /\ chip.modems = Modems
        /\ chip.radios = [c \in RfChains |-> rf[c].enable]
        /\ chip.lut = [i \in 1 .. lut.size |-> LoadVal(lut.ent[i])]

(* Whatever was accepted, lgw_start never meets a stand-alone modem without  *)
(* a bandwidth or spreading factor it can program, nor an FSK modem with the *)
(* data rate 0 it divides by.                                                *)
ModemsProgrammable == StdProgrammable /\ (ifc[FskChain].enable => fsk.dr # 0)

(* The AGC firmware leaves the gain table phase exactly when it has got the  *)
(* whole table: no entry is taken for AGC_CMD_ABORT.                         *)
GainsComplete == pc = "end" => Len(chip.lut) = lut.size

(* loragw_hal.c:104-108: the _setconf functions verify the parameters, and   *)
(* _start and _send assume they are valid: every entry of the gain table     *)
(* that is in use is one lgw_txgain_setconf accepts.                         *)
GainsValid == \A i \in 1 .. lut.size : GainOk(lut.ent[i])

(* libloragw/readme.md:396 "you must stop the concentrator before changing   *)
(* the configuration": the table the host picks from is the one the AGC has. *)
GainsAsLoaded ==
    started /\ pc = "idle" => chip.lut = [i \in 1 .. lut.size |-> LoadVal(lut.ent[i])]

(* loragw_hal.c:1115 tests lgw_is_started to "check if the concentrator is   *)
(* running".                                                                 *)
StartedMeansRuns == started /\ pc = "idle" => chip.connected /\ chip.runs

(* loragw_hal.c:213 "Read back firmware code for check": a concentrator that  *)
(* was started runs the firmware that was meant.                             *)
FirmwareIntact == started /\ pc = "idle" => chip.fw = "run"

(* loragw_hal.c:527 "check if IF frequency is optimal based on channel and   *)
(* radio bandwidths": an enabled stand-alone channel lies inside the band.   *)
ChannelInBand == ifc[StdChain].enable => InBand(ifc[StdChain].freq, std.bw)
=============================================================================
