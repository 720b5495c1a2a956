----------------------------- MODULE LgwSx127x ------------------------------
(***************************************************************************)
(* The radio of listen-before-talk (lgw_setup_sx127x, reset_sx127x and the  *)
(* setup_sx127x_FSK functions of loragw_radio.c): the setup resets the      *)
(* radio as each supported type in turn, compares the version register and  *)
(* programs the type it found for continuous FSK reception.  The reset line *)
(* is active at 1 for an SX1272 and at 0 for an SX1276.                     *)
(***************************************************************************)
EXTENDS Integers, Sequences, FiniteSets

CONSTANTS
    Freqs, Bandwidths, Offsets, (* arguments: frequency, index, rssi_offset *)
    Chips,       (* radios that may be on the board *)
    Garbage,     (* type and version found behind supported_radio_type *)
    MaxFaults,   (* bound: SPI accesses that fail *)
    None

Sx127xAssumption ==
    /\ Chips \subseteq {"SX1272", "SX1276", "other", "none"} /\ Bandwidths \subseteq 0 .. 20
    /\ Offsets \subseteq -128 .. 127 /\ MaxFaults \in Nat

VARIABLES
    arg,     (* what lgw_setup_sx127x was called with *)
    chip,    (* the radio on the board *)
    line,    (* LGW_FPGA_CTRL_RADIO_RESET *)
    regs,    (* registers of the radio: mode, frf, rssi, mant and exp *)
    i,       (* index of the probe *)
    stage,   (* "probe", "config", "receive" or "end" *)
    found,   (* radio_type *)
    result,  (* LGW_REG_SUCCESS, an error or None *)
    faults

vars == <<arg, chip, line, regs, i, stage, found, result, faults>>

(* supported_radio_type, with the versions of the chips. *)
Supported == << [type |-> "SX1272", version |-> 34], [type |-> "SX1276", version |-> 18] >>
Version(c) == CASE c = "SX1272" -> 34 [] c = "SX1276" -> 18 [] c = "other" -> 36 [] OTHER -> 0

(* sizeof is in bytes: the loop may run past the two entries of the table,   *)
(* where the program reads what happens to be behind it.                     *)
Entry(k) == IF k \in DOMAIN Supported THEN {Supported[k]} ELSE Garbage
Entries == 16

(* A radio that is held in reset answers 0. *)
InReset == (chip = "SX1272" /\ line = 1) \/ (chip = "SX1276" /\ line = 0)

(* sx127x_FskBandwidths: in hertz, the mantissa and the exponent. *)
FskBandwidths ==
    << <<2600, 2, 7>>, <<3100, 1, 7>>, <<3900, 0, 7>>, <<5200, 2, 6>>, <<6300, 1, 6>>, <<7800, 0, 6>>,
       <<10400, 2, 5>>, <<12500, 1, 5>>, <<15600, 0, 5>>, <<20800, 2, 4>>, <<25000, 1, 4>>,
       <<31300, 0, 4>>, <<41700, 2, 3>>, <<50000, 1, 3>>, <<62500, 0, 3>>, <<83333, 2, 2>>,
       <<100000, 1, 2>>, <<125000, 0, 2>>, <<166700, 2, 1>>, <<200000, 1, 1>>, <<250000, 0, 1>> >>

(* (frequency << 19) / 32000000, without the 64 bits of the code. *)
Frf(f) == (f \div 15625) * 256 + ((f % 15625) * 256) \div 15625

RssiOffsetReg_Magnitude(o) == IF o >= 0 THEN o ELSE -o    \* mutant: no two's complement
RssiOffsetReg(o) == o % 256

Config_Wide(a) ==    \* mutant: the offset is not cut to the register
    [mode |-> 1, frf |-> Frf(a.freq), rssi |-> RssiOffsetReg(a.offset) * 8 + 5,
     mant |-> FskBandwidths[a.bw + 1][2], exp |-> FskBandwidths[a.bw + 1][3]]

(* The fields of the registers; the five bits of the offset are shifted in   *)
(* eight.                                                                    *)
Config(a) ==
    [mode |-> 1, frf |-> Frf(a.freq), rssi |-> ((RssiOffsetReg(a.offset) * 8) % 256) + 5,
     mant |-> FskBandwidths[a.bw + 1][2], exp |-> FskBandwidths[a.bw + 1][3]]

Blank == [mode |-> 0, frf |-> 0, rssi |-> 0, mant |-> 0, exp |-> 0]

-----------------------------------------------------------------------------
Init ==
    /\ arg \in [freq : Freqs, bw : Bandwidths, offset : Offsets]
    /\ chip \in Chips
    /\ line = 0 /\ regs = Blank
    /\ i = 1 /\ stage = "probe" /\ found = None /\ result = None /\ faults = 0

Return(r) == stage' = "end" /\ result' = r

(* Any SPI access may fail; every function returns the error. *)
Fail ==
    /\ stage # "end" /\ faults < MaxFaults
    /\ faults' = faults + 1
    /\ Return("error")
    /\ UNCHANGED <<arg, chip, line, regs, i, found>>

(* mutant: the SX1276 is reset like the SX1272 *)
reset_sx127x_SameLine(type) == line' = 0

(* A pulse on the reset line, which ends inactive for the type. *)
reset_sx127x(type) == line' = IF type = "SX1276" THEN 1 ELSE 0

Probe_AnyVersion ==    \* mutant: the version is not compared
    /\ stage = "probe" /\ i <= Entries
    /\ \E e \in Entry(i) :
         /\ reset_sx127x(e.type)
         /\ found' = e.type
    /\ regs' = Blank /\ stage' = "config"
    /\ UNCHANGED <<arg, chip, i, result, faults>>

Probe_NoStep ==    \* mutant: the index is not increased
    /\ stage = "probe" /\ i <= Entries
    /\ UNCHANGED <<arg, chip, i, result, faults>>
    /\ \E e \in Entry(i) :
         /\ reset_sx127x(e.type)
         /\ regs' = Blank
         /\ IF e.version = (IF InReset' THEN 0 ELSE Version(chip))
            THEN found' = e.type /\ stage' = "config"
            ELSE UNCHANGED <<found, stage>>

(* One round of the loop: the reset, the version and the comparison; a type  *)
(* that cannot be reset ends the setup.                                      *)
Probe ==
    /\ stage = "probe" /\ i <= Entries
    /\ UNCHANGED <<arg, chip, faults>>
    /\ \E e \in Entry(i) :
         IF e.type \notin {"SX1272", "SX1276"}
         THEN Return("error") /\ UNCHANGED <<line, regs, i, found>>
         ELSE /\ reset_sx127x(e.type)
              /\ regs' = Blank
              /\ IF e.version = (IF InReset' THEN 0 ELSE Version(chip))
                 THEN found' = e.type /\ stage' = "config" /\ UNCHANGED <<i, result>>
                 ELSE i' = i + 1 /\ UNCHANGED <<found, stage, result>>

NotFound ==
    /\ stage = "probe" /\ i > Entries
    /\ Return("error")
    /\ UNCHANGED <<arg, chip, line, regs, i, found, faults>>

Takes(c) == IF InReset \/ chip = "none" THEN regs ELSE c

(* setup_sx1272_FSK, and setup_sx1276_FSK with two other addresses: a radio  *)
(* that is not there or is held in reset takes none of it.                   *)
setup_FSK ==
    /\ stage = "config"
    /\ regs' = Takes(Config(arg))
    /\ stage' = "receive"
    /\ UNCHANGED <<arg, chip, line, i, found, result, faults>>

(* mutant: the flags of the radio are not looked at *)
Receive_Unchecked ==
    /\ stage = "receive"
    /\ regs' = Takes([regs EXCEPT !.mode = 5])
    /\ Return("success")
    /\ UNCHANGED <<arg, chip, line, i, found, faults>>

(* Continuous reception, if the radio says RxReady and ModeReady. *)
Receive ==
    /\ stage = "receive"
    /\ regs' = Takes([regs EXCEPT !.mode = 5])
    /\ \E ready \in IF regs'.mode = 5 THEN BOOLEAN ELSE {FALSE} :
         Return(IF ready THEN "success" ELSE "error")
    /\ UNCHANGED <<arg, chip, line, i, found, faults>>

Setup == Probe \/ NotFound \/ setup_FSK \/ Receive
Next == Fail \/ Setup

Spec == Init /\ [][Next]_vars
FairSpec == Spec /\ WF_vars(Setup)

-----------------------------------------------------------------------------
(***************************************************************************)
(* Properties.                                                             *)
(***************************************************************************)

TypeOK ==
    /\ stage \in {"probe", "config", "receive", "end"} /\ i \in 1 .. Entries + 1
    /\ line \in {0, 1} /\ faults \in 0 .. MaxFaults
    /\ result \in {"success", "error", None} /\ regs.rssi \in 0 .. 255

(* A supported radio is found as what it is: probing it as the other type,   *)
(* whose reset has the other polarity, does not keep it from being found.    *)
FoundIsChip == (found # None /\ chip \in {"SX1272", "SX1276"}) => found = chip

(* A setup that reports success has the radio receiving, at the frequency    *)
(* within one step (61 Hz), with the bandwidth of the table, which is that   *)
(* of the field values within 2 per cent, and with the offset asked for, of  *)
(* five bits with sign.                                                      *)
SuccessMeansReceiving ==
    result = "success" =>
        LET hz == 32000000 \div ((16 + 4 * regs.mant) * 2^(regs.exp + 2))
            field == regs.rssi \div 8
            want == FskBandwidths[arg.bw + 1][1]
        IN /\ regs.mode = 5 /\ ~InReset
           /\ arg.freq - ((regs.frf \div 256) * 15625 + ((regs.frf % 256) * 15625) \div 256) \in 0 .. 62
           /\ hz * 100 \in want * 98 .. want * 102
           /\ arg.offset \in -16 .. 15 => (IF field > 15 THEN field - 32 ELSE field) = arg.offset

(* With a supported radio and no failed access, the setup does not end in    *)
(* the search.                                                               *)
SupportedIsFound ==
    (stage = "end" /\ faults = 0 /\ chip \in {"SX1272", "SX1276"}) => found = chip

(* The setup comes to an end. *)
SetupEnds == <>(stage = "end")

(* loragw_radio.c:537 "sx127x radio has not been found": a radio that is     *)
(* none of the supported ones is not set up.                                 *)
UnsupportedIsRefused == result = "success" => chip \in {"SX1272", "SX1276"}
=============================================================================
