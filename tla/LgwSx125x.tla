----------------------------- MODULE LgwSx125x ------------------------------
(***************************************************************************)
(* The front-end radios of the concentrator (lgw_setup_sx125x, sx125x_read  *)
(* and sx125x_write of loragw_radio.c).  Their registers are reached over   *)
(* an SPI master inside the SX1301: address and data are put in two         *)
(* registers of the SX1301 and go out when its chip select rises.  The      *)
(* results of these register accesses are ignored, so an access that fails  *)
(* leaves the old address or data in place.                                 *)
(***************************************************************************)
EXTENDS Integers, Sequences, FiniteSets

CONSTANTS
    Configs,     (* configurations: clkout and, by chain, enable, type, freq *)
    MaxAttempts, (* PLL_LOCK_MAX_ATTEMPTS *)
    MaxFaults,   (* bound: register accesses that fail *)
    None

Sx125xAssumption == MaxAttempts \in Nat \ {0} /\ MaxFaults \in Nat

Chains == {0, 1}
RadioAddrs == {0, 1, 2, 3, 8, 10, 11, 12, 13, 14, 16, 17, 38, 40}

VARIABLES
    conf,     (* the arguments of the setup *)
    spi,      (* SPI master by chain: address and data *)
    radio,    (* registers of the radios: chain -> address -> value *)
    chain,    (* the chain being set up; 2 when lgw_start has done both *)
    todo,     (* writes that are left before the PLL is started *)
    pll,      (* step of the current attempt: 0 none, 1 and 2 writes, 3 read *)
    attempts, (* cpt_attempts *)
    result,   (* by chain: 0, -1 or None *)
    faults

vars == <<conf, spi, radio, chain, todo, pll, attempts, result, faults>>

(***************************************************************************)
(* The writes of lgw_setup_sx125x, in their order; the gains and trims are  *)
(* numbered.                                                               *)
(***************************************************************************)
General(cf, ch) ==
    << <<16, IF cf.clkout = ch THEN 3 ELSE 1>> >>
    \o (CASE cf.type[ch] = 1255 -> << <<40, 13>> >> [] cf.type[ch] = 1257 -> << <<38, 13>> >>
          [] OTHER -> << >>)

Trims == << <<8, 101>>, <<10, 102>>, <<11, 103>>, <<12, 104>>, <<13, 105>>, <<14, 106>> >>

PartInt(type, f) == CASE type = 1255 -> f \div (15625 * 128) [] type = 1257 -> f \div (15625 * 256)
                      [] OTHER -> 0
PartFrac(type, f) == CASE type = 1255 -> ((f % (15625 * 128)) * 512) \div 15625
                       [] type = 1257 -> ((f % (15625 * 256)) * 256) \div 15625
                       [] OTHER -> 0

Pll_Swapped(type, f) ==    \* mutant: middle and low byte exchanged
    << <<1, PartInt(type, f) % 256>>, <<2, PartFrac(type, f) % 256>>, <<3, PartFrac(type, f) \div 256>> >>
Pll(type, f) ==
    << <<1, PartInt(type, f) % 256>>, <<2, PartFrac(type, f) \div 256>>, <<3, PartFrac(type, f) % 256>> >>

Writes(cf, ch) ==
    General(cf, ch) \o (IF cf.enable[ch] THEN Trims \o Pll(cf.type[ch], cf.freq[ch]) ELSE << >>)

-----------------------------------------------------------------------------
Init ==
    /\ conf \in Configs
    /\ spi = [ch \in Chains |-> [add |-> 0, dat |-> 0]]
    /\ radio = [ch \in Chains |-> [a \in RadioAddrs |-> 0]]
    /\ chain = 0 /\ todo = Writes(conf, 0) /\ pll = 0 /\ attempts = 0
    /\ result = [ch \in Chains |-> None] /\ faults = 0

(* What fails: the write of the address, of the data, of the chip select or  *)
(* nothing.                                                                  *)
Faults == {"none", "add", "dat", "cs"}
Fault(f) == /\ faults' = IF f = "none" THEN faults ELSE faults + 1
            /\ f = "none" \/ faults < MaxFaults

Transfer(ch, addr, data, f) ==
    LET out == [add |-> IF f = "add" THEN spi[ch].add ELSE addr,
                dat |-> IF f = "dat" THEN spi[ch].dat ELSE data]
    IN spi' = [spi EXCEPT ![ch] = out]

(* An address whose write flag is not set does not change the radio: this is *)
(* what a read leaves behind.                                                *)
sx125x_write(ch, addr, data, f) ==
    /\ Fault(f)
    /\ Transfer(ch, addr, data, f)
    /\ radio' = IF f = "cs" \/ spi'[ch].add = None THEN radio
                ELSE [radio EXCEPT ![ch][spi'[ch].add] = spi'[ch].dat]

(* The end of lgw_setup_sx125x; lgw_start goes on with radio B, or stops.    *)
Return(r) ==
    /\ result' = [result EXCEPT ![chain] = r]
    /\ chain' = IF r = 0 THEN chain + 1 ELSE 2
    /\ attempts' = 0 /\ pll' = 0
    /\ todo' = IF r = 0 /\ chain = 0 THEN Writes(conf, 1) ELSE << >>

SetupWrite ==
    /\ chain \in Chains /\ todo # << >>
    /\ todo' = Tail(todo)
    /\ \E f \in Faults : sx125x_write(chain, todo[1][1], todo[1][2], f)
    /\ UNCHANGED <<conf, chain, pll, attempts, result>>

(* A radio that is not enabled stays in standby. *)
Standby ==
    /\ chain \in Chains /\ todo = << >> /\ ~conf.enable[chain]
    /\ Return(0)
    /\ UNCHANGED <<conf, spi, radio, faults>>

AtAttempt == chain \in Chains /\ todo = << >> /\ conf.enable[chain] /\ pll = 0

GiveUp ==
    /\ AtAttempt /\ attempts >= MaxAttempts
    /\ Return(-1)
    /\ UNCHANGED <<conf, spi, radio, faults>>

PllStart_Uncounted ==    \* mutant: the attempts are not counted
    /\ AtAttempt /\ attempts < MaxAttempts
    /\ pll' = 1
    /\ UNCHANGED <<conf, spi, radio, chain, todo, attempts, result, faults>>

PllStart_OneMore ==    \* mutant: one attempt more than allowed
    /\ AtAttempt /\ attempts <= MaxAttempts
    /\ pll' = 1 /\ attempts' = attempts + 1
    /\ UNCHANGED <<conf, spi, radio, chain, todo, result, faults>>

PllStart ==
    /\ AtAttempt /\ attempts < MaxAttempts
    /\ pll' = 1 /\ attempts' = attempts + 1
    /\ UNCHANGED <<conf, spi, radio, chain, todo, result, faults>>

(* Oscillator, then receiver. *)
PllWrite ==
    /\ pll \in {1, 2}
    /\ pll' = pll + 1
    /\ \E f \in Faults : sx125x_write(chain, 0, IF pll = 1 THEN 1 ELSE 3, f)
    /\ UNCHANGED <<conf, chain, todo, attempts, result>>

Locked(ch) == radio[ch][17] = 2

(* sx125x_read of register 0x11, bit 1: when the last access fails it        *)
(* returns a variable that was never set.                                    *)
PllStatus ==
    /\ pll = 3
    /\ \E f \in {"none", "read"} :
         /\ Fault(f)
         /\ \E locked \in IF f = "read" THEN BOOLEAN ELSE {Locked(chain)} :
              IF locked THEN Return(0)
              ELSE pll' = 0 /\ UNCHANGED <<chain, todo, attempts, result>>
    /\ spi' = [spi EXCEPT ![chain] = [add |-> None, dat |-> 0]]
    /\ UNCHANGED <<conf, radio>>

(* The radio: a PLL that is on and has a frequency locks, in its own time. *)
Lock(ch) ==
    /\ radio[ch][0] = 3 /\ radio[ch][1] # 0 /\ ~Locked(ch)
    /\ radio' = [radio EXCEPT ![ch][17] = 2]
    /\ UNCHANGED <<conf, spi, chain, todo, pll, attempts, result, faults>>

Setup == SetupWrite \/ Standby \/ GiveUp \/ PllStart \/ PllWrite \/ PllStatus

Next == Setup \/ \E ch \in Chains : Lock(ch)

Spec == Init /\ [][Next]_vars
FairSpec == Spec /\ WF_vars(Setup)

-----------------------------------------------------------------------------
(***************************************************************************)
(* Properties.                                                             *)
(***************************************************************************)

TypeOK ==
    /\ chain \in 0 .. 2 /\ attempts \in 0 .. MaxAttempts /\ faults \in 0 .. MaxFaults
    /\ \A ch \in Chains : result[ch] \in {0, -1, None}
    /\ \A ch \in Chains : radio[ch][1] \in 0 .. 255

(* A setup that reports success with no failed access has the radio tuned to *)
(* within one step of the frequency asked for, and its clock goes out only   *)
(* where it was asked for; the two radios do not disturb each other.         *)
SuccessMeansTuned ==
    \A ch \in Chains : (result[ch] = 0 /\ faults = 0) =>
        LET r == radio[ch]
            unit == IF conf.type[ch] = 1255 THEN 128 ELSE 256
            f == r[1] * 15625 * unit + ((r[2] * 256 + r[3]) * 15625) \div (65536 \div unit)
        IN /\ (r[16] = 3) <=> (conf.clkout = ch)
           /\ conf.enable[ch] => Locked(ch) /\ conf.freq[ch] - f \in 0 .. 15625 \div (65536 \div unit) + 1

(* Both setups come to an end, also when a PLL never locks. *)
SetupEnds == <>(chain = 2)

(* loragw_radio.c:460 "start and PLL lock": a setup that returns 0 for an    *)
(* enabled radio has its PLL locked.                                         *)
SuccessMeansLocked ==
    \A ch \in Chains : (result[ch] = 0 /\ conf.enable[ch]) => Locked(ch)
=============================================================================
