------------------------------- MODULE LgwReg -------------------------------
(***************************************************************************)
(* Register access of the concentrator library (loragw_reg.c,             *)
(* loragw_fpga.c, loragw_spi.native.c).  Registers are named bit fields of *)
(* the bytes of a paged memory.  The library keeps the page it believes    *)
(* selected in lgw_regpage and writes the page register of the chip only   *)
(* when another page is wanted.  Every call is a short sequence of SPI     *)
(* transactions, any of which may fail.                                    *)
(*                                                                         *)
(* A byte has ByteBits bits (8 in the code) and a burst is cut in chunks   *)
(* of Chunk bytes (LGW_BURST_CHUNK).                                       *)
(***************************************************************************)
EXTENDS Integers, Sequences, FiniteSets, SequencesExt

CONSTANTS
    Regs,        (* names of the registers of the chip *)
    Loregs,      (* loregs[]: register name to its page, place and length *)
    FpgaRegs,    (* names of the registers of the FPGA *)
    Addrs,       (* addresses of a page *)
    Pages,       (* pages of the chip; -1 stands for every page *)
    ByteBits, Chunk,
    Values,      (* values the caller writes *)
    Bursts,      (* data of the caller's burst writes *)
    MaxFaults,   (* bound: SPI transactions that fail *)
    OpenFaults   (* whether the device may fail to open again *)

(* struct lgw_reg_s, without the default value. *)
Register == [page: Pages \cup {-1}, addr: Addrs, offs: Nat, leng: Nat \ {0},
             sign: BOOLEAN, rdon: BOOLEAN]

ASSUME RegAssumption ==
    /\ Loregs \in [Regs \cup FpgaRegs -> Register]
    /\ ByteBits \in Nat \ {0}
    /\ Chunk \in Nat \ {0}
    /\ Addrs \subseteq Nat
    /\ MaxFaults \in Nat

VARIABLES
    target,      (* lgw_spi_target: NULL, a descriptor, or freed memory *)
    fds,         (* descriptors of the SPI device that are open *)
    muxMode,     (* lgw_spi_mux_mode *)
    regpage,     (* lgw_regpage *)
    chipPage,    (* the page the chip has selected *)
    mem,         (* bytes of the chip and of the FPGA *)
    faults,      (* failed transactions *)
    stale,       (* whether the last write of the page failed and nobody was told *)
    written,     (* per register, the value last written with success, if it    *)
                 (* fits: {v} or {}                                             *)
    doubt,       (* registers whose value an error or an astray write may have hit *)
    ret          (* the last access: whether a read returned what was written   *)
                 (* or a burst said what became of it, and whether there was    *)
                 (* doubt                                                       *)

vars == <<target, fds, muxMode, regpage, chipPage, mem, faults, stale, written, doubt, ret>>

HasFpga == FpgaRegs # {}
None == [op |-> "none"]
Answer(right, doubted) == [op |-> "answer", right |-> right, doubt |-> doubted]

Bytes == 0 .. (2^ByteBits - 1)
(* Every byte: those of a page, those all pages share, those of the FPGA. *)
Fpga == -2
Cells == (Pages \cup {-1, Fpga}) \X Addrs

(* Where byte i of register r is reached while the chip has page p. *)
Cell(n, p, i) ==
    << IF n \in FpgaRegs THEN Fpga ELSE IF Loregs[n].page = -1 THEN -1 ELSE p,
       Loregs[n].addr + i >>

Connected == target # "null" /\ regpage >= 0
Registers == Regs \cup FpgaRegs

(***************************************************************************)
(* The SPI transactions of one byte: the command with the place, led by    *)
(* the target when there is a multiplexer, and the byte.  One that was cut *)
(* short has not moved it; the caller's byte then stays at 0.              *)
(***************************************************************************)
lgw_spi_w(m, cell, byte, ok) == IF ok THEN [m EXCEPT ![cell] = byte] ELSE m

lgw_spi_r(m, cell, ok) == IF ok THEN m[cell] ELSE 0

(***************************************************************************)
(* Values and bit fields.                                                  *)
(***************************************************************************)
SizeByte(r) == (r.leng + ByteBits - 1) \div ByteBits

(* The bytes an access of register n meets while the chip has page p, and   *)
(* the registers that live in them; an access is astray on a wrong page.    *)
CellsOf(n, p) == {Cell(n, p, i) : i \in 0 .. SizeByte(Loregs[n]) - 1}
Beside(n, p) == {k \in Registers : CellsOf(k, Loregs[k].page) \cap CellsOf(n, p) # {}}
Astray(n, p) == n \in Regs /\ Loregs[n].page \notin {-1, p}

Signed(r, u) == IF r.sign /\ u >= 2^(r.leng - 1) THEN u - 2^r.leng ELSE u

(* reg_w_align32: one byte is read, its field replaced and written back; a *)
(* longer register is written in one burst, least significant byte first.  *)
Mixed_Whole(r, old, v) == ((v % 2^r.leng) * 2^r.offs) % 2^ByteBits  \* mutant

Mixed(r, old, v) ==
    LET low == old % 2^r.offs
        high == (old \div 2^(r.offs + r.leng)) * 2^(r.offs + r.leng)
    IN high + (v % 2^r.leng) * 2^r.offs + low

NewByte_Wide(r, old, v, i) == Mixed(r, old, v)     \* mutant: one byte of any width

NewByte(r, old, v, i) ==
    IF r.offs + r.leng <= ByteBits
    THEN Mixed(r, old, v) % 2^ByteBits
    ELSE ((v % 2^(ByteBits * SizeByte(r))) \div 2^(ByteBits * i)) % 2^ByteBits

WriteReg(m, n, p, v, readOk, writeOk) ==
    LET r == Loregs[n]
        first == Cell(n, p, 0)
    IN IF r.offs + r.leng <= ByteBits
       THEN lgw_spi_w(m, first, NewByte(r, lgw_spi_r(m, first, readOk), v, 0), writeOk)
       ELSE [c \in Cells |->
               IF writeOk /\ \E i \in 0 .. SizeByte(r) - 1 : c = Cell(n, p, i)
               THEN NewByte(r, 0, v, c[2] - r.addr) ELSE m[c]]

(* reg_r_align32: the field shifted to the right, or the bytes put together. *)
(* A register of several bytes is not cut to its length when unsigned.       *)
ReadReg(m, n, p) ==
    LET r == Loregs[n]
        sum == FoldRight(LAMBDA b, acc : acc * 2^ByteBits + b,
                         [i \in 1 .. SizeByte(r) |-> m[Cell(n, p, i - 1)]], 0)
    IN IF r.offs + r.leng <= ByteBits
       THEN Signed(r, (m[Cell(n, p, 0)] \div 2^r.offs) % 2^r.leng)
       ELSE IF r.sign THEN Signed(r, sum % 2^r.leng) ELSE sum

(* A transaction fails, within the bound. *)
MayFail(bits) == faults + Cardinality({i \in DOMAIN bits : ~bits[i]}) <= MaxFaults

(***************************************************************************)
(* Opening and closing.                                                    *)
(***************************************************************************)
Init ==
    /\ target = "null" /\ fds = 0
    /\ muxMode = 0
    /\ regpage = -1
    /\ chipPage \in Pages
    /\ mem = [c \in Cells |-> 0]
    /\ faults = 0
    /\ stale = FALSE
    /\ written = [n \in Registers |-> {}]
    /\ doubt = {}
    /\ ret = None

Link == [ptr |-> target, fds |-> fds]

(* lgw_spi_close: the descriptor is closed and its memory freed; the        *)
(* caller's pointer still points there.                                     *)
lgw_spi_close(link) == [ptr |-> "dangling", fds |-> link.fds - 1]

(* lgw_spi_open: any failure leaves the caller's pointer as it was. *)
SpiOpen_Keeps(ok) ==                               \* mutant: no close before the open
    IF ok THEN target' = "open" /\ fds' = fds + 1
    ELSE target' = target /\ fds' = fds

SpiOpen(ok) ==
    LET link == IF target = "open" THEN lgw_spi_close(Link) ELSE Link IN
    /\ target' = IF ok THEN "open" ELSE link.ptr
    /\ fds' = IF ok THEN link.fds + 1 ELSE link.fds

(* lgw_connect: a link that is still open is closed first; then the FPGA    *)
(* and the chip are looked for, and page 0 is selected.  The first failure  *)
(* ends the call: what was done before it stays.                            *)
lgw_connect(spiOnly) ==
    /\ target # "dangling"
    /\ \E openOk, verOk, fpgaOk, chipOk, pageOk \in BOOLEAN :
        /\ MayFail(<<openOk, verOk, fpgaOk, chipOk, pageOk>>)
        /\ openOk \/ OpenFaults \/ target = "null"
        /\ SpiOpen(openOk)
        /\ faults' = faults + Cardinality({i \in 1 .. 5 :
                                ~ <<openOk, verOk, fpgaOk, chipOk, pageOk>>[i]})
        /\ LET probed == openOk /\ ~spiOnly
               found  == probed /\ verOk
               ready  == found /\ (fpgaOk \/ ~HasFpga) /\ chipOk
           IN /\ muxMode' = IF found THEN (IF HasFpga THEN 1 ELSE 0) ELSE muxMode
              /\ mem' = IF found /\ HasFpga
                        THEN [c \in Cells |-> IF c[1] = Fpga THEN 0 ELSE mem[c]] ELSE mem
              /\ written' = [n \in Registers |->
                        IF found /\ HasFpga /\ n \in FpgaRegs THEN {} ELSE written[n]]
              /\ chipPage' = IF ready /\ pageOk THEN 0 ELSE chipPage
              /\ regpage' = IF ready /\ pageOk THEN 0 ELSE regpage
              /\ stale' = (stale /\ ~(ready /\ pageOk))
              /\ doubt' = IF found /\ HasFpga THEN doubt \ FpgaRegs ELSE doubt
    /\ ret' = None

(* lgw_disconnect. *)
lgw_disconnect ==
    /\ target = "open"
    /\ target' = "null"
    /\ fds' = lgw_spi_close(Link).fds
    /\ ret' = None
    /\ UNCHANGED <<muxMode, regpage, chipPage, mem, faults, stale, written, doubt>>

(* lgw_soft_reset: the status of the SPI write is not looked at. *)
lgw_soft_reset ==
    /\ Connected /\ target = "open"
    /\ \E ok \in BOOLEAN :
        /\ MayFail(<<ok>>)
        /\ stale' = ~ok
        /\ faults' = IF ok THEN faults ELSE faults + 1
        /\ chipPage' = IF ok THEN 0 ELSE chipPage
        /\ mem' = IF ok THEN [c \in Cells |-> IF c[1] = Fpga THEN mem[c] ELSE 0] ELSE mem
    /\ regpage' = 0
    /\ written' = [n \in Registers |-> IF n \in FpgaRegs THEN written[n] ELSE {}]
    /\ doubt' = doubt \cap FpgaRegs
    /\ ret' = None
    /\ UNCHANGED <<target, fds, muxMode>>

(***************************************************************************)
(* Access by name.                                                         *)
(***************************************************************************)

(* page_switch: the cached page is set before the write, whose status is   *)
(* dropped.                                                                *)
page_switch_OnlyCache(n, ok) ==                    \* mutant: the chip is not told
    LET p == Loregs[n].page
        wanted == n \in Regs /\ p # -1 /\ p # regpage
    IN /\ ok \/ wanted
       /\ regpage' = IF wanted THEN p ELSE regpage
       /\ chipPage' = chipPage
       /\ stale' = IF wanted THEN ~ok ELSE stale

page_switch(n, ok) ==
    LET p == Loregs[n].page
        wanted == n \in Regs /\ p # -1 /\ p # regpage
    IN /\ ok \/ wanted
       /\ regpage' = IF wanted THEN p ELSE regpage
       /\ chipPage' = IF wanted /\ ok THEN p ELSE chipPage
       /\ stale' = IF wanted THEN ~ok ELSE stale

(* The registers that may have lost the value they were given, once         *)
(* register n was written and the call said ok: what shares its bytes after *)
(* an error, what has the bytes that an astray write met.                   *)
Doubted(n, ok) ==
    IF ok /\ ~Astray(n, chipPage') THEN doubt \ {n}
    ELSE {k \in doubt \cup Beside(n, chipPage') \cup {n} : written'[k] # {}}

(* What a read should return after a write of v that said ok. *)
Given(n, v, ok) ==
    {x \in {v} : ok /\ LET r == Loregs[n] IN
        IF r.sign THEN x \in -2^(r.leng - 1) .. 2^(r.leng - 1) - 1
                  ELSE x \in 0 .. 2^r.leng - 1}

(* A write by name: the read of the read-modify-write and the write may     *)
(* each fail; both make the call fail, and the write is done even when the  *)
(* read failed.  A byte that is a register of its own is not read.          *)
Write(n, v) ==
    LET r == Loregs[n]
        mixes == r.offs + r.leng <= ByteBits /\ ~(r.leng = ByteBits /\ r.offs = 0)
    IN
    /\ ~r.rdon
    /\ \E pageOk, readOk, writeOk \in BOOLEAN :
        /\ MayFail(<<pageOk, readOk, writeOk>>)
        /\ readOk \/ mixes
        /\ page_switch(n, pageOk)
        /\ faults' = faults + Cardinality({i \in 1 .. 3 : ~ <<pageOk, readOk, writeOk>>[i]})
        /\ mem' = WriteReg(mem, n, chipPage', v, readOk, writeOk)
        /\ written' = [written EXCEPT ![n] = Given(n, v, readOk /\ writeOk)]
        /\ doubt' = Doubted(n, readOk /\ writeOk)
    /\ ret' = None
    /\ UNCHANGED <<target, fds, muxMode>>

Read(n) ==
    /\ \E pageOk, readOk \in BOOLEAN :
        /\ MayFail(<<pageOk, readOk>>)
        /\ page_switch(n, pageOk)
        /\ faults' = faults + Cardinality({i \in 1 .. 2 : ~ <<pageOk, readOk>>[i]})
        /\ ret' = IF readOk /\ ~Astray(n, chipPage') /\ written[n] # {}
                  THEN Answer(ReadReg(mem, n, chipPage') \in written[n], n \in doubt)
                  ELSE None
    /\ UNCHANGED <<target, fds, muxMode, mem, written, doubt>>

(* lgw_reg_w and lgw_reg_r want a page that was selected once; the FPGA     *)
(* registers only want the pointer.                                         *)
lgw_reg_w(n, v)      == n \in Regs /\ Connected /\ target = "open" /\ Write(n, v)
lgw_reg_r(n)         == n \in Regs /\ Connected /\ target = "open" /\ Read(n)
lgw_fpga_reg_w(n, v) == n \in FpgaRegs /\ target = "open" /\ Write(n, v)
lgw_fpga_reg_r(n)    == n \in FpgaRegs /\ target = "open" /\ Read(n)

(***************************************************************************)
(* Bursts.                                                                 *)
(***************************************************************************)

(* The chunks of a burst of size bytes. *)
ChunkSizes(size) ==
    [i \in 1 .. (size + Chunk - 1) \div Chunk |->
        IF i * Chunk <= size THEN Chunk ELSE size - (i - 1) * Chunk]

(* The bytes moved, as lgw_spi_wb and lgw_spi_rb count them: a chunk that   *)
(* fails counts -1, and the length of the command is subtracted.            *)
Moved_Sizes(mode, size, okChunks) == size          \* mutant: adds the sizes of the chunks

Moved(mode, size, okChunks) ==
    LET command == IF mode = 1 THEN 2 ELSE 1 IN
    FoldSeq(LAMBDA a, b : a + b, 0,
            [i \in DOMAIN ChunkSizes(size) |->
                IF i \in okChunks THEN ChunkSizes(size)[i] ELSE -1 - command])

(* What a burst returns.  The FPGA is always reached through the            *)
(* multiplexer.                                                             *)
BurstOk(n, size, okChunks) ==
    Moved(IF n \in FpgaRegs THEN 1 ELSE muxMode, size, okChunks) = size

(* The SPI part of a burst: the chunks that went through. *)
Burst(n, size, okChunks) ==
    LET failed == (1 .. (size + Chunk - 1) \div Chunk) \ okChunks IN
    \E pageOk \in BOOLEAN :
        /\ faults + Cardinality(failed) + (IF pageOk THEN 0 ELSE 1) <= MaxFaults
        /\ page_switch(n, pageOk)
        /\ faults' = faults + Cardinality(failed) + (IF pageOk THEN 0 ELSE 1)
        /\ ret' = Answer(BurstOk(n, size, okChunks) <=> failed = {}, FALSE)

(* A register that takes bursts is a port: the last byte stays visible at   *)
(* its address.                                                             *)
BurstWrite(n, data) ==
    /\ data # << >> /\ ~Loregs[n].rdon /\ Loregs[n].leng = ByteBits
    /\ \E okChunks \in SUBSET DOMAIN ChunkSizes(Len(data)) :
        LET ends == {i * Chunk : i \in okChunks}
            last == CHOOSE e \in ends : \A f \in ends : f <= e
        IN
        /\ Burst(n, Len(data), okChunks)
        /\ mem' = IF ends = {} THEN mem
                  ELSE [mem EXCEPT ![Cell(n, chipPage', 0)] =
                            data[IF last <= Len(data) THEN last ELSE Len(data)]]
        /\ written' = [written EXCEPT ![n] = Given(n, data[Len(data)], BurstOk(n, Len(data), okChunks))]
        /\ doubt' = Doubted(n, BurstOk(n, Len(data), okChunks))
    /\ UNCHANGED <<target, fds, muxMode>>

BurstRead(n, size) ==
    /\ size > 0
    /\ \E okChunks \in SUBSET DOMAIN ChunkSizes(size) : Burst(n, size, okChunks)
    /\ UNCHANGED <<target, fds, muxMode, mem, written, doubt>>

lgw_reg_wb(n, data)      == n \in Regs /\ Connected /\ target = "open" /\ BurstWrite(n, data)
lgw_reg_rb(n, size)      == n \in Regs /\ Connected /\ target = "open" /\ BurstRead(n, size)
lgw_fpga_reg_wb(n, data) == n \in FpgaRegs /\ target = "open" /\ BurstWrite(n, data)
lgw_fpga_reg_rb(n, size) == n \in FpgaRegs /\ target = "open" /\ BurstRead(n, size)

Next ==
    \/ \E spiOnly \in BOOLEAN : lgw_connect(spiOnly)
    \/ lgw_disconnect
    \/ lgw_soft_reset
    \/ \E n \in Registers, v \in Values : lgw_reg_w(n, v) \/ lgw_fpga_reg_w(n, v)
    \/ \E n \in Registers : lgw_reg_r(n) \/ lgw_fpga_reg_r(n)
    \/ \E n \in Registers, data \in Bursts : lgw_reg_wb(n, data) \/ lgw_fpga_reg_wb(n, data)
    \/ \E n \in Registers, data \in Bursts :
           lgw_reg_rb(n, Len(data)) \/ lgw_fpga_reg_rb(n, Len(data))

Spec == Init /\ [][Next]_vars

-----------------------------------------------------------------------------
(***************************************************************************)
(* Properties.                                                             *)
(***************************************************************************)

TypeOK ==
    /\ target \in {"null", "open", "dangling"}
    /\ fds \in Nat
    /\ muxMode \in {0, 1}
    /\ regpage \in Pages \cup {-1}
    /\ chipPage \in Pages
    /\ mem \in [Cells -> Bytes]
    /\ faults \in 0 .. MaxFaults

(* The page kept in lgw_regpage is the page of the chip whenever the        *)
(* registers are usable, through every connect, disconnect, reset, page     *)
(* switch and failed transaction, but after a page write of page_switch or  *)
(* lgw_soft_reset that failed: they drop its status (loragw_reg.c:404,      *)
(* 597).  It is so only until the next write of the page that goes through. *)
PageInStep == Connected => regpage = chipPage \/ stale

(* A read that succeeds returns the value last written with success, sign   *)
(* and all, if it fits the field: writes of the other fields of the byte, of *)
(* other pages and of the FPGA leave it alone.  Whoever loses a value was   *)
(* told or is off the page: since that write a call for a register of the   *)
(* same byte returned an error, or an access went to a wrong page.  A burst *)
(* reports success exactly when every chunk of it went through.             *)
AnswersRight == ret.op = "answer" => ret.right \/ ret.doubt

(* lgw_spi_target is NULL or an open descriptor, and no descriptor is lost, *)
(* through connects, reconnects and failures.                               *)
TargetOpen == (target = "open" <=> fds = 1) /\ target # "dangling" /\ fds <= 1

(* loragw_reg.c:434 "mixing old & new data": the property AnswersRight      *)
(* without its exception.  After a read that failed the old data is 0 and   *)
(* is written; after a page write that failed, over another page's register. *)
FieldsKept == ret.op = "answer" => ret.right

(* loragw_reg.c:391 "keep the value of the register page selected": the     *)
(* property PageInStep without the exception of the failed page write.      *)
PageKept == Connected => regpage = chipPage

(* loragw_reg.c:648 tests the pointer to know "if SPI is initialised": the  *)
(* property TargetOpen when the device may fail to open again.              *)
PointerMeansOpen == target # "null" => fds >= 1
=============================================================================
