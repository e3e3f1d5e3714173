------------------------------ MODULE SpiFlash ------------------------------
(***************************************************************************)
(* The serial NOR flash of spiflash.c: its command decoder, the array and  *)
(* the host file that keeps it.  A cell is one bit, TRUE when erased: it   *)
(* stands for a byte of which only `programmed or not' matters.  The chip  *)
(* select is a GPIO pin that is sampled only when a byte is exchanged.     *)
(***************************************************************************)
EXTENDS Integers, Sequences

CONSTANTS
    FlashSize,      \* bytes of the array
    PageSize,       \* SPIFLASH_PAGE_SIZE
    SectorSize,     \* 4 KiB sector of command 0x20
    BlockSize,      \* 64 KiB block of command 0xD8
    AddrBytes,      \* address bytes of a command (3)
    MaxInstr        \* bound on the instructions between two starts
ASSUME SpiFlashGeometry ==
    /\ {FlashSize, PageSize, SectorSize, BlockSize, AddrBytes, MaxInstr} \subseteq Nat \ {0}

VARIABLES
    fl,         \* struct mm_spiflash without the array
    mem,        \* the array
    file,       \* the cells in the host file, shorter after a torn write
    csValid,    \* a chip select pin was given
    pin,        \* the level of that pin: 1 also while it is no output
    failed,     \* history: the last attempt to write the file failed or was cut short
    instr,      \* history: instructions since the start
    spent       \* history: the instruction that used the last WREN, or 0
spiflashVars == <<fl, mem, file, csValid, pin, failed, instr, spent>>

Cells == 0 .. FlashSize - 1
Contents(m) == [k \in 1 .. FlashSize |-> m[k - 1]]
AlignDown(a, n) == a - (a % n)
Commands == {"WREN", "WRDI", "RDSR", "WRSR", "RDID", "READ", "PP", "SE", "BE", "CE", "none"}

\* What the host does with a write of the file: it refuses to open it, or wrote it,
\* which empties it, and takes some or all of the bytes
Refused == -1
Writes == {Refused} \cup 0 .. FlashSize

Fresh == [state |-> "IDLE", cmd |-> "none", addr |-> 0, page |-> 0, have |-> 0,
          we |-> FALSE, bp |-> FALSE, cs |-> 1, dirty |-> FALSE]

-----------------------------------------------------------------------------

\* The file is truncated and written again.  A write cut short is reported on stderr,
\* if fwrite and not fclose finds it, and counts as done
spiflash_sync(f, m, old, wrote) ==
    CASE ~f.dirty -> [fl |-> f, file |-> old, failed |-> failed]
      [] f.dirty /\ wrote = Refused -> [fl |-> f, file |-> old, failed |-> TRUE]
      [] OTHER -> [fl |-> [f EXCEPT !.dirty = FALSE], file |-> SubSeq(Contents(m), 1, wrote),
                   failed |-> wrote < FlashSize]

\* A short or missing file leaves the rest erased, and is completed at once
spiflash_load(content, wrote) ==
    LET m == [a \in Cells |-> IF a < Len(content) THEN content[a + 1] ELSE TRUE]
        s == spiflash_sync([Fresh EXCEPT !.dirty = TRUE], m, content, wrote)
    IN /\ mem' = m
       /\ IF Len(content) < FlashSize
            THEN fl' = s.fl /\ file' = s.file /\ failed' = s.failed
            ELSE fl' = Fresh /\ file' = content /\ failed' = FALSE

\* Mutant of spiflash_erase_range: the file is left to the next page program.
spiflash_erase_range_Mut(f, m, lo, n, wrote) ==
    [mem |-> [a \in Cells |-> m[a] \/ a \in lo .. lo + n - 1],
     fl |-> [f EXCEPT !.dirty = TRUE], file |-> file, failed |-> failed]

spiflash_erase_range(f, m, lo, n, wrote) ==
    LET e == [a \in Cells |-> m[a] \/ a \in lo .. lo + n - 1]
        s == spiflash_sync([f EXCEPT !.dirty = TRUE], e, file, wrote)
    IN [mem |-> e, fl |-> s.fl, file |-> s.file, failed |-> s.failed]

\* Mutant of mm_spiflash_cs_deassert: a page program leaves the write enable latch set.
mm_spiflash_cs_deassert_Mut(f, wrote) ==
    LET s == IF f.state = "PP" THEN spiflash_sync(f, mem, file, wrote)
                               ELSE [fl |-> f, file |-> file, failed |-> failed]
    IN [fl |-> [s.fl EXCEPT !.state = "IDLE", !.cmd = "none", !.addr = 0, !.have = 0],
        file |-> s.file, failed |-> s.failed]

mm_spiflash_cs_deassert(f, wrote) ==
    LET s == IF f.state = "PP" THEN spiflash_sync(f, mem, file, wrote)
                               ELSE [fl |-> f, file |-> file, failed |-> failed]
    IN [fl |-> [s.fl EXCEPT !.we = @ /\ f.cmd # "PP", !.state = "IDLE",
                            !.cmd = "none", !.addr = 0, !.have = 0],
        file |-> s.file, failed |-> s.failed]

\* spiflash_sample_cs and mm_spiflash_set_cs
spiflash_sample_cs(wrote) ==
    LET same == [fl |-> [fl EXCEPT !.cs = pin], file |-> file, failed |-> failed]
    IN IF csValid /\ pin = 1 /\ fl.cs = 0
         THEN mm_spiflash_cs_deassert([fl EXCEPT !.cs = 1], wrote)
         ELSE IF csValid THEN same ELSE [same EXCEPT !.fl = fl]

-----------------------------------------------------------------------------
(* mm_spiflash_xfer, by state of the decoder.  s is the state after the chip   *)
(* select was sampled.                                                         *)

Settle(s, f) == fl' = f /\ file' = s.file /\ failed' = s.failed

Erase(s, lo, n, wrote) ==
    IF s.fl.we
      THEN LET e == spiflash_erase_range([s.fl EXCEPT !.we = FALSE, !.state = "IDLE"], mem, lo, n, wrote)
           IN /\ mem' = e.mem /\ fl' = e.fl /\ file' = e.file /\ failed' = e.failed
              /\ spent' = instr'
      ELSE Settle(s, [s.fl EXCEPT !.state = "IDLE"]) /\ UNCHANGED <<mem, spent>>

xfer_idle(s, cmd, wrote) ==
    LET f == [s.fl EXCEPT !.cmd = cmd, !.addr = 0, !.have = 0] IN
    /\ s.fl.state = "IDLE" /\ instr < MaxInstr
    /\ instr' = instr + 1
    /\ CASE cmd = "WREN" -> Settle(s, [f EXCEPT !.we = TRUE]) /\ spent' = 0 /\ UNCHANGED mem
         [] cmd = "WRDI" -> Settle(s, [f EXCEPT !.we = FALSE]) /\ UNCHANGED <<mem, spent>>
         [] cmd = "RDSR" -> Settle(s, [f EXCEPT !.state = "STATUS_READ"]) /\ UNCHANGED <<mem, spent>>
         [] cmd = "WRSR" -> Settle(s, [f EXCEPT !.state = "STATUS_WRITE"]) /\ UNCHANGED <<mem, spent>>
         [] cmd = "RDID" -> Settle(s, [f EXCEPT !.state = "READ"]) /\ UNCHANGED <<mem, spent>>
         [] cmd \in {"READ", "PP", "SE", "BE"} ->
              Settle(s, [f EXCEPT !.state = "ADDR"]) /\ UNCHANGED <<mem, spent>>
         [] cmd = "CE" -> Erase([s EXCEPT !.fl = f], 0, FlashSize, wrote)
         [] OTHER -> Settle(s, f) /\ UNCHANGED <<mem, spent>>

\* The address is complete with its last byte; which one it is, is an input
xfer_addr(s, a, wrote) ==
    LET f == [s.fl EXCEPT !.have = @ + 1]
        g == [f EXCEPT !.addr = a, !.page = AlignDown(a, PageSize)]
    IN /\ s.fl.state = "ADDR"
       /\ IF f.have < AddrBytes
            THEN Settle(s, f) /\ UNCHANGED <<mem, instr, spent>>
            ELSE /\ UNCHANGED instr
                 /\ CASE f.cmd = "READ" -> Settle(s, [g EXCEPT !.state = "READ"]) /\ UNCHANGED <<mem, spent>>
                      [] f.cmd = "PP" -> Settle(s, [g EXCEPT !.state = "PP"]) /\ UNCHANGED <<mem, spent>>
                      [] f.cmd = "SE" -> Erase([s EXCEPT !.fl = g], AlignDown(a, SectorSize), SectorSize, wrote)
                      [] f.cmd = "BE" -> Erase([s EXCEPT !.fl = g], AlignDown(a, BlockSize), BlockSize, wrote)

xfer_read(s) ==
    /\ s.fl.state = "READ"
    /\ Settle(s, [s.fl EXCEPT !.addr = (@ + 1) % FlashSize])
    /\ UNCHANGED <<mem, instr, spent>>

\* Programming clears bits and wraps within the page
xfer_pp(s, byte) ==
    LET a == s.fl.addr % FlashSize
        m == [mem EXCEPT ![a] = @ /\ byte]
        next == s.fl.addr + 1
    IN /\ s.fl.state = "PP"
       /\ mem' = IF s.fl.we THEN m ELSE mem
       /\ Settle(s, [s.fl EXCEPT !.dirty = @ \/ mem' # mem,
                                 !.addr = IF AlignDown(next, PageSize) = s.fl.page THEN next ELSE s.fl.page])
       /\ spent' = IF mem' # mem THEN instr ELSE spent
       /\ UNCHANGED instr

\* RDSR repeats the status; WRSR sets the protection bits
xfer_status(s, bp) ==
    /\ s.fl.state \in {"STATUS_READ", "STATUS_WRITE"}
    /\ IF s.fl.state = "STATUS_READ"
         THEN Settle(s, s.fl)
         ELSE Settle(s, [s.fl EXCEPT !.state = "IDLE", !.we = FALSE,
                                     !.bp = IF s.fl.we THEN bp ELSE @])
    /\ UNCHANGED <<mem, instr, spent>>

mm_spiflash_xfer(s, wrote) ==
    \/ \E cmd \in Commands : xfer_idle(s, cmd, wrote)
    \/ \E a \in Cells : xfer_addr(s, a, wrote)
    \/ xfer_read(s)
    \/ \E byte \in BOOLEAN : xfer_pp(s, byte)
    \/ \E bp \in BOOLEAN : xfer_status(s, bp)

\* A byte on the bus; with the chip select high it is dropped
spiflash_bus_xfer(wrote) ==
    LET s == spiflash_sample_cs(wrote) IN
    /\ IF csValid /\ pin = 1
         THEN Settle(s, s.fl) /\ UNCHANGED <<mem, instr, spent>>
         ELSE mm_spiflash_xfer(s, wrote)
    /\ UNCHANGED <<csValid, pin>>

\* The controller ends a transfer, and mm_spiflash_reset_all at a reset
spiflash_bus_end(wrote) ==
    LET s == mm_spiflash_cs_deassert(fl, wrote) IN
    /\ Settle(s, s.fl)
    /\ UNCHANGED <<mem, csValid, pin, instr, spent>>

DrivePin ==
    /\ csValid /\ pin' = 1 - pin
    /\ UNCHANGED <<fl, mem, file, csValid, failed, instr, spent>>

\* mm_spiflash_shutdown_all, then the next start of the emulator
Restart(wrote) ==
    LET s == spiflash_sync(fl, mem, file, wrote) IN
    /\ \E again \in Writes : spiflash_load(s.file, again)
    /\ instr' = 0 /\ spent' = 0 /\ pin' = 1 /\ UNCHANGED csValid

\* The emulator is killed: between two steps, or while the file is being written
Kill ==
    /\ \E wrote \in Writes :
         \/ spiflash_load(file, wrote)
         \/ fl.dirty /\ \E n \in 0 .. FlashSize - 1 : spiflash_load(SubSeq(Contents(mem), 1, n), wrote)
    /\ instr' = 0 /\ spent' = 0 /\ pin' = 1 /\ UNCHANGED csValid

SpiFlashAtReset ==
    /\ mem \in [Cells -> BOOLEAN]
    /\ fl = Fresh /\ file = Contents(mem)
    /\ csValid \in BOOLEAN /\ pin = 1
    /\ failed = FALSE /\ instr = 0 /\ spent = 0

SpiFlashNext ==
    \/ \E wrote \in Writes : spiflash_bus_xfer(wrote)
    \/ \E wrote \in Writes : spiflash_bus_end(wrote)
    \/ DrivePin
    \/ \E wrote \in Writes : Restart(wrote)
    \/ Kill

SpiFlashSpec == SpiFlashAtReset /\ [][SpiFlashNext]_spiflashVars

-----------------------------------------------------------------------------
(* Properties *)

\* The decoder is in one of its states with an address inside the array.
SpiFlashTypeOK ==
    /\ fl.state \in {"IDLE", "ADDR", "READ", "PP", "STATUS_READ", "STATUS_WRITE"}
    /\ fl.page \in Cells /\ fl.addr \in Cells \cup fl.page .. fl.page + PageSize - 1 /\ fl.have \in 0 .. AddrBytes
    /\ mem \in [Cells -> BOOLEAN] /\ Len(file) <= FlashSize

\* One WREN lets at most one program or erase instruction change the array, however
\* the instructions are cut by the chip select, by ends of transfers and by resets
\* (write_enable in mm_spiflash_xfer and mm_spiflash_cs_deassert).
WrenCoversOneInstruction ==
    [][(mem' # mem /\ instr' # 0) => spent \in {0, instr'}]_spiflashVars

\* Outside a page program the host file holds the array, unless the last write of it
\* was refused or cut short: else a kill between two instructions loses nothing
\* (spiflash_sync, which clears the dirty mark even after a short write).
FileFollowsArray == fl.state # "PP" /\ ~failed => file = Contents(mem)

=============================================================================
