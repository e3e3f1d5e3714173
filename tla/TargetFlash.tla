---------------------------- MODULE TargetFlash -----------------------------
(***************************************************************************)
(* On-chip flash: the STM32 FLASH controller (one copy per target), the    *)
(* NVMC of the nRF5340, the mcxw71c, whose flash is never bound, and the   *)
(* writing back of the image files that `--persist' asks for.              *)
(*                                                                         *)
(* Memory is a sequence of word-sized cells; a cell holds the set of its   *)
(* bits that are one, so an erased cell is the set of all of them.         *)
(* A flush runs inside the store or the register write that caused it: it  *)
(* is cut into its opens and its writes, a write into as many parts as the *)
(* disk makes of it, because the emulator can be killed or the disk can    *)
(* refuse between any two of them, and the core does nothing else until    *)
(* the queue is empty.                                                     *)
(***************************************************************************)
EXTENDS Target, Integers, Sequences

CONSTANTS
    SectorWords,    \* words of one erase sector
    BankSectors,    \* sectors of one of the two banks
    Bits,           \* the bits of a word
    ImageOffset,    \* ImageOffset[i] is where image i (command line order) is loaded
    ImageFile,      \* ImageFile[i] is the content of its file before the first boot
    MaxFaults       \* bound on failed opens, short writes and crashes in one behaviour

Cells == 2 * BankSectors * SectorWords
Images == DOMAIN ImageOffset
Words == 0 .. Cells - 1
Value == SUBSET Bits
Erased == Bits

\* mm_flash_persist_build: each image owns the flash up to the next image's offset
EndOf(i) ==
    LET ends == {ImageOffset[j] : j \in {k \in Images : ImageOffset[k] > ImageOffset[i]}}
                  \cup {Cells}
    IN  CHOOSE e \in ends : \A f \in ends : e <= f
RangeOf(i) == ImageOffset[i] .. EndOf(i) - 1

ASSUME FlashGeometry ==
    /\ SectorWords \in Nat \ {0} /\ BankSectors \in Nat \ {0}
    /\ ImageOffset \in Seq(Words)
    /\ \A i, j \in Images : ImageOffset[i] = ImageOffset[j] => i = j

ASSUME FaultsAssumption == MaxFaults \in Nat

\* The images do not overlap: main() warns of images that do and goes on with them, but
\* their ranges are cut at the next offset and their files no longer hold what they did.
ASSUME ImagesFit ==
    /\ ImageFile \in [Images -> Seq(Value)]
    /\ \A i \in Images : Len(ImageFile[i]) <= EndOf(i) - ImageOffset[i]

VARIABLES
    flash,      \* the flash array
    ctl,        \* registers of the STM32 controller, one block per security state
    wen,        \* the nRF5340's CONFIG and CONFIGNS write-enable fields
    bound,      \* flash_bind has been called for this boot
    file,       \* contents of the image files
    flushq,     \* images still to be written back; the one of least offset is next
    isOpen,     \* the next file of flushq has been opened, hence truncated
    missed,     \* history: images whose last flush failed to open, or wrote short
    faults,     \* failed opens, short writes and crashes so far
    viaSecure   \* history: the nRF5340's flash was changed at a Secure address
flashVars == <<cpu, flash, ctl, wen, bound, file, flushq, isOpen, missed, faults, viaSecure>>

-----------------------------------------------------------------------------
(* Files and flash *)

SectorOf(w) == LET base == (w \div SectorWords) * SectorWords
               IN  base .. base + SectorWords - 1

\* load_file_at: what of image i the file provides for word w
Provides(files, i, w) == w - ImageOffset[i] \in 0 .. Len(files[i]) - 1

\* The images are loaded in command line order over erased flash
Load(files) ==
    [w \in Words |->
        LET from == {i \in Images : Provides(files, i, w)}
            last == CHOOSE i \in from : \A j \in from : j <= i
        IN  IF from = {} THEN Erased ELSE files[last][w - ImageOffset[last] + 1]]

\* mm_flash_persist_flush: the ranges that meet the changed words
Touched(changed) == {i \in Images : RangeOf(i) \cap changed # {}}

\* sort_indices: the ranges are kept, and flushed, by ascending offset
Least(q) == CHOOSE i \in q : \A j \in q : ImageOffset[i] <= ImageOffset[j]

\* mm_flash_persist_build on a range of image i whose file does not hold all of it
Contents(i) == [k \in 1 .. EndOf(i) - ImageOffset[i] |-> flash[ImageOffset[i] + k - 1]]

-----------------------------------------------------------------------------
(* The STM32 controller.  BSY is never seen set and EOP, a status bit that    *)
(* nothing tests, is left out.                                              *)

ResetCtl == [locked |-> TRUE, pg |-> FALSE, stage |-> 0]

\* A value written to NSCR or SECCR: LOCK, STRT, and which of PG, SER and BER
\* accompany them.  The sector number matters when a sector erase is started.
CrValue ==
    {cr \in [lock : BOOLEAN, strt : BOOLEAN, op : {"none", "pg", "ser", "ber"},
             snb : 0 .. BankSectors, bksel : BOOLEAN] :
        ~(cr.strt /\ cr.op = "ser") => cr.snb = 0 /\ ~cr.bksel}

\* The words that flash_apply_erase sets to 0xFF
EraseWords(cr) ==
    LET start == cr.snb * SectorWords
                   + IF cr.bksel THEN BankSectors * SectorWords ELSE 0
    IN  CASE cr.op = "ber" -> Words
          [] cr.op = "ser" /\ start < Cells -> SectorOf(start)
          [] OTHER -> {}

Idle == flushq = {}

\* One change of the array by the core, with the flush that follows it
Change(new, changed) ==
    /\ flash' = new
    /\ flushq' = Touched(changed)

\* A refused or ignored access
NoChange == UNCHANGED <<flash, flushq>>

flash_handle_key(s, key) ==
    /\ ctl' = [ctl EXCEPT ![s] =
                 [@ EXCEPT !.stage = IF @ = 0 /\ key = "KEY1" THEN 1 ELSE 0,
                           !.locked = @ /\ ~(ctl[s].stage = 1 /\ key = "KEY2")]]
    /\ NoChange

\* flash_write to NSCR or SECCR.  The locked register refuses a value without
\* LOCK only; with LOCK the other bits are taken, STRT included.
flash_write_cr(s, cr) ==
    /\ IF ctl[s].locked /\ ~cr.lock
         THEN NoChange /\ UNCHANGED ctl
         ELSE LET erased == IF cr.strt THEN EraseWords(cr) ELSE {}
              IN  /\ ctl' = [ctl EXCEPT ![s] = [@ EXCEPT !.locked = cr.lock,
                                                         !.pg = cr.op = "pg"]]
                  /\ Change([w \in Words |-> IF w \in erased THEN Erased ELSE flash[w]], erased)

flash_write(s) ==
    /\ Idle
    /\ \/ \E key \in {"KEY1", "KEY2", "other"} : flash_handle_key(s, key)
       \/ \E cr \in CrValue : flash_write_cr(s, cr)
    /\ UNCHANGED <<cpu, wen, bound, file, isOpen, missed, faults, viaSecure>>

\* A store to flash by the core in state s, at either alias.  The targets set
\* MM_TARGET_FLAG_NVM_WRITEONCE: the whole sector must still be erased.
flash_write_cb(s, w, v) ==
    /\ Idle
    /\ IF /\ bound /\ ~ctl[s].locked /\ ctl[s].pg
          /\ \A x \in SectorOf(w) : flash[x] = Erased
         THEN Change([flash EXCEPT ![w] = v], {w})
         ELSE NoChange
    /\ UNCHANGED <<cpu, ctl, wen, bound, file, isOpen, missed, faults, viaSecure>>

\* The three copies of the driver
stm32l552_flash_write(s) == cpu = "stm32l552" /\ flash_write(s)
stm32h563_flash_write(s) == cpu = "stm32h563" /\ flash_write(s)
stm32u585_flash_write(s) == cpu = "stm32u585" /\ flash_write(s)

stm32l552_flash_write_cb(s, w, v) == cpu = "stm32l552" /\ flash_write_cb(s, w, v)
stm32h563_flash_write_cb(s, w, v) == cpu = "stm32h563" /\ flash_write_cb(s, w, v)
stm32u585_flash_write_cb(s, w, v) == cpu = "stm32u585" /\ flash_write_cb(s, w, v)

-----------------------------------------------------------------------------
(* The nRF5340's NVMC *)

\* CONFIG decides unless it is zero, then CONFIGNS: 0 read, 1 write, 2 erase
Wen == IF wen[Secure] = 0 THEN wen[NonSecure] ELSE wen[Secure]

\* nvmc_write_cb and nvmc_erase_page pass the address, not the offset, to the
\* flush.  The Non-secure base is zero, so the two agree there; a Secure
\* address is above every range.
NvmcChange(alias, new, changed) ==
    /\ Change(new, IF alias = NonSecure THEN changed ELSE {})
    /\ viaSecure' = (viaSecure \/ alias = Secure)

nvmc_write_cb(alias, w, v) ==
    /\ cpu = "nrf5340" /\ Idle
    /\ IF bound /\ Wen = 1
         THEN NvmcChange(alias, [flash EXCEPT ![w] = @ \cap v], {w})
         ELSE NoChange /\ UNCHANGED viaSecure
    /\ UNCHANGED <<cpu, ctl, wen, bound, file, isOpen, missed, faults>>

nvmc_erase_page(alias, w) ==
    /\ cpu = "nrf5340" /\ Idle /\ bound /\ Wen = 2
    /\ NvmcChange(alias, [x \in Words |-> IF x \in SectorOf(w) THEN Erased ELSE flash[x]],
                  SectorOf(w))
    /\ UNCHANGED <<cpu, ctl, wen, bound, file, isOpen, missed, faults>>

\* nvmc_erase_all flushes from the Non-secure base
nvmc_erase_all ==
    /\ cpu = "nrf5340" /\ Idle /\ bound /\ Wen = 2
    /\ NvmcChange(NonSecure, [x \in Words |-> Erased], Words)
    /\ UNCHANGED <<cpu, ctl, wen, bound, file, isOpen, missed, faults>>

\* nvmc_write to CONFIG or CONFIGNS
nvmc_write(s, mode) ==
    /\ cpu = "nrf5340" /\ Idle
    /\ wen' = [wen EXCEPT ![s] = mode]
    /\ UNCHANGED <<cpu, flash, ctl, bound, file, flushq, isOpen, missed, faults, viaSecure>>

-----------------------------------------------------------------------------
(* Writing the image files back *)

flushTail == UNCHANGED <<cpu, flash, ctl, wen, bound, viaSecure>>

\* fopen "wb" succeeds and truncates
FlushOpen ==
    /\ flushq # {} /\ ~isOpen
    /\ isOpen' = TRUE
    /\ file' = [file EXCEPT ![Least(flushq)] = <<>>]
    /\ UNCHANGED <<flushq, missed, faults>> /\ flushTail

\* fopen fails: the loop goes on with the next range
FlushOpenFails ==
    /\ flushq # {} /\ ~isOpen
    /\ faults < MaxFaults /\ faults' = faults + 1
    /\ flushq' = flushq \ {Least(flushq)}
    /\ missed' = missed \cup {Least(flushq)}
    /\ UNCHANGED <<file, isOpen>> /\ flushTail

\* A part of the range reaches the disk: a process killed now leaves a torn file
FlushPart ==
    /\ flushq # {} /\ isOpen
    /\ LET i == Least(flushq)
       IN  \E n \in Len(file[i]) + 1 .. Len(Contents(i)) - 1 :
              file' = [file EXCEPT ![i] = SubSeq(Contents(i), 1, n)]
    /\ UNCHANGED <<flushq, isOpen, missed, faults>> /\ flushTail

\* fwrite returns short, or fclose loses what it held: the loop goes on with the
\* next range, and the file stays cut where it is
FlushShortWrite ==
    /\ flushq # {} /\ isOpen
    /\ Len(file[Least(flushq)]) < Len(Contents(Least(flushq)))
    /\ faults < MaxFaults /\ faults' = faults + 1
    /\ flushq' = flushq \ {Least(flushq)}
    /\ missed' = missed \cup {Least(flushq)}
    /\ isOpen' = FALSE
    /\ UNCHANGED file /\ flushTail

\* Mutant of FlushWrite: the loop stops after the first range it wrote.
FlushWrite_Mut ==
    /\ flushq # {} /\ isOpen
    /\ file' = [file EXCEPT ![Least(flushq)] = Contents(Least(flushq))]
    /\ missed' = missed \ {Least(flushq)}
    /\ flushq' = {}
    /\ isOpen' = FALSE
    /\ UNCHANGED faults /\ flushTail

\* The last part of the range, and fclose
FlushWrite ==
    /\ flushq # {} /\ isOpen
    /\ file' = [file EXCEPT ![Least(flushq)] = Contents(Least(flushq))]
    /\ missed' = missed \ {Least(flushq)}
    /\ flushq' = flushq \ {Least(flushq)}
    /\ isOpen' = FALSE
    /\ UNCHANGED faults /\ flushTail

-----------------------------------------------------------------------------
(* Boot, reset and the loss of the process *)

PowerOn ==
    /\ ctl' = [s \in SecStates |-> ResetCtl]
    /\ wen' = [s \in SecStates |-> 0]

\* mmio_reset, register_mmio and flash_bind of the boot sequence: the mcxw71c's
\* flash_bind is empty.  A system reset keeps the array; a reload of the
\* images first fills it with 0xFF.
SystemReset(reload) ==
    /\ Idle
    /\ flash' = IF reload THEN Load(file) ELSE flash
    /\ bound' = (cpu # "mcxw71c")
    /\ viaSecure' = (viaSecure /\ ~reload)
    /\ missed' = IF reload THEN {} ELSE missed
    /\ PowerOn
    /\ UNCHANGED <<cpu, file, flushq, isOpen, faults>>

\* Mutant of Crash: the restarted process does not load the images.
Crash_Mut ==
    /\ faults < MaxFaults /\ faults' = faults + 1
    /\ flash' = [w \in Words |-> Erased]
    /\ flushq' = {} /\ isOpen' = FALSE
    /\ viaSecure' = FALSE /\ missed' = {}
    /\ bound' = (cpu # "mcxw71c")
    /\ PowerOn
    /\ UNCHANGED <<cpu, file>>

\* The emulator is killed, in the middle of a flush or not, and started again
\* with the same images
Crash ==
    /\ faults < MaxFaults /\ faults' = faults + 1
    /\ flash' = Load(file)
    /\ flushq' = {} /\ isOpen' = FALSE
    /\ viaSecure' = FALSE /\ missed' = {}
    /\ bound' = (cpu # "mcxw71c")
    /\ PowerOn
    /\ UNCHANGED <<cpu, file>>

FlashInit ==
    /\ TargetInit
    /\ file = ImageFile
    /\ flash = Load(file)
    /\ ctl = [s \in SecStates |-> ResetCtl]
    /\ wen = [s \in SecStates |-> 0]
    /\ bound = (cpu # "mcxw71c")
    /\ flushq = {} /\ isOpen = FALSE
    /\ missed = {} /\ viaSecure = FALSE /\ faults = 0

FlashNext ==
    \/ \E s \in SecStates : stm32l552_flash_write(s)
    \/ \E s \in SecStates : stm32h563_flash_write(s)
    \/ \E s \in SecStates : stm32u585_flash_write(s)
    \/ \E s \in SecStates, w \in Words, v \in Value : stm32l552_flash_write_cb(s, w, v)
    \/ \E s \in SecStates, w \in Words, v \in Value : stm32h563_flash_write_cb(s, w, v)
    \/ \E s \in SecStates, w \in Words, v \in Value : stm32u585_flash_write_cb(s, w, v)
    \/ \E a \in SecStates, w \in Words, v \in Value : nvmc_write_cb(a, w, v)
    \/ \E a \in SecStates, w \in Words : nvmc_erase_page(a, w)
    \/ nvmc_erase_all
    \/ \E s \in SecStates, mode \in 0 .. 2 : nvmc_write(s, mode)
    \/ FlushOpen \/ FlushOpenFails \/ FlushPart \/ FlushShortWrite \/ FlushWrite
    \/ \E reload \in BOOLEAN : SystemReset(reload)
    \/ Crash

FlashSpec == FlashInit /\ [][FlashNext]_flashVars

-----------------------------------------------------------------------------
(* Properties *)

\* The state variables have the values their C types allow, a file is open only
\* inside a flush, and a key stage is 0 or 1.
FlashTypeOK ==
    /\ cpu \in Targets
    /\ flash \in [Words -> Value]
    /\ ctl \in [SecStates -> [locked : BOOLEAN, pg : BOOLEAN, stage : {0, 1}]]
    /\ wen \in [SecStates -> 0 .. 2]
    /\ file \in [Images -> Seq(Value)]
    /\ flushq \subseteq Images /\ isOpen \in BOOLEAN /\ (isOpen => flushq # {})
    /\ missed \subseteq Images /\ viaSecure \in BOOLEAN /\ faults \in 0 .. MaxFaults

\* With no flush under way, restarting on the files gives back the flash of
\* every image whose last flush opened its file and wrote it whole, whatever
\* erases, stores, failed opens, short writes, resets and reloads came before
\* (mm_flash_persist_flush reports a failure and goes on).  Not claimed once the
\* nRF5340's flash was changed at a Secure address.
RestartRestoresFlash ==
    flushq = {} /\ ~viaSecure =>
        \A i \in Images \ missed : \A w \in RangeOf(i) : Load(file)[w] = flash[w]

\* What a crash costs: only images still waiting in the interrupted flush, or
\* missed by an earlier one, can come back different, in whole or from the point
\* where their file is cut (the truncate-then-write of mm_flash_persist_flush).
CrashCostsOnlyQueuedImages ==
    [][Crash /\ ~viaSecure =>
         \A i \in Images \ (missed \cup flushq) :
            \A w \in RangeOf(i) : flash'[w] = flash[w]]_flashVars

=============================================================================
