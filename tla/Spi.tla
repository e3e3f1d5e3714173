-------------------------------- MODULE Spi ---------------------------------
(***************************************************************************)
(* The SPI controllers: the STM32 one with its receive FIFO and transfer   *)
(* size counter (three copies), the LPSPI of the MCXW71C and the SPIM of   *)
(* the nRF5340.  The device on the bus is what mm_spi_bus_xfer and         *)
(* mm_spi_bus_end of spi_bus.c see of it: how many bytes it has exchanged  *)
(* since it was last told that a transfer ended.                           *)
(***************************************************************************)
EXTENDS Target, Integers

CONSTANTS
    FifoSlots,      \* bytes the receive FIFO holds (31: one slot stays free)
    Sizes,          \* transfer sizes of CR2.TSIZE; 0 is an endless transfer
    MaxXfer         \* bound on the bytes exchanged in one transfer, of the SPIM too
ASSUME SpiBounds ==
    /\ FifoSlots \in Nat \ {0} /\ Sizes \subseteq Nat
    /\ MaxXfer \in Nat /\ MaxXfer >= 4

VARIABLES
    spe,        \* enabled (STM32), CR.MEN (LPSPI), ENABLE = SPIM (nRF5340)
    active,     \* transfer_active
    endless,    \* TSIZE was 0: tsize_rem starts at 0xFFFFFFFF
    tsize,      \* CR2.TSIZE at the last CSTART
    rem,        \* tsize_rem of a sized transfer
    eot,        \* eot_pending
    rxn,        \* bytes in the receive FIFO (fifo_count)
    busy,       \* SR.BUSY as last computed or stored; the rest of SR is computed anew
                \* whenever it is read or decides anything
    width,      \* bytes of a frame, from CFG1.DSIZE (spi_frame_bytes): 1, 2 or 4
    ier,        \* the interrupt enable bits set
    sirq,       \* the interrupt is pending
    xfers,      \* history: bytes exchanged since the last CSTART
    opened      \* bytes the device has seen since the last bus end
spiVars == <<cpu, spe, active, endless, tsize, rem, eot, rxn, busy, width, ier, sirq, xfers, opened>>

Flags == {"RXP", "EOT"}

\* BUSY, from the state that the action leaves
update_sr == busy' = (spe' /\ (active' \/ rxn' > 0))

-----------------------------------------------------------------------------
(* stm32l552_spi.c, stm32h563_spi.c, stm32u585_spi.c *)

AccessSizes == {1, 2, 4}

\* A frame is cut to the size of the access to the data register
frame_bytes(size) == IF width > size THEN size ELSE width

\* Mutant of fifo_push: the ring takes bytes without asking whether it is full.
fifo_push_Mut(q, n) == q + n

\* A full FIFO drops the byte; an empty one gives zeros
fifo_push(q, n) == IF q + n > FifoSlots THEN FifoSlots ELSE q + n
fifo_pop(q, n) == IF q > n THEN q - n ELSE 0

\* Every byte of the frame goes out, also past the end of the transfer
spi_handle_tx(size) ==
    LET n == frame_bytes(size)
        left == IF endless \/ ~active THEN rem ELSE IF rem > n THEN rem - n ELSE 0
        finished == active /\ ~endless /\ left = 0
    IN /\ xfers + n <= MaxXfer /\ opened + n <= MaxXfer
       /\ IF spe
            THEN /\ rxn' = fifo_push(rxn, n)
                 /\ rem' = left
                 /\ active' = (active /\ ~finished)
                 /\ eot' = (eot \/ finished)
                 /\ xfers' = IF active THEN xfers + n ELSE xfers
                 /\ opened' = IF finished THEN 0 ELSE opened + n
                 /\ busy' = (active' \/ rxn' > 0)
            ELSE UNCHANGED <<rxn, rem, active, eot, xfers, opened, busy>>
       /\ UNCHANGED <<cpu, spe, endless, tsize, width, ier, sirq>>

spi_read_rxdr(size) ==
    /\ rxn' = fifo_pop(rxn, frame_bytes(size))
    /\ UNCHANGED <<cpu, spe, active, endless, tsize, rem, eot, width, ier, sirq, xfers, opened>>
    /\ update_sr

\* A read of any other register
spi_read_sr ==
    /\ UNCHANGED <<cpu, spe, active, endless, tsize, rem, eot, rxn, width, ier, sirq, xfers, opened>>
    /\ update_sr

\* Mutant of spi_start_transfer: the EOT of the previous transfer stays pending.
spi_start_transfer_Mut(size) ==
    /\ active' = TRUE /\ UNCHANGED eot
    /\ endless' = (size = 0) /\ tsize' = size /\ rem' = size
    /\ xfers' = 0

\* Part of a CR1 write.  It leaves BUSY to the next update
spi_start_transfer(size) ==
    /\ active' = TRUE /\ eot' = FALSE
    /\ endless' = (size = 0) /\ tsize' = size /\ rem' = size
    /\ xfers' = 0

\* A CR1 write.  SPE can only be cleared while SR says not busy; the
\* bus is told of the end whether or not the controller stops
spi_write_cr1(setSpe, cstart, size) ==
    LET off == ~setSpe /\ ~busy
        on == setSpe \/ (spe /\ ~off)
    IN /\ spe' = on
       /\ rxn' = IF off THEN 0 ELSE rxn
       /\ opened' = IF off \/ (spe /\ ~setSpe) THEN 0 ELSE opened
       /\ IF cstart /\ on
            THEN spi_start_transfer(size)
            ELSE /\ active' = (active /\ ~off) /\ eot' = (eot /\ ~off)
                 /\ rem' = IF off THEN 0 ELSE rem
                 /\ UNCHANGED <<endless, tsize, xfers>>
       /\ busy' = IF setSpe \/ off THEN on /\ ((active /\ ~off) \/ rxn' > 0) ELSE busy
       /\ UNCHANGED <<cpu, width, ier, sirq>>

spi_write_ifcr ==
    /\ eot' = FALSE
    /\ UNCHANGED <<cpu, spe, active, endless, tsize, rem, rxn, busy, width, ier, sirq, xfers, opened>>

\* The other registers are stored as written: IER, CFG1 and, until the next update, SR
spi_write_reg ==
    /\ \/ ier' \in SUBSET Flags /\ UNCHANGED <<width, busy>>
       \/ width' \in {1, 2, 4} /\ UNCHANGED <<ier, busy>>
       \/ busy' \in BOOLEAN /\ UNCHANGED <<width, ier>>
    /\ UNCHANGED <<cpu, spe, active, endless, tsize, rem, eot, rxn, sirq, xfers, opened>>

spi_poll ==
    /\ spe
    /\ UNCHANGED <<cpu, spe, active, endless, tsize, rem, eot, rxn, width, ier, xfers, opened>>
    /\ update_sr
    /\ sirq' = (sirq \/ ("RXP" \in ier /\ rxn > 0) \/ ("EOT" \in ier /\ eot))

spi_read == spi_read_sr \/ \E size \in AccessSizes : spi_read_rxdr(size)

stm32l552_spi_read == cpu = "stm32l552" /\ spi_read
stm32h563_spi_read == cpu = "stm32h563" /\ spi_read
stm32u585_spi_read == cpu = "stm32u585" /\ spi_read

spi_write ==
    \/ \E setSpe, cstart \in BOOLEAN, size \in Sizes : spi_write_cr1(setSpe, cstart, size)
    \/ \E size \in AccessSizes : spi_handle_tx(size)
    \/ spi_write_ifcr \/ spi_write_reg

stm32l552_spi_write == cpu = "stm32l552" /\ spi_write
stm32h563_spi_write == cpu = "stm32h563" /\ spi_write
stm32u585_spi_write == cpu = "stm32u585" /\ spi_write

stm32l552_spi_poll == cpu = "stm32l552" /\ spi_poll
stm32h563_spi_poll == cpu = "stm32h563" /\ spi_poll
stm32u585_spi_poll == cpu = "stm32u585" /\ spi_poll

-----------------------------------------------------------------------------
(* mcxw71c_spi.c: one byte of receive data, and the transfer ends after every    *)
(* byte unless TCR.CONT (here: active) is set.  width is unused.                  *)

mcxw71c_spi_read ==
    /\ cpu = "mcxw71c"
    /\ rxn' = 0
    /\ UNCHANGED <<cpu, spe, active, endless, tsize, rem, eot, busy, width, ier, sirq, xfers, opened>>

mcxw71c_spi_write_cr(men, rrf) ==
    /\ spe' = men
    /\ rxn' = IF rrf THEN 0 ELSE rxn
    /\ opened' = IF men THEN opened ELSE 0
    /\ UNCHANGED <<cpu, active, endless, tsize, rem, eot, busy, width, ier, sirq, xfers>>

mcxw71c_spi_write_tdr(txmsk, rxmsk) ==
    /\ opened < MaxXfer
    /\ IF spe
         THEN /\ rxn' = IF rxmsk THEN rxn ELSE 1
              /\ opened' = IF active THEN opened + (IF txmsk THEN 0 ELSE 1) ELSE 0
         ELSE UNCHANGED <<rxn, opened>>
    /\ UNCHANGED <<cpu, spe, active, endless, tsize, rem, eot, busy, width, ier, sirq, xfers>>

mcxw71c_spi_write_tcr ==
    /\ active' = ~active
    /\ UNCHANGED <<cpu, spe, endless, tsize, rem, eot, rxn, busy, width, ier, sirq, xfers, opened>>

mcxw71c_spi_write ==
    /\ cpu = "mcxw71c"
    /\ \/ \E men, rrf \in BOOLEAN : mcxw71c_spi_write_cr(men, rrf)
       \/ \E txmsk, rxmsk \in BOOLEAN : mcxw71c_spi_write_tdr(txmsk, rxmsk)
       \/ mcxw71c_spi_write_tcr

-----------------------------------------------------------------------------
(* nrf5340_uart_spi.c: TASKS_START runs the whole transfer, which moves as many   *)
(* bytes as the longer of the two buffers.                                        *)

\* serial_spim_run: without the HF clock or ENABLE = SPIM nothing happens
nrf5340_spim_run(txcnt, rxcnt, hf) ==
    /\ cpu = "nrf5340" /\ hf /\ spe
    /\ xfers' = IF txcnt > rxcnt THEN txcnt ELSE rxcnt
    /\ tsize' = xfers'
    /\ eot' = TRUE
    /\ sirq' = (sirq \/ "EOT" \in ier)
    /\ opened' = 0                                  \* mm_spi_bus_end
    /\ UNCHANGED <<cpu, spe, active, endless, rem, rxn, busy, width, ier>>

\* TASKS_STOP, ENABLE, INTENSET and the events
nrf5340_spim_write ==
    /\ cpu = "nrf5340"
    /\ \/ opened' = 0 /\ UNCHANGED <<spe, ier, eot>>
       \/ spe' = ~spe /\ UNCHANGED <<opened, ier, eot>>
       \/ ier' \in SUBSET {"EOT"} /\ UNCHANGED <<opened, spe, eot>>
       \/ eot' = FALSE /\ UNCHANGED <<opened, spe, ier>>
    /\ UNCHANGED <<cpu, active, endless, tsize, rem, rxn, busy, width, sirq, xfers>>

-----------------------------------------------------------------------------

SpiIrqTaken ==
    /\ sirq /\ sirq' = FALSE
    /\ UNCHANGED <<cpu, spe, active, endless, tsize, rem, eot, rxn, busy, width, ier, xfers, opened>>

SpiAtReset ==
    /\ spe = FALSE /\ active = FALSE /\ endless = FALSE
    /\ tsize = 0 /\ rem = 0 /\ eot = FALSE /\ rxn = 0
    /\ busy = FALSE
    /\ width = 1 /\ ier = {} /\ sirq = FALSE
    /\ xfers = 0 /\ opened = 0

SpiInit == TargetInit /\ SpiAtReset

\* mm_spiflash_reset_all and spi_reset, at every reset request
SpiReset ==
    /\ spe' = FALSE /\ active' = FALSE /\ endless' = FALSE
    /\ tsize' = 0 /\ rem' = 0 /\ eot' = FALSE /\ rxn' = 0
    /\ update_sr
    /\ width' = 1 /\ ier' = {} /\ sirq' = FALSE
    /\ xfers' = 0 /\ opened' = 0 /\ UNCHANGED cpu

SpiNext ==
    \/ stm32l552_spi_read \/ stm32h563_spi_read \/ stm32u585_spi_read
    \/ stm32l552_spi_write \/ stm32h563_spi_write \/ stm32u585_spi_write
    \/ stm32l552_spi_poll \/ stm32h563_spi_poll \/ stm32u585_spi_poll
    \/ mcxw71c_spi_read \/ mcxw71c_spi_write
    \/ \E txcnt, rxcnt \in 0 .. 2, hf \in BOOLEAN : nrf5340_spim_run(txcnt, rxcnt, hf)
    \/ nrf5340_spim_write
    \/ SpiIrqTaken \/ SpiReset

SpiSpec == SpiInit /\ [][SpiNext]_spiVars

-----------------------------------------------------------------------------
(* Properties *)

\* The FIFO and the size counter stay within their bounds.
SpiTypeOK ==
    /\ cpu \in Targets
    /\ {spe, active, endless, eot, busy, sirq} \subseteq BOOLEAN
    /\ width \in {1, 2, 4}
    /\ rxn \in 0 .. FifoSlots
    /\ rem \in 0 .. tsize
    /\ ier \subseteq Flags
    /\ xfers \in 0 .. MaxXfer /\ opened \in 0 .. MaxXfer

\* EOT says that the transfer started by the last CSTART has moved its TSIZE bytes,
\* and at most the rest of the last frame more, whatever was read, written, cleared,
\* disabled or restarted in between, for frames of any size moved by accesses of any
\* size (spi_handle_tx, spi_start_transfer, spi_set_enabled).
EotMeansAllSent == eot => xfers >= tsize /\ xfers <= tsize + 3

=============================================================================
