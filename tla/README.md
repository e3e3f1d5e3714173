# Verification of m33mu

m33mu emulates ARMv8-M (Cortex-M33) microcontrollers. This directory holds TLA+
models of its core, of the peripherals of its five targets and of its links to the
host, the TLC configurations that check them on small instances, and TLAPS proofs of
results that hold for every instance. Paths are relative to the repository.

## 1. Inventory

| Component | Source | State | Operations | Interacts with |
|---|---|---|---|---|
| SysTick | `src/scs.c` | CTRL, LOAD, VAL, COUNTFLAG, wrap counter, `pend_st` | register accesses, `mm_scs_systick_advance`, `..._cycles_until_fire` | main loop (advance per instruction, skip in sleep), exception entry (takes `pend_st`) |
| Exceptions | `src/main.c`, `src/exc_return.c`, `src/m33mu/cpu.c`, `exception.c`, `src/vector.c` | mode, IPSR, banked SPs, CONTROL, `exc_sp[]`/`exc_sec[]`, RAM stacks | entry, three kinds of fault, return by BX, POP and LDM, reset | main loop, instructions, memory map, SCS |
| TrustZone | `src/m33mu/tz.c` | `sec_state`, `tz_ret_*[]` | SG, BXNS, BLXNS, BX of the sentinel | exceptions (share LR, mode and the call stack) |
| NVIC | `src/nvic.c`, `src/scs.c` | enable, pending, ITNS words, priorities | set/clear registers from two security states, selection | devices pend, main loop selects, SCS registers |
| Main loop | `src/main.c` | sleep and event flags, run control flags, reset and reload requests, virtual time | one iteration: keys, run control, sleep, pending exceptions, an instruction, device poll, reset check, end of step | everything |
| TUI | `tui/tui.c` | actions word, `target_running` | keys, drawing, in a thread of its own | main loop polls the actions word |
| GDB stub | `src/gdbstub.c` | socket, breakpoint table, the lifted breakpoint, step and run flags | packets, breakpoints, rearm | main loop, flash |
| SCS registers | `src/scs.c` | VTOR, AIRCR, SHCSR, CFSR, MPU and SAU banks | loads and stores of firmware | exceptions, memory protection |
| Instructions | `src/execute.c`, `src/m33mu/exec_helpers.c`, `table_branch.c` | register file, flags, IT state | about 200 operations | all of the core |
| Decoder, fetch | `src/m33mu/decode.c`, `fetch.c` | none | bits to operation | instructions |
| Memory | `src/memmap.c`, `src/m33mu/mem.c`, `src/core_interfaces.c` | RAM, flash, regions | read, write, fetch, region lookup | protection, peripherals |
| Protection | `src/m33mu/mem_prot.c`, `mpu.c`, `sau.c`, MPCBB in `cpu/*` | regions, block attributes, `securefault_pending` | attribution, permission | memory, faults |
| Exclusive monitor | `src/m33mu/cpu.c` | open address, size, state | LDREX, STREX, CLREX | memory |
| Flash controllers and persistence | `cpu/*/*_mmio.c`, `src/flash_persist.c` | lock and program bits per security state; ranges of the image files | unlock, program, erase; rewrite of the files after a change | memory, host files |
| GPIO, EXTI | `cpu/*/*_mmio.c` | outputs, inputs, modes, edge detector | register accesses through two aliases | NVIC, SPI chip select |
| RNG, watchdogs, clocks, timers | `cpu/*/*_mmio.c`, `*_timers.c`, `*_wdt.c`, `src/timer.c` | registers, remainders of cycles, cached frequency | register accesses, a tick with a batch of cycles | NVIC, reset, main loop |
| Serial ports | `cpu/*/*_usart.c`, `nrf5340_uart_spi.c`, `src/target_hal.c` | transmit ring, one received byte, descriptor | register accesses, poll | pseudo terminal or stdout, NVIC |
| SPI controllers | `cpu/*/*_spi.c`, `nrf5340_uart_spi.c`, `src/m33mu/spi_bus.c` | FIFO, size counter, flags | register accesses, exchange of a frame | SPI devices, NVIC |
| SPI flash, TPM | `src/m33mu/spiflash.c`, `tpm_tis.c` | command decoders, array, buffers, non-volatile store | one byte exchanged, end of a transfer | SPI controllers, host files |
| USB device | `cpu/stm32h563/stm32h563_usb.c`, `src/m33mu/usbdev.c` | endpoint registers; connection, buffers, pending URBs | register accesses; poll in phases | firmware, USB/IP client |
| Ethernet | `src/m33mu/eth_backend.c`, `cpu/stm32h563/stm32h563_eth.c` | descriptors | send, receive | TAP, VDE |
| Capstone check | `src/m33mu/capstone.c` | none of the target | compares decodings | main loop |

What is hard here is not any single handler but the sequences: entries and returns
that nest over two security states and four stack pointers; counters that are
sometimes stepped and sometimes skipped; a sleep that must end; run control flags
written from several places of a loop with many `continue`s; registers shared by
two security states and reached through two addresses; state cached next to the
registers it comes from; protocols that advance byte by byte and may be cut
anywhere; files that are truncated and rewritten while the emulator can be killed.
`PROJECT.json` lists these hazards, each at its line.

What makes each part correct:

- SysTick: skipping is stepping; no wrap is lost; the distance to the next wrap is exact.
- Exceptions: a preempted activation is resumed exactly, but for a slot that a handler ending in POP or LDM
  leaves on a stack other than its frame's; mode and IPSR agree with the nesting.
- TrustZone: a Non-secure call returns to its caller, whatever happens in between.
- NVIC: the selection is the architectural minimum; a state cannot disturb the other one's.
- Main loop: sleep ends, resets happen, steps end.
- Protection: Non-secure software reaches only what Secure software let go.
- Flash: a restart on the image files gives the flash back, except for a file that did not open or was
  written short; a crash costs only what was being written.
- GPIO, RNG, watchdogs, clocks, timers: no edge lost, no number twice, no reset early or late, a frequency
  that follows the registers that recompute it, and time may be cut anywhere.
- Serial ports, SPI, SPI flash, TPM: order kept, nothing overrun, every byte in its own command, one
  program or erase per write enable.
- USB: a request is answered once, to the client that sent it; the poll returns, but in two known cases.
- GDB stub: breakpoints leave the program as it was and are not lost.

## 2. Modules

| Module | Models | State and actions |
|---|---|---|
| `SysTick` | the counter in `src/scs.c` | one record `st`; an action per register access, `Advance(n)`, `TakeException`, `Reset`; `wrapsSeen` is a history variable |
| `Preemption` | abstract specification of exceptions | `running` and the stack `suspended` of whole contexts; `Work`, `Preempt`, `Resume`, `ResumeLeaving(r)` (a slot of stack `r` stays in use), `Restart` |
| `Exceptions` | entry, return, TrustZone calls, reset | registers, `sp`, `mem`, `exc`, `tz` as in `struct mm_cpu`; a return by POP or LDM is allowed from every stack; `ctx` and `calls` are history variables, and `ctx` is charged with a slot left behind; `Abs` is the refinement mapping |
| `TaskSwitch` | `Exceptions` composed with the firmware of `tests/firmware/test-rtos-exceptions` | a handler that writes PSP and returns to another task |
| `Nvic` | `src/nvic.c` and its registers in `src/scs.c` | `nvic`, `primask`; an action per register and state, device, acceptance |
| `RunLoop` | the main loop under the TUI, composed with `Nvic` and `SysTick` (INSTANCE) | run control, sleep, pending bits; an iteration is cut at every call of `handle_tui`, `at` says where the loop is |
| `Target` | the CPU selected on the command line | `cpu`, constant during a run |
| `TargetFlash` | the STM32 FLASH controller, the NVMC of the nRF5340, the unbound flash of the mcxw71c, `flash_persist.c` | `flash`, registers, `file`; register writes and stores, a flush in steps, failed opens, short writes, `Crash`, restart; `missed` is the history of images whose last flush failed |
| `Gpio` | a GPIO bank with EXTI (STM32), P0/P1 (nRF5340), GPIO and PORT (mcxw71c) | outputs, detector, pending lines; an action per register and alias |
| `Rng` | the generators | which draw is held, which was read last |
| `Watchdog` | IWDG, WWDG, the nRF5340's WDT | counters with their remainders; register writes and ticks; what was loaded and what elapsed are history |
| `ClockTree` | RCC and PWR of the STM32s, CLOCK of the nRF5340 | the registers and the cached `cpuHz`; a store that does not begin at one of the recomputing registers is copied only, and `partial` remembers it |
| `Timers` | TIM2..TIM5, TIMER0..2, LPIT | a timer record, and the tick functions as functions on it |
| `Memory` | SAU, MPU, MPCBB, `mem_prot.c`, the regions `main()` adds | registers; an MPCBB decides only on the targets with RAM regions (h563, u585); `given` is the history of what Secure software let go |
| `Usart` | the serial ports of all targets over `target_hal.c` | the ring, the held byte, the device's bits and the host end; writes, reads, poll, the host's steps |
| `Spi` | the STM32 SPI, the LPSPI and the SPIM over `spi_bus.c` | FIFO, size counter, flags, frames of 1, 2 and 4 bytes under accesses of any size; the device is the bytes it has seen since the last end |
| `SpiFlash` | `spiflash.c` with its host file | decoder state, array, file; one byte exchanged, chip select, end, kill and restart; a write of the file succeeds, is refused or is cut short |
| `TpmTis` | `tpm_tis.c` | frame and buffers (`TisNext`); NV store with failed opens, short writes and blobs of length 0 (`NvNext`); restart |
| `UsbDevice` | the endpoint registers of the STM32H563 | an action per register write and per operation of `usb_ops` |
| `UsbIp` | the server in `usbdev.c` | connection, buffers, pending table; the poll in phases; a client that sends ahead, cuts, cancels and disconnects; a receive length that wraps (`Underflow`) and the phase `crash` |
| `GdbStub` | `gdbstub.c` and the part of the main loop that obeys it | flash code, breakpoint table, lifted breakpoint; packets, resume, instructions, stops, connection |
| `MCSoc`, `MCLinks`, `MCHost` | compositions of the above | the parts share no more than the selected target, so each behaviour follows one part, named by `part`, and leaves the others as after a reset |
| other `MC*` | instances for TLC | |
| `Induction` | nothing of the code | induction over the naturals, recursive functions and division, in a form the provers can use |
| `SysTickProofs`, `NvicProofs`, `ExceptionsProofs`, `FlashProofs` | theorems on the module of that name (`TargetFlash` for the last) | |
| `SocProofs`, `LinksProofs`, `HostProofs` | theorems on the parts that `MCSoc`, `MCLinks` and `MCHost` compose | |

Three targets carry a copy of the same STM32 drivers each. Where the copies differ the modules say so;
where they do not, each copy still has an action of its own, so that a change to one copy is a change
to one definition.

Abstractions, and why the properties do not see what they leave out:

- An exception frame is the return address, LR and IPSR. R0 to R3, R12 and the flags are
  stacked and unstacked by the same loops and take no part in any decision.
- A stack pointer is a region and a number of 32-byte slots; `mem` has a slot per frame or
  pushed block. Stack growth past a region is the failed write that ends the run.
- The firmware is the environment of `Exceptions`. Guards marked (F) say what it must respect for a
  preemption to be transparent at all: a handler pops what it pushed, returns when its calls have
  returned, and leaves the stack pointers of those it preempted alone, apart from the word of the EXC_RETURN value
  that a POP loads and does not write back. `TaskSwitch` drops the guard on the stack pointers,
  and the run `task_start` shows what comes of it.
- Code addresses are a few program points. EXC_RETURN values are numbers (0xFFFFFFxx read as
  -256 .. -1) so that `Encode` and `Decode` work on bits as the code does.
- In `RunLoop` an instruction is its effect on sleep, masks, pending bits, SysTick, reset and run
  control. Devices may pend any interrupt whenever they are ticked or polled.
- A flash word is the set of its bits that are one: programming intersects, erasing fills. A cell of the
  SPI flash is one bit.
- Random numbers and serial bytes are numbered in their order, so that one lost, repeated or overtaken shows.
- In `Memory` an address is a granule of 32 bytes, the unit of SAU and MPU; flash, a RAM block and the
  page of the MPCBB have two addresses each. An access that straddles granules is attributed by its first byte and
  left out.
- A file is torn after some of its units (flash words, cells of the SPI flash), and an error that only `fclose` reports
  counts as a short write.
- A GPIO register is a set of pins. Accesses are word accesses, except short stores to ISFR of the mcxw71c, which
  the code treats differently; short stores that reach the other half of an STM32 register are left out.
- The window watchdog's seven-bit counter is scaled (`WTop` for 0x7F, `Warn` for 0x40); the tick functions
  are in closed form, as in the code.
- TPM command and response bytes are counted, not stored; libtpms is external and answers with any length.
- The USB/IP stream is a sequence of packets in one or two pieces; a reply is the URB it answers and how.
- A GDB packet is whole: one with a bad checksum is refused and sent again, and one cut short blocks the
  emulator until the rest arrives.

## 3. What the runs check

Passing runs:

| Run | Bounds | Shows |
|---|---|---|
| `systick` | registers of 5 values, skips up to 11 cycles (two periods past the longest count), 4 wraps | `FastForwardIsStepping`, `UntilFireIsExact`, `CountFlagMeansWrapped`, `TickIsPended` in every state, `LOAD < VAL` included |
| `exceptions` | nesting 2, three slots per stack, one pushed block; both states, PSP and MSP | `FramesIntact`, `HandlerIffNested`, and that the specification implements `Preemption` (`TransparentPreemption`); a return by POP from any stack is among the steps |
| `ns_calls` | two outstanding calls, one handler, calls inside it | `NsCallReturns` |
| `nvic` | three interrupts, priorities 16 and 0xff | `SelectsHighestPriority`, `SecureSelectionIsOwn` |
| `sleep` | one interrupt, SysTick of 3 values, pause and continue keys | `SleeperWakes`, `TickEndsSleep` |
| `run_control` | one interrupt, all keys, two keys at a time | `ResetHappens`, `StepEnds` |
| `soc` | two banks of one sector of two words, two images of which one starts in the middle of a sector, one fault (a failed open, a short write or a crash); two pins; four draws; a few values of each field of RCC (`MCFieldValues`), an SW that selects nothing among them; batches of up to 3 (watchdogs) and 5 cycles (timers), counters up to 3 for one STM32 copy; two SAU regions on the l552, one elsewhere | flash and files (`RestartRestoresFlash`, `CrashCostsOnlyQueuedImages`), GPIO (`EdgesAreSeen`, `McxIrqHasCause`), `HeldDrawIsUnused`, `WatchdogOnTime`, `CpuHzIsCurrent`, `BatchesAdd`, `NsReachesOnlyWhatWasGiven` |
| `links` | ring of two bytes, pseudo terminal of one, four bytes sent (l552), two typed (h563); SPI FIFO of 2, transfers of 3 and without end, frames of 1, 2 and 4 bytes under accesses of 1, 2 and 4, six bytes exchanged; SPI flash of two cells, page of two; TPM command buffer of 3, response of 2, two commands; one NV name, two slots | buffers never overrun (`LinksTypeOK`); serial ports (`OutputKeepsNewest`, `NoByteSkipped`, `ReceiveRaisesInterrupt`, `OutputDrains`); `EotMeansAllSent`; SPI flash (`FileFollowsArray`, `WrenCoversOneInstruction`); TPM (`AnsweredCommandIsGone`, `NvFileHoldsLastStore`) |
| `host` | two endpoints; two URBs, two clients, one pending slot, room for one reply and for two pieces of the stream; two Secure addresses and one Non-secure, two breakpoint slots | `TransferFlagHasCause`; `EachUrbAnsweredOnce`, `PollReturns`; `CodeIsRestored`, `BreakpointLostOnlyByOvertaking` |

Why the bounds are enough:

- Nesting two reaches every pair of an outer and an inner activation (state, stack, mode), which is all
  that a single return looks at; the proofs of section 4 remove the bound. Three interrupts have every
  order of priorities, ties included.
- The image that starts in the middle of a sector makes one erase concern two files, so that a crash or a
  failed open or a short write can fall between them, and an image of several words has a torn
  file. One bit per word is enough to tell programmed from erased.
- A batch of 5 cycles covers more than one period of the small counters, so that several overflows fall into one
  call; a counter of 3 has a reload above, at and below the count.
- A ring of two bytes tells dropping the oldest from dropping all, and shows their order; with a terminal of one and
  four bytes sent, overflow (twice), refusal and draining all happen.
- A transfer of 3 bytes ends in the middle of a frame of 2 or 4 bytes; a FIFO of 2 overflows.
- One pending slot and one reply slot are full with the second URB; two clients are needed for an answer to go to the
  wrong one. Two breakpoint slots and three addresses leave one breakpoint without a slot.

Deadlock checking is off where the run may end (`done`) or where a bounded environment has used up its inputs.

`MCExceptions` uses a VIEW that leaves out the memory beyond each stack pointer: such a slot is
written by a push or an entry before anything reads it (a return reads the slot at a recorded stack
pointer, which is in use), so two states that differ there only have the same successors up to the
view and satisfy the same properties. It also identifies the states in which the run has ended, which
have no successors; the safety properties are about states before that, and the step into them is
checked from every state.

Runs that show a disagreement between the code and what the repository says of it:

| Run | Property | What happens |
|---|---|---|
| `task_start` | `ThreadPspReturns` | a return with EXC_RETURN_THREAD_PSP unstacks the frame recorded at entry, not the one PSP points to |
| `wfi_primask` | `PendingEnabledWakes` | an interrupt masked by PRIMASK does not end WFI |
| `reload` | `ReloadHappens` | F5 on a stopped target never reloads |

### What the code does that the properties step around

These behaviours are in the models. The repository promises nothing that they contradict, or says it in one
comment only; where a property or a theorem needs an exception for one of them, its comment says so.

- `exc_sp[]` saturates at `MM_EXC_STACK_MAX` while the frame is stacked all the same: the next return unstacks
  another frame. The call stack of BLXNS saturates at `MM_TZ_STACK_MAX` in the same way.
- A return by POP or LDM skips the write-back of the base register (`execute.c:2052`). If the frame is on another stack than
  the handler's (a PSP thread, or the other security state), the popped slot stays in use there.
  `TransparentPreemption` names this outcome (`ResumeLeaving`) and allows no other.
- An NVIC register word of all ones is taken for "not an NVIC register" and reads 0 (`scs.c:228`; the comment
  at line 206 says otherwise). Reads are left out of `Nvic`.
- F2 does not stop a target that was stepped into WFI (`main.c:221`).
- `securefault_pending` of a refused Non-secure access relabels a later Secure fault.
- The layout of the SAU registers is guessed from the value written.
- The nRF5340's flash changed through its Secure address is not written back to the files. Setting LOCK in FLASH_CR
  still obeys STRT in the same write.
- Stores of one or two bytes to RCC registers that do not begin at one the code lists are copied without recomputing
  `cpu_hz` (`stm32l552_mmio.c:837` and its copies), which is then out of date until the next listed store; no document of
  the repository promises otherwise. `CpuHzIsCurrent` says so by its premise `~partial`.
- The mcxw71c clears an interrupt only in a word store to ISFR: a short one leaves it pending without a flag.
- USART ISR is stored as written, so software can clear RXNE while a byte is held; `ReceiveRaisesInterrupt` is not claimed after
  that.
- Short writes: the flash files, the SPI flash and the TPM truncate before they write, and a short write leaves the
  file torn. The flash code reports it, the SPI flash forgets that it was dirty, and the TPM answers TPM_FAIL.
- ACTVOS is never cleared once set. The LPIT drops the cycles left over after a reload.
- The nRF5340's serial initialisation leaves `serials_init_done` false, so its ports are never polled.
- A full SPI receive FIFO drops bytes silently, an endless transfer keeps BUSY, and the chip select is seen only
  when a byte is exchanged.
- An NV entry of the TPM loses its name when it is stored: without a backing file nothing is found again. Reading
  the FIFO with no response stays in wait states.
- `mm_usbdev_poll` spins when the data of an OUT transfer comes in a later segment than its header
  (`usbdev.c:675`). An import whose reply finds no room in `tx_buf` has its client reset, and then moves its request out
  of a buffer whose length is 0: a `memmove` of nearly 2^64 bytes (`usbdev.c:757`). A reset inside a submit leaves the
  length wrapped (`usbdev.c:712`) until the next client is accepted. `PollReturns` claims that there is no third way
  for the poll not to return.
- There is one place for a due status stage: a second one overwrites it, and after a failed send the next client gets
  the answer.
- The GDB stub never recognises a breakpoint it has already listed, patches before it looks for a slot, and a patch of
  the other security state's flash is dropped. A lifted breakpoint is lost when another one takes its place.

### Fairness

`RunLoop` assumes `WF_vars(Next)`: the loop is one thread, every wait in it (nanosleep, poll) is
bounded, so it goes on taking steps. It also assumes `SF_vars(CompleteInstruction)`: firmware does
not consist of branches and faults alone, so if the loop gets to execute instructions again and
again, some of them run to the end of their iteration. Without it a handler that only branches
would never let a step end. Nothing is assumed of devices, keys or the firmware's choice
of instruction.

`MCLinks` assumes weak fairness of the poll of the serial ports, which the run loop calls for ever, and of the
program at the other end of the pseudo terminal, which goes on reading; without the second, output cannot drain. `MCHost`
assumes weak fairness of the steps of `mm_usbdev_poll`: it is code of one thread that does
not block. Nothing is assumed of the USB/IP client.

## 4. What is proved

Every safety invariant and action property that a passing run checks has a theorem, for every
value of the constants; `PROJECT.json` lists them. The runs show the same formulas on small instances, and were
used to find the inductive invariants before they were proved.

Assumptions. Constants have the assumptions named in the module that declares them and no others. Most of them
say that a size is a positive number. These say more:

- `ImagesFit` (`TargetFlash`): image files do not overlap. `main()` only warns of images that do (`main.c:1657`);
  `mm_flash_persist_build` then cuts the range of the lower one at the start of the next, so that no flush writes back
  what its file held beyond.
- `WatchdogBounds`: some prescaler is the slowest. The code has a table of eight.
- `SpiBounds`: `MaxXfer >= 4`, the bound of the history counter leaves room for the longest frame.
- `UsbIpBounds`: `RxSlots >= 2`, the receive buffer has room for the two pieces of one request.
- `GdbAssumption`: `"none"` is not an address; it is the model's value of "no breakpoint lifted".
- `Disciplined` is a hypothesis of theorems, not an assumption of a module, so that TLC may also run without it. The theorems of `ExceptionsProofs` other than
  `TypeCorrect` have it: the nesting and the outstanding calls stay within `ExcStackMax` and
  `TzStackMax`, because both records saturate. It says nothing of how a handler returns: the slot that a POP {pc} of
  an EXC_RETURN value may leave behind is part of what the theorem states.

Induction over data. The induction theorems of the library take an operator, which the provers cannot
instantiate. `Induction` states them for sets instead: `SetInduction` and `SegmentInduction` (a set of numbers that
holds 0 and with each number the next one is all of them), `LeastMember`, `GreatestMember`, and
`RecursiveFunction` (the function that a recursive definition names exists and satisfies its equations, by gluing
together the functions on its initial segments). A proof by induction collects the numbers that satisfy the claim
in a set. `DivMod`, `DivModUnique` and `DivModAdd` are what is needed about `\div` and `%` by a divisor that
is not a literal.

### Core

`SysTickProofs`, for every register width `RegMod > 1`. `FastForwardStep` and `UntilFireExact` hold of every
counter of the right type, reachable or not. `FastForwardCorrect` is the induction over the length of the skip,
with `FastForwardStep` as its step; the reference counter is a recursive function, and `RecursiveFunction` gives its
equations. `CountFlagCorrect` is inductive together with `wrapsSeen <= wraps`. `TickPendedCorrect` is an action property:
every wrap goes through `SysTickAdvance`, and only entry, PENDSTCLR and reset clear the bit.

`NvicProofs`, for any number of register words and bits per word. The loop of `mm_nvic_select_routed` is a recursive
function over the interrupts. The induction shows that after the first `k` of them the candidate goes before all the
others that can be taken, or is still none if none of them can; priority 0xff, which is
also the start value of the search, is why "none so far" is part of the claim. `SecureSelectionCorrect` needs only that
a masked write leaves the bits of Secure interrupts and that selection reads no others. It does not speak of the
priority registers, which the code lets Non-secure software write without the mask.

`ExceptionsProofs`, for any set of program points, any stack size and any set of exceptions. The argument rests on
one inductive invariant, `IInv`:

- `StackInv`: record `i` of `exc` is the top of the frame of context `i`, the frame is in memory
  below that stack pointer, and the stack pointers of the contexts grow along the nesting, so no
  later activation can write at or below an earlier frame. `FramesIntact` is not inductive without the
  ordering of the stack pointers, because a push at the current level must be known to be above
  all of the frames.
- `LrInv`: an EXC_RETURN value in LR of a handler is the one its entry made.
- `ModeInv`: mode and IPSR of each context and of the running activation agree with its depth.
- `CallInv`: the recorded calls are the outstanding calls, in order, each made at most as deep
  as the present nesting.

`FramesCorrect`, `HandlerIffNestedCorrect`, `NsCallReturnsCorrect` follow from it; for
`TransparentPreemptionCorrect` the lemma `StepKinds` shows that each step keeps `ctx`, appends the
suspended context or restores the last one, exactly or but for the slot left (`LeavesOn`), and `AbsStep` maps each case to a step of
`Preemption`. A slot left on a stack is in use for every activation below, until a frame under it on the same stack
is unstacked; the history `ctx` is charged with it (`WithLeft`), and `AlikeFacts` and `AlikeAbove` show that
`StackInv` bears it.

### Peripherals, links and host

| Theorem | Inductive invariant, and why it is needed |
|---|---|
| `FlashProofs`: `FlashTypeCorrect`, `RestartCorrect`, `CrashCostCorrect` | `FlashInv`: `FilesFit`, no file outgrows its range, so that loading one image never overwrites another; `Restorable`, the property while a flush is under way: images neither queued nor missed are in their files. An image is missed while its last flush did not open the file or wrote it short |
| `SocProofs`: `HeldDrawIsUnusedCorrect` | `RngInv`: the numbers held and read are among those drawn, so that a fresh draw is newer than both |
| `SocProofs`: `EdgesAreSeenCorrect`, `McxIrqHasCauseCorrect` | none for the first, an action property: every write reaches `SyncOdr` or keeps the outputs; the second is inductive by itself |
| `SocProofs`: `CpuHzCorrect` | `ClockInv`: the registers keep their type, so that after a write the ready bits and the switch status computed by `rcc_update_ready` are the ones the stored frequency was computed from; a store that is only copied ends the claim until the next that recomputes. Once for each of the three copies |
| `SocProofs`: `NsReachCorrect` | `MemInv` adds `GivenCovers`: what the registers open now was let go at some time, RAM excepted that Non-secure software opened through an MPCBB given to it, on the targets where an MPCBB decides. The lemmas relate the search of `mm_sau_attr_for_addr` to "the last enabled region that covers the address" |
| `SocProofs`: `TimerTypeCorrect`, `BatchesAddCorrect` | `TimerTypeOK`. For each tick function: the closed form of a batch is the position of the counter on its cycle, and positions add (`DivModAdd`); counters above ARR are a case of their own, and of the LPIT, which drops the remainder, only the flag is claimed |
| `SocProofs`: `WatchdogCorrect` | `WdgInv`: since the last load each count took between the fastest and the slowest prescaler's cycles, give or take one remainder (`Within`). The property alone bounds the time, and does not know how far the count has come |
| `LinksProofs`: `OutputCorrect`, `InputCorrect` | `UsartInv`: the ring is a run of numbers that ends with the last byte sent and is as long as what is waiting, or full; the byte held, or else the next one typed, follows the last one read or lost |
| `LinksProofs`: `EotMeansAllSentCorrect` | `SpiInv`: while a sized transfer of an STM32 is active, `rem` is positive and is `tsize - xfers`, whatever the frame sizes so far; EOT excludes an active transfer |
| `LinksProofs`: `SpiFlashTypeCorrect`, `FileCorrect`, `WrenCorrect` | `SpiFlashInv`: an array that is dirty is being programmed, or its last write was refused or cut short; a write enable latch that is set is fresh or belongs to the page program in progress |
| `LinksProofs`: `AnsweredCommandIsGoneCorrect`, `NvFileHoldsLastStoreCorrect` | `TisInv`: the lengths are natural numbers; `NvInv`: no entry ever keeps its name, so with a backing file a load always goes to the file, which holds what was stored last, or its beginning or nothing if that store was cut short |
| `LinksProofs`: `LinksTypeCorrect` | the invariants above with the sizes of every ring, FIFO and buffer; a step of one part leaves the others alone |
| `HostProofs`: `UsbTypeCorrect`, `TransferFlagHasCauseCorrect` | `UsbInv`, type and property together: the toggling writes keep a status field a status field |
| `HostProofs`: `EachUrbAnsweredOnceCorrect` | `UsbIpInv`, whose part `UrbInv` says where an URB can be: in the stream, in the table, waiting for its status stage, or answered, and in one of these places only; that the stream is in ascending order makes a new URB younger than all that were taken. The lemmas are moves from place to place, and each step of the poll and of the client is one or two moves |
| `HostProofs`: `CodeIsRestoredCorrect`, `BreakpointLostOnlyByOvertakingCorrect` | `GdbInv` adds `OneEntry`: an address that is not spoilt has at most one entry; a second one would keep the patch as the code to restore. That the first free slot exists is `LeastMember` |
| `HostProofs`: `HostTypeCorrect` | `HostInv`, the invariants of the three parts and the flags of the GDB stub |

The theorems on parts of `MCSoc`, `MCLinks` and `MCHost` are about each part's own specification (`RngSpec`,
`UsartSpec`, `UsbIpSpec`, ...). The compositions only add that the other parts stand still.

### Only model-checked

The liveness properties, because fairness and ENABLED are beyond the prover: `SleeperWakes`, `TickEndsSleep`,
`ResetHappens`, `StepEnds`, `ReceiveRaisesInterrupt`, `OutputDrains`, `PollReturns`. And the three runs of section 3 that
show a disagreement, which are counterexamples.

## 5. Not modelled

- The decoder and the ALU, with IT blocks: stateless tables and functions of operands. A model would repeat the
  table, and the repository's tests compare it with known results. The stack limits and the exclusive
  monitor are set and compared within single instructions.
- The Ethernet backend (I/O on TAP and VDE descriptors) and the Ethernet MAC of the STM32H563 with its rings.
- Drawing in the TUI and its widget library, the Capstone comparison (third party), the minimal run loop of
  the unit tests, command line parsing, the synchronisation with host time, the SVD files.
- GDB packets that read or write registers and memory, and the framing below whole packets.
- Registers that only store what is written to them (SHCSR, fault status, identification and most configuration registers).
- The composition of `Timers` with `RunLoop`: in `RunLoop` devices may pend an interrupt at any poll, so that
  device timers stand still while the core sleeps with SysTick off does not show there.

What would come next: `Timers` and `Watchdog` under `RunLoop`; `GdbStub` under the whole of `RunLoop`; IT state and the
exclusive monitor; the Ethernet descriptor rings; safety lemmas under the liveness properties (that a step of
the poll shortens what is left to do, that an iteration of `RunLoop` with a reset request ends at the reset), which
are within the prover's reach where the liveness properties themselves are not.
