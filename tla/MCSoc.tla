-------------------------------- MODULE MCSoc --------------------------------
(* The peripherals inside the targets, and the memory they are reached        *)
(* through.  The parts share the selected target only, so each behaviour      *)
(* follows one of them and leaves the others as they are after a reset.       *)
EXTENDS TargetFlash, Gpio, Rng, Watchdog, ClockTree, Timers, Memory, TLC

VARIABLE part
socVars == <<part, flashVars, gpioVars, rngVars, wdgVars, clockVars, timerVars, memVars>>

\* The first image starts in the middle of the second sector, so an erase of
\* that sector concerns two files.
MCImageOffset == <<3, 0>>
MCImageFile == <<<<{}>>, <<{}>>>>

\* A detector for one edge, and one for both with a line set up for another port.
OneEdge == [imr |-> {0}, rtsr |-> {0}, ftsr |-> {}, here |-> {0}]
BothEdges == [imr |-> {0}, rtsr |-> {0}, ftsr |-> {0, 8}, here |-> {8}]
MCExtiConfigs == [c \in Targets |-> IF c = "stm32l552" THEN {OneEdge} ELSE {BothEdges}]

\* The three copies of the STM32 driver are the same: one of them counts far.
MCCounterMax == [c \in Targets |-> IF c \in {"stm32h563", "stm32u585"} THEN 1 ELSE 3]

\* A low and a high MSI, the PLL with its source, divider and output missing or
\* there, and a value of SW that selects nothing
MCFieldValues ==
    [c \in Targets |->
        [on |-> {0, 1}, ready |-> {0, 1}, hpre |-> {0, 9}, pllSrc |-> {0, 1}, divm |-> {0, 2},
         n |-> {10}, pllOut |-> {0, 1}]
        @@ IF c = "stm32l552" THEN [msi |-> {0, 6}, sw |-> {0, 3}, sws |-> {0, 3}, p |-> {0}]
           ELSE [msi |-> {0}, sw |-> {0, 3, 5}, sws |-> {0, 3}, p |-> {0, 1}]]

MCTickCycles == <<1, 2>>
MCSauRegions == [c \in Targets |-> IF c = "stm32l552" THEN 2 ELSE 1]

SocInit ==
    /\ part \in {"flash", "gpio", "rng", "watchdog", "clock", "power", "timers", "memory"}
    /\ FlashInit /\ GpioInit /\ RngInit /\ WdgInit /\ ClockInit /\ TimersInit /\ MemInit
    /\ part # "watchdog" => used = "wdt"
    /\ part # "gpio" => edges.here # {}

SocNext ==
    \/ /\ part = "flash" /\ FlashNext
       /\ UNCHANGED <<part, gpioVars, rngVars, wdgVars, clockVars, timerVars, memVars>>
    \/ /\ part = "gpio" /\ GpioNext
       /\ UNCHANGED <<part, flashVars, rngVars, wdgVars, clockVars, timerVars, memVars>>
    \/ /\ part = "rng" /\ RngNext
       /\ UNCHANGED <<part, flashVars, gpioVars, wdgVars, clockVars, timerVars, memVars>>
    \/ /\ part = "watchdog" /\ WdgNext
       /\ UNCHANGED <<part, flashVars, gpioVars, rngVars, clockVars, timerVars, memVars>>
    \/ /\ part = "clock" /\ (RccNext \/ stm32_mmio_reset)
       /\ UNCHANGED <<part, flashVars, gpioVars, rngVars, wdgVars, timerVars, memVars>>
    \/ /\ part = "power" /\ (PwrNext \/ stm32_mmio_reset)
       /\ UNCHANGED <<part, flashVars, gpioVars, rngVars, wdgVars, timerVars, memVars>>
    \/ /\ part = "timers" /\ TimersNext
       /\ UNCHANGED <<part, flashVars, gpioVars, rngVars, wdgVars, clockVars, memVars>>
    \/ /\ part = "memory" /\ MemNext
       /\ UNCHANGED <<part, flashVars, gpioVars, rngVars, wdgVars, clockVars, timerVars>>

SocSpec == SocInit /\ [][SocNext]_socVars
=============================================================================
