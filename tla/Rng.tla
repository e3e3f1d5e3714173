-------------------------------- MODULE Rng ---------------------------------
(***************************************************************************)
(* The random number generator of the STM32 targets (one copy per target)  *)
(* and of the nRF5340.  A number is modelled by its serial number: what    *)
(* matters is which draw a read returns, not the value drawn.              *)
(***************************************************************************)
EXTENDS Target, Integers

CONSTANT MaxDraws           \* bound on the numbers drawn in one behaviour
ASSUME MaxDrawsIsNat == MaxDraws \in Nat \ {0}

VARIABLES
    rclk,       \* RNGEN of the clock controller
    rsec,       \* TZSC assigns the generator to the Secure state
    ie,         \* interrupt enable (CR.IE, INTENSET)
    drdy,       \* SR.DRDY, or EVENTS_VALRDY of the nRF5340
    drValid,    \* dr_valid; `running' of the nRF5340
    dr,         \* the number held
    draws,      \* numbers drawn so far
    rnvic,      \* the interrupt is pending
    taken       \* history: the draw that the last read of DR returned
rngVars == <<cpu, rclk, rsec, ie, drdy, drValid, dr, draws, rnvic, taken>>

\* rng_clock_enabled and rng_requires_secure
Reaches(alias) == rclk /\ ~(alias = NonSecure /\ rsec)

\* rng_fill
Fill ==
    /\ draws < MaxDraws
    /\ draws' = draws + 1
    /\ dr' = draws + 1
    /\ rnvic' = (rnvic \/ ie)

Keep == UNCHANGED <<dr, draws, rnvic>>

\* A read of SR fills the generator; a refused read returns zero
rng_read_sr(alias) ==
    /\ Reaches(alias)
    /\ IF drValid THEN Keep ELSE Fill
    /\ drValid' = TRUE /\ drdy' = TRUE
    /\ UNCHANGED <<cpu, rclk, rsec, ie, taken>>

\* Mutant of rng_read_dr: the number stays valid after it was read.
rng_read_dr_Mut(alias) ==
    /\ Reaches(alias)
    /\ IF drValid THEN Keep ELSE Fill
    /\ taken' = dr'
    /\ drValid' = TRUE /\ drdy' = TRUE
    /\ UNCHANGED <<cpu, rclk, rsec, ie>>

\* A read of DR returns the number held, drawing one first if there is none,
\* and empties the register
rng_read_dr(alias) ==
    /\ Reaches(alias)
    /\ IF drValid THEN Keep ELSE Fill
    /\ taken' = dr'
    /\ drValid' = FALSE /\ drdy' = FALSE
    /\ UNCHANGED <<cpu, rclk, rsec, ie>>

\* CR: without RNGEN the number is dropped; IE pends a number that is ready
rng_write_cr(alias, rngen, irq) ==
    /\ Reaches(alias)
    /\ ie' = irq
    /\ drValid' = (drValid /\ rngen) /\ drdy' = (drdy /\ rngen)
    /\ rnvic' = (rnvic \/ (irq /\ drdy'))
    /\ UNCHANGED <<cpu, rclk, rsec, dr, draws, taken>>

stm32l552_rng_read(alias) == cpu = "stm32l552" /\ (rng_read_sr(alias) \/ rng_read_dr(alias))
stm32h563_rng_read(alias) == cpu = "stm32h563" /\ (rng_read_sr(alias) \/ rng_read_dr(alias))
stm32u585_rng_read(alias) == cpu = "stm32u585" /\ (rng_read_sr(alias) \/ rng_read_dr(alias))
stm32l552_rng_write(alias, en, irq) == cpu = "stm32l552" /\ rng_write_cr(alias, en, irq)
stm32h563_rng_write(alias, en, irq) == cpu = "stm32h563" /\ rng_write_cr(alias, en, irq)
stm32u585_rng_write(alias, en, irq) == cpu = "stm32u585" /\ rng_write_cr(alias, en, irq)

\* Secure software moves the generator between the states or stops its clock
RngGate ==
    /\ cpu \in Stm32
    /\ \/ rclk' = ~rclk /\ UNCHANGED rsec
       \/ rsec' = ~rsec /\ UNCHANGED rclk
    /\ UNCHANGED <<cpu, ie, drdy, drValid, dr, draws, rnvic, taken>>

-----------------------------------------------------------------------------
(* The nRF5340: while it runs every read of VALUE draws a number; stopped, the *)
(* last number is read again.                                                *)

nrf5340_rng_read ==
    /\ cpu = "nrf5340"
    /\ IF drValid
         THEN draws < MaxDraws /\ draws' = draws + 1 /\ dr' = draws + 1 /\ drdy' = TRUE
         ELSE UNCHANGED <<draws, dr, drdy>>
    /\ taken' = dr'
    /\ UNCHANGED <<cpu, rclk, rsec, ie, drValid, rnvic>>

nrf5340_rng_write ==
    /\ cpu = "nrf5340"
    /\ \/ /\ draws < MaxDraws                            \* TASKS_START
          /\ drValid' = TRUE /\ draws' = draws + 1 /\ dr' = draws + 1 /\ drdy' = TRUE
          /\ UNCHANGED ie
       \/ drValid' = FALSE /\ UNCHANGED <<draws, dr, drdy, ie>>   \* TASKS_STOP
       \/ drdy' \in BOOLEAN /\ UNCHANGED <<drValid, draws, dr, ie>>   \* EVENTS_VALRDY
       \/ ie' \in BOOLEAN /\ UNCHANGED <<drValid, draws, dr, drdy>>   \* INTENSET, INTENCLR
    /\ UNCHANGED <<cpu, rclk, rsec, rnvic, taken>>

-----------------------------------------------------------------------------

RngIrqTaken ==
    /\ rnvic /\ rnvic' = FALSE
    /\ UNCHANGED <<cpu, rclk, rsec, ie, drdy, drValid, dr, draws, taken>>

RngAtReset ==
    /\ rclk = FALSE /\ rsec = FALSE /\ ie = FALSE
    /\ drdy = FALSE /\ drValid = FALSE /\ dr = 0
    /\ draws = 0 /\ rnvic = FALSE /\ taken = 0

RngInit == TargetInit /\ RngAtReset

RngReset ==
    /\ rclk' = FALSE /\ rsec' = FALSE /\ ie' = FALSE
    /\ drdy' = FALSE /\ drValid' = FALSE /\ dr' = 0 /\ rnvic' = FALSE
    /\ UNCHANGED <<cpu, draws, taken>>

RngNext ==
    \/ \E alias \in SecStates : stm32l552_rng_read(alias)
    \/ \E alias \in SecStates : stm32h563_rng_read(alias)
    \/ \E alias \in SecStates : stm32u585_rng_read(alias)
    \/ \E alias \in SecStates, en, irq \in BOOLEAN : stm32l552_rng_write(alias, en, irq)
    \/ \E alias \in SecStates, en, irq \in BOOLEAN : stm32h563_rng_write(alias, en, irq)
    \/ \E alias \in SecStates, en, irq \in BOOLEAN : stm32u585_rng_write(alias, en, irq)
    \/ RngGate
    \/ nrf5340_rng_read \/ nrf5340_rng_write
    \/ RngIrqTaken
    \/ RngReset

RngSpec == RngInit /\ [][RngNext]_rngVars

-----------------------------------------------------------------------------
(* Properties *)

\* The draw held and the draw last read are among the numbers drawn.
RngTypeOK ==
    /\ cpu \in Targets
    /\ {rclk, rsec, ie, drdy, drValid, rnvic} \subseteq BOOLEAN
    /\ draws \in 0 .. MaxDraws
    /\ dr \in 0 .. draws /\ taken \in 0 .. draws

\* On the STM32 targets a number held ready is one that no read of DR has returned
\* yet, and it is newer than every number returned: no draw is delivered twice
\* (rng_read, rng_fill, and rng_write that drops a number).
HeldDrawIsUnused == cpu \in Stm32 /\ drValid => dr > taken
=============================================================================
