------------------------------- MODULE Target -------------------------------
(***************************************************************************)
(* The emulated microcontrollers.  `--cpu' selects one of them before the  *)
(* run and nothing changes it afterwards; target_hal.c then calls through  *)
(* the function pointers of that target's table.  Three of the targets     *)
(* carry a copy of the same STM32 drivers each: every copy is an action of *)
(* its own in the device modules, so that a change to one copy is a change *)
(* to one definition.                                                      *)
(***************************************************************************)

VARIABLE cpu        \* the selected entry of the CPU database

Stm32 == {"stm32l552", "stm32h563", "stm32u585"}

Targets == Stm32 \cup {"nrf5340", "mcxw71c"}

TargetInit == cpu \in Targets

\* The security states of the core and, with the same names, the Secure and
\* Non-secure aliases of a memory or of a peripheral.
Secure == "S"
NonSecure == "NS"
SecStates == {Secure, NonSecure}
=============================================================================
