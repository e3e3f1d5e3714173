------------------------------ MODULE MCRunLoop ------------------------------
(* The main loop with one interrupt and a SysTick counter of two values.     *)
EXTENDS RunLoop
=============================================================================
