----------------------------- MODULE MCSysTick -----------------------------
(* SysTick with registers of five values: every LOAD and VAL, LOAD below    *)
(* VAL included, and skips of up to two full periods past the longest count.*)
EXTENDS SysTick
=============================================================================
