---------------------------- MODULE MCExceptions ----------------------------
(* Exceptions on stacks of a few slots and program points 1 (reset) and 2   *)
(* (the handlers).                                                          *)
EXTENDS Exceptions

(* The slots beyond a stack pointer are never read before they are written, *)
(* so states that differ there only have the same future.  A run that has   *)
(* ended has none, whatever its state.                                      *)
LiveMem ==
    [r \in StackReg |-> IF sp[r].area = r THEN SubSeq(mem[r], 1, sp[r].n) ELSE << >>]
View == IF done THEN <<done>>
        ELSE <<mode, sec, ipsr, pc, lr, spsel, sp, LiveMem, exc, tz, ctx, calls>>
=============================================================================
