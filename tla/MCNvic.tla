------------------------------- MODULE MCNvic -------------------------------
(* One register word of three interrupts, with priorities below and at 0xff. *)
EXTENDS Nvic
=============================================================================
