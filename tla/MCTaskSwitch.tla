---------------------------- MODULE MCTaskSwitch ----------------------------
(* One task, one level of exceptions, stacks of two slots.                  *)
EXTENDS TaskSwitch
=============================================================================
