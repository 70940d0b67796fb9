----------------------------- MODULE MCInterrupts -----------------------------
(* Interrupts for TLC: a left and a right key of each kind where they differ, *)
(* and one key of each sort.                                                *)
EXTENDS Interrupts

MCKeys == {"lshift", "rshift", "rctrl", "caps", "digit", "L"}
=============================================================================
