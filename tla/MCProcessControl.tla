-------------------------- MODULE MCProcessControl --------------------------
(***************************************************************************)
(* Instances of ProcessControl for TLC.  An instance is told apart by the  *)
(* terminals that have an F key (OneTerminal: the terminal in front never  *)
(* changes), by MaxProcs and by MaxMidKernel.  Pressing any F key, and     *)
(* Ctrl+C, is unbounded: the state of the kernel itself is finite.         *)
(***************************************************************************)
EXTENDS ProcessControl

OneTerminal == {0}
TwoTerminals == {0, 1}
AllTerminals == {0, 1, 2}
=============================================================================
