---------------------------- MODULE MCLineBuffer ----------------------------
(***************************************************************************)
(* Instances of LineBuffer for TLC.  A buffer of 6 slots leaves a tab of 4 *)
(* room to fill it to the limit of BufSize - 1, and so does typing; reads  *)
(* ask for one byte, or for more than a line can hold.                     *)
(***************************************************************************)
EXTENDS LineBuffer

ShortAndLong == {1, BufSize + 1}
Long == {BufSize + 1}
=============================================================================
