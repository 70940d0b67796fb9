--------------------------- MODULE MCDescriptors ----------------------------
(***************************************************************************)
(* An instance of Descriptors for TLC: a shell and what it starts, with    *)
(* two descriptors each.  The numbers written are no rate, a rate, one     *)
(* above the cap, one that is no power of two, and the negative one that   *)
(* passes for one.                                                         *)
(***************************************************************************)
EXTENDS Descriptors

Numbers == {0, 1, 3, 8, -8}
MinusEight == -8
=============================================================================
