---------------------------- MODULE MCCafeteria -----------------------------
(***************************************************************************)
(* Instances of Cafeteria for TLC: the configurations give the sizes.      *)
(* Always more ingredients than burners, so that handlers queue; one       *)
(* instance with fewer threads than orders and one with more, so that the  *)
(* latch counts one or the other.                                          *)
(***************************************************************************)
EXTENDS Cafeteria
=============================================================================
