-------------------------- MODULE MCCafeteriaTiming -------------------------
(***************************************************************************)
(* CafeteriaTiming with the program's own numbers.                         *)
(***************************************************************************)
EXTENDS CafeteriaTiming
=============================================================================
