------------------------------ MODULE MCRadio -------------------------------
(***************************************************************************)
(* An instance of Radio for TLC: a device handles one frame more than the  *)
(* buffer holds, as 66150 are one and a half seconds and 65000 the buffer. *)
(***************************************************************************)
EXTENDS Radio
=============================================================================
