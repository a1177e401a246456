---------------------------- MODULE MCGasCooker -----------------------------
(***************************************************************************)
(* The instance of GasCooker for TLC: four users of two burners, so that   *)
(* two may hold a burner while two wait.                                   *)
(***************************************************************************)
EXTENDS GasCooker
=============================================================================
