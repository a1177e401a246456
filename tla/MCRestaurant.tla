---------------------------- MODULE MCRestaurant ----------------------------
(***************************************************************************)
(* Instances of Restaurant for TLC: two orders of each kind.  Packing the  *)
(* two without onion takes so long that a cutlet and the onion for it have *)
(* both expired when the thread comes back to them.                        *)
(***************************************************************************)
EXTENDS Restaurant

MCOnionOrders == {3, 4}
=============================================================================
