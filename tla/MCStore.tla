------------------------------ MODULE MCStore -------------------------------
(***************************************************************************)
(* Instances of Store for TLC.  The orders are interchangeable.            *)
(***************************************************************************)
EXTENDS Store, TLC

Symmetry == Permutations(Orders)

\* g++ evaluates arguments from the last to the first, clang from the first.
LastToFirst == <<"bread", "sausage", "order">>
FirstToLast == <<"order", "sausage", "bread">>
=============================================================================
