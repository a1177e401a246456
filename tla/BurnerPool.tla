----------------------------- MODULE BurnerPool -----------------------------
(***************************************************************************)
(* What a gas cooker promises, without strands, queues or handlers: a      *)
(* pool of NumBurners identical burners.  A user asks for a burner, waits, *)
(* holds exactly one, and gives it back.  At most NumBurners users hold    *)
(* one at a time.  GasCooker implements this module.                       *)
(***************************************************************************)
EXTENDS Naturals, FiniteSets

CONSTANTS
  Users,       \* the ingredients that may ask for a burner
  NumBurners   \* number_of_burners_

VARIABLES
  waiting,     \* users whose request has not been granted
  holders      \* users that hold a burner

poolVars == <<waiting, holders>>

PoolInit == waiting = {} /\ holders = {}

Request(u) ==
  /\ u \notin waiting \cup holders
  /\ waiting' = waiting \cup {u}
  /\ UNCHANGED holders

Acquire(u) ==
  /\ u \in waiting
  /\ Cardinality(holders) < NumBurners
  /\ waiting' = waiting \ {u}
  /\ holders' = holders \cup {u}

Return(u) ==
  /\ u \in holders
  /\ holders' = holders \ {u}
  /\ UNCHANGED waiting

(***************************************************************************)
(* A burner may pass straight from the user that returns it to a waiter,   *)
(* without being free in between.                                          *)
(***************************************************************************)
PassOn(u, w) ==
  /\ u \in holders
  /\ w \in waiting
  /\ waiting' = waiting \ {w}
  /\ holders' = (holders \ {u}) \cup {w}

PoolNext ==
  \/ \E u \in Users : Request(u) \/ Acquire(u) \/ Return(u)
  \/ \E u, w \in Users : PassOn(u, w)

PoolSpec == PoolInit /\ [][PoolNext]_poolVars
=============================================================================
