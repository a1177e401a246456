----------------------------- MODULE GasCooker ------------------------------
(***************************************************************************)
(* cafeteria/solution/src/gascooker.h: the burners shared by every         *)
(* ingredient of every order, and the GasCookerLock through which an       *)
(* ingredient uses them.                                                   *)
(*                                                                         *)
(* UseBurner and ReleaseBurner may be called from any thread; each only    *)
(* dispatches a lambda to the cooker's strand.  The strand runs lambdas    *)
(* one at a time and in the order they were dispatched, so a lambda is one *)
(* atomic action.  When dispatch finds the strand idle the lambda runs     *)
(* inside the call: here that is the dispatching action followed at once   *)
(* by the strand's.                                                        *)
(*                                                                         *)
(* A user is one Sausage or Bread object with its GasCookerLock.  use[u]   *)
(* says how far its only use of the cooker has come:                       *)
(*   idle       StartFry / StartBake not called, the lock is empty         *)
(*   requested  lock set, UseBurner dispatched, the handler is in the      *)
(*              strand or in pending_handlers_                             *)
(*   posted     a burner is taken for u, its handler is queued on io_      *)
(*   cooking    the handler has run                                        *)
(*   releasing  Unlock has reset the lock and dispatched ReleaseBurner     *)
(*   done       the strand has run that ReleaseBurner                      *)
(***************************************************************************)
EXTENDS Naturals, Sequences, FiniteSets

CONSTANTS
  Users,        \* the ingredients that will ask for a burner
  NumBurners    \* number_of_burners_, 8 in the cafeteria

(***************************************************************************)
(* gascooker.h:65 asserts burners_in_use_ > 0 after every UseBurner, which *)
(* no cooker without burners can meet.                                     *)
(***************************************************************************)
ASSUME CookerAssumption ==
  /\ IsFiniteSet(Users)
  /\ NumBurners \in Nat \ {0}

VARIABLES
  strand,            \* lambdas dispatched to strand_ and not yet run
  burners_in_use,    \* burners_in_use_
  pending_handlers,  \* pending_handlers_, as the users they belong to
  use,               \* the phase of each user, see above
  owner              \* the Cafeteria or an Order still has a shared_ptr

vars == <<strand, burners_in_use, pending_handlers, use, owner>>

Phases == {"idle", "requested", "posted", "cooking", "releasing", "done"}
Lambdas == [op : {"use", "release"}, user : Users]

TypeOK ==
  /\ strand \in Seq(Lambdas)
  /\ burners_in_use \in 0..NumBurners
  /\ pending_handlers \in Seq(Users)
  /\ use \in [Users -> Phases]
  /\ owner \in BOOLEAN

-----------------------------------------------------------------------------
Init ==
  /\ strand = <<>>
  /\ burners_in_use = 0
  /\ pending_handlers = <<>>
  /\ use = [u \in Users |-> "idle"]
  /\ owner = TRUE

Become(u, phase) == use' = [use EXCEPT ![u] = phase]

(***************************************************************************)
(* An ingredient sets its lock and asks for a burner.  The ingredient      *)
(* throws when asked to start twice, so every user does this once.         *)
(***************************************************************************)
UseBurner(u) ==
  /\ owner
  /\ use[u] = "idle"
  /\ Become(u, "requested")
  /\ strand' = Append(strand, [op |-> "use", user |-> u])
  /\ UNCHANGED <<burners_in_use, pending_handlers, owner>>

\* Mutant: Unlock does not reset cooker_, so the destructor unlocks again.
ReleaseBurner_NoReset(u) ==
  /\ use[u] \in {"cooking", "releasing", "done"}
  /\ Become(u, "releasing")
  /\ strand' = Append(strand, [op |-> "release", user |-> u])
  /\ UNCHANGED <<burners_in_use, pending_handlers, owner>>

(***************************************************************************)
(* GasCookerLock::Unlock, from StopFry / StopBake or from the destructor   *)
(* of an ingredient nobody refers to any more.  Before the handler has run *)
(* the handler itself keeps the ingredient alive.                          *)
(***************************************************************************)
ReleaseBurner(u) ==
  /\ use[u] = "cooking"
  /\ Become(u, "releasing")
  /\ strand' = Append(strand, [op |-> "release", user |-> u])
  /\ UNCHANGED <<burners_in_use, pending_handlers, owner>>

(***************************************************************************)
(* The strand takes the next lambda.                                       *)
(***************************************************************************)
Runs(op, u) ==
  /\ strand # <<>>
  /\ Head(strand) = [op |-> op, user |-> u]
  /\ strand' = Tail(strand)
  /\ UNCHANGED owner

\* Mutant: one burner too many.
Occupy_OffByOne(u) ==
  /\ Runs("use", u)
  /\ burners_in_use <= NumBurners
  /\ burners_in_use' = burners_in_use + 1
  /\ Become(u, "posted")
  /\ UNCHANGED pending_handlers

\* UseBurner's lambda finds a free burner, takes it and posts the handler.
Occupy(u) ==
  /\ Runs("use", u)
  /\ burners_in_use < NumBurners
  /\ burners_in_use' = burners_in_use + 1
  /\ Become(u, "posted")
  /\ UNCHANGED pending_handlers

\* Mutant: emplace_front instead of emplace_back.
Enqueue_AtFront(u) ==
  /\ Runs("use", u)
  /\ ~(burners_in_use < NumBurners)
  /\ pending_handlers' = <<u>> \o pending_handlers
  /\ UNCHANGED <<burners_in_use, use>>

\* UseBurner's lambda finds every burner taken and queues the handler.
Enqueue(u) ==
  /\ Runs("use", u)
  /\ ~(burners_in_use < NumBurners)
  /\ pending_handlers' = Append(pending_handlers, u)
  /\ UNCHANGED <<burners_in_use, use>>

\* Mutant: the burner is handed over and counted free as well.
HandOver_AndFree(u) ==
  /\ Runs("release", u)
  /\ pending_handlers # <<>>
  /\ use' = [use EXCEPT ![u] = "done", ![Head(pending_handlers)] = "posted"]
  /\ pending_handlers' = Tail(pending_handlers)
  /\ burners_in_use' = burners_in_use - 1

\* Mutant: the first handler is popped before it is posted.
HandOver_PopFirst(u) ==
  /\ Runs("release", u)
  /\ pending_handlers # <<>>
  /\ pending_handlers' = Tail(pending_handlers)
  /\ use' = IF Tail(pending_handlers) = <<>>
            THEN [use EXCEPT ![u] = "done"]
            ELSE [use EXCEPT ![u] = "done", ![pending_handlers[2]] = "posted"]
  /\ UNCHANGED burners_in_use

\* ReleaseBurner's lambda passes the burner to the handler that waited longest.
HandOver(u) ==
  /\ Runs("release", u)
  /\ pending_handlers # <<>>
  /\ use' = [use EXCEPT ![u] = "done", ![Head(pending_handlers)] = "posted"]
  /\ pending_handlers' = Tail(pending_handlers)
  /\ UNCHANGED burners_in_use

\* Mutant: the burner is freed without looking at pending_handlers_.
FreeBurner_Always(u) ==
  /\ Runs("release", u)
  /\ burners_in_use' = burners_in_use - 1
  /\ Become(u, "done")
  /\ UNCHANGED pending_handlers

\* ReleaseBurner's lambda finds nobody waiting and frees the burner.
FreeBurner(u) ==
  /\ Runs("release", u)
  /\ pending_handlers = <<>>
  /\ burners_in_use' = burners_in_use - 1
  /\ Become(u, "done")
  /\ UNCHANGED pending_handlers

StrandStep == \E u \in Users : Occupy(u) \/ Enqueue(u) \/ HandOver(u) \/ FreeBurner(u)

\* A thread of io_ runs the handler that UseBurner or ReleaseBurner posted.
RunHandler(u) ==
  /\ use[u] = "posted"
  /\ Become(u, "cooking")
  /\ UNCHANGED <<strand, burners_in_use, pending_handlers, owner>>

(***************************************************************************)
(* The last shared_ptr outside locks and lambdas goes away; a user that    *)
(* has not asked by now cannot ask any more.                               *)
(***************************************************************************)
DropOwner ==
  /\ owner
  /\ owner' = FALSE
  /\ UNCHANGED <<strand, burners_in_use, pending_handlers, use>>

Next ==
  \/ \E u \in Users : UseBurner(u) \/ RunHandler(u) \/ ReleaseBurner(u)
  \/ StrandStep
  \/ DropOwner

Spec == Init /\ [][Next]_vars

(***************************************************************************)
(* The strand and the threads of io_ keep running what was queued, and an  *)
(* ingredient that is cooking is stopped some day (its timer fires).       *)
(* Nobody is obliged to ask for a burner.                                  *)
(***************************************************************************)
Fairness ==
  /\ WF_vars(StrandStep)
  /\ \A u \in Users : WF_vars(RunHandler(u)) /\ WF_vars(ReleaseBurner(u))

FairSpec == Spec /\ Fairness

-----------------------------------------------------------------------------
(***************************************************************************)
(* Who holds a burner, who a lock, and whether the cooker is still alive.  *)
(***************************************************************************)
Holders == {u \in Users : use[u] \in {"posted", "cooking", "releasing"}}
Requested == {u \in Users : use[u] = "requested"}
Locked == {u \in Users : use[u] \in {"requested", "posted", "cooking"}}

\* Mutant: ReleaseBurner's lambda captures this but not self.
Referenced_NoSelf ==
  \/ owner
  \/ Locked # {}
  \/ \E i \in DOMAIN strand : strand[i].op = "use"

\* A shared_ptr to the cooker exists: its owner's, a lock's or a lambda's self.
Referenced ==
  \/ owner
  \/ Locked # {}
  \/ strand # <<>>

\* Where u's ungranted request is, and whose request was dispatched first.
InStrand(u) == {i \in 1..Len(strand) : strand[i] = [op |-> "use", user |-> u]}
Pending(u) == {i \in 1..Len(pending_handlers) : pending_handlers[i] = u}
AheadOf(u, w) ==
  \/ \E i \in Pending(u), j \in Pending(w) : i < j
  \/ Pending(u) # {} /\ InStrand(w) # {}
  \/ \E i \in InStrand(u), j \in InStrand(w) : i < j

-----------------------------------------------------------------------------
(***************************************************************************)
(* Safety.                                                                 *)
(***************************************************************************)

(***************************************************************************)
(* Every burner counted in burners_in_use_ is held by exactly one user,    *)
(* and every user with a burner is counted, at every interleaving of the   *)
(* callers, the strand and the posted handlers (++ in UseBurner, -- or the *)
(* hand-over in ReleaseBurner).                                            *)
(***************************************************************************)
BurnersAccounted == burners_in_use = Cardinality(Holders)

(***************************************************************************)
(* A request is never lost or forgotten: its handler is in the strand, or  *)
(* in pending_handlers_ while every burner is taken, until it is posted    *)
(* (the branches of UseBurner and pop_front in ReleaseBurner).             *)
(***************************************************************************)
NoLostRequest ==
  /\ \A u \in Requested : InStrand(u) # {} \/ Pending(u) # {}
  /\ pending_handlers # <<>> => burners_in_use = NumBurners

(***************************************************************************)
(* Every lambda in the strand and every handler in the deque belongs to a  *)
(* user that is in the matching phase, no user has two of them, and a user *)
(* that has unlocked still has its release in the strand.  This is what    *)
(* a lock that is reset on Unlock, and an ingredient that starts once,     *)
(* give the cooker.                                                        *)
(***************************************************************************)
OneLambdaPerUser ==
  /\ \A i \in 1..Len(strand) :
       use[strand[i].user] = IF strand[i].op = "use" THEN "requested" ELSE "releasing"
  /\ \A i, j \in 1..Len(strand) : strand[i].user = strand[j].user => i = j
  /\ \A i \in 1..Len(pending_handlers) : use[pending_handlers[i]] = "requested"
  /\ \A i, j \in 1..Len(pending_handlers) :
       pending_handlers[i] = pending_handlers[j] => i = j
  /\ \A i \in 1..Len(strand), j \in 1..Len(pending_handlers) :
       strand[i].user # pending_handlers[j]
  /\ \A u \in Users : use[u] = "releasing" =>
       \E i \in 1..Len(strand) : strand[i] = [op |-> "release", user |-> u]

(***************************************************************************)
(* The assert of ReleaseBurner's lambda, gascooker.h:73: when a release is *)
(* about to run there is a burner to release.  That of UseBurner's lambda, *)
(* gascooker.h:49, is part of TypeOK.                                      *)
(***************************************************************************)
AssertsHold ==
  (strand # <<>> /\ Head(strand).op = "release") => burners_in_use \in 1..NumBurners

(***************************************************************************)
(* ~GasCooker asserts burners_in_use_ == 0 (gascooker.h:35): once the last *)
(* shared_ptr is gone no burner is in use and nobody waits, because the    *)
(* locks and the lambdas' self keep the cooker alive until then.           *)
(***************************************************************************)
DestroyedIdle == ~Referenced => burners_in_use = 0 /\ pending_handlers = <<>>

(***************************************************************************)
(* Burners are granted in the order the requests were dispatched: a user   *)
(* ahead of another stays ahead of it, in the strand, from the strand into *)
(* the deque and in the deque, until it is the first of the two to get a   *)
(* burner (emplace_back and pop_front, and newcomers that may find a       *)
(* burner free).                                                           *)
(***************************************************************************)
NoOvertaking ==
  [][\A u, w \in Users : AheadOf(u, w) =>
       u \notin Requested' \/ (w \in Requested' /\ AheadOf(u, w)')]_vars

(***************************************************************************)
(* The cooker implements a pool of NumBurners burners.                     *)
(***************************************************************************)
Pool == INSTANCE BurnerPool WITH waiting <- Requested, holders <- Holders
ImplementsPool == Pool!PoolSpec

(***************************************************************************)
(* Liveness: whoever asked for a burner eventually cooks; no handler is    *)
(* stranded in pending_handlers_ (gascooker.h:59-66, 75-80).               *)
(***************************************************************************)
EveryRequestServed == \A u \in Users : use[u] = "requested" ~> use[u] = "cooking"
=============================================================================
