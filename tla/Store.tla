------------------------------- MODULE Store --------------------------------
(***************************************************************************)
(* cafeteria/solution/src/cafeteria.h (OrderHotDog) and ingredients.h      *)
(* (Store): how an order gets its number and its two ingredients.          *)
(*                                                                         *)
(* OrderHotDog may be called from any thread.  It takes a sausage and a    *)
(* bread from the store itself, drops both, and posts a lambda to the      *)
(* cafeteria's strand; the lambda increments order_id_ and takes the       *)
(* sausage and the bread the hot dog is made of.  So two kinds of code     *)
(* increment next_id_: the callers, on their own threads, and the lambda,  *)
(* one at a time.  Nothing synchronises the callers, and ++next_id_ on an  *)
(* int is a load and a store with a read of the result after them:         *)
(* make_shared forwards the int by reference, so the build may use the     *)
(* value it has just computed or read next_id_ again.                      *)
(*                                                                         *)
(* A job is one such piece of code for one order:                          *)
(*   <<"caller", o>>   OrderHotDog on the caller's thread                  *)
(*   <<"maker", o>>    the lambda on the cafeteria's strand                *)
(* and it runs its increments one after the other.                         *)
(***************************************************************************)
EXTENDS Naturals, Sequences, FiniteSets

CONSTANTS
  Orders,      \* the calls of OrderHotDog
  NumThreads,  \* threads that run jobs at the same time
  ArgOrder     \* the order in which the build evaluates make_shared's arguments

(***************************************************************************)
(* The three arguments of make_shared<Order> that have an effect.  C++     *)
(* leaves their order to the compiler.                                     *)
(***************************************************************************)
Arguments == {"order", "sausage", "bread"}

ASSUME StoreAssumption ==
  /\ IsFiniteSet(Orders)
  /\ NumThreads \in Nat \ {0}
  /\ ArgOrder \in [1..3 -> Arguments]
  /\ \A i, j \in 1..3 : ArgOrder[i] = ArgOrder[j] => i = j

Jobs == {"caller", "maker"} \X Orders

VARIABLES
  order_id,     \* order_id_
  next_id,      \* next_id_
  cafe_strand,  \* orders whose lambda is posted to strand_ and not yet started
  step,         \* what each job does next
  done,         \* how many of its increments each job has finished
  reg,          \* the value each job loaded last
  ids           \* what each Order was constructed with; 0 is not yet known

vars == <<order_id, next_id, cafe_strand, step, done, reg, ids>>

Steps == {"queued", "load", "store", "read", "finished"}

TypeOK ==
  /\ order_id \in 0..Cardinality(Orders)
  /\ next_id \in 0..4 * Cardinality(Orders)
  /\ cafe_strand \in Seq(Orders)
  /\ step \in [Jobs -> Steps]
  /\ done \in [Jobs -> 0..3]
  /\ reg \in [Jobs -> Nat]
  /\ ids \in [Orders -> [Arguments -> Nat]]

-----------------------------------------------------------------------------
Init ==
  /\ order_id = 0
  /\ next_id = 0
  /\ cafe_strand = <<>>
  /\ step = [c \in Jobs |-> "queued"]
  /\ done = [c \in Jobs |-> 0]
  /\ reg = [c \in Jobs |-> 0]
  /\ ids = [o \in Orders |-> [a \in Arguments |-> 0]]

\* What a job increments, in turn.
Program(c) == IF c[1] = "caller" THEN <<"sausage", "bread">> ELSE ArgOrder
Current(c) == Program(c)[done[c] + 1]
Counter(c) == IF Current(c) = "order" THEN order_id ELSE next_id

Running(c) == step[c] \in {"load", "store", "read"}
FreeThread == Cardinality({c \in Jobs : Running(c)}) < NumThreads
Goto(c, s) == step' = [step EXCEPT ![c] = s]

\* A thread calls OrderHotDog.
Call(o) ==
  /\ FreeThread
  /\ step[<<"caller", o>>] = "queued"
  /\ Goto(<<"caller", o>>, "load")
  /\ UNCHANGED <<order_id, next_id, cafe_strand, done, reg, ids>>

\* Mutant: the lambda is posted to io_, not to the cafeteria's strand.
StartMaking_NoStrand(o) ==
  /\ FreeThread
  /\ \E i \in DOMAIN cafe_strand : cafe_strand[i] = o
  /\ cafe_strand' = SelectSeq(cafe_strand, LAMBDA p : p # o)
  /\ Goto(<<"maker", o>>, "load")
  /\ UNCHANGED <<order_id, next_id, done, reg, ids>>

\* The strand starts the lambda that was posted first, one at a time.
StartMaking(o) ==
  /\ FreeThread
  /\ \A p \in Orders : ~Running(<<"maker", p>>)
  /\ cafe_strand # <<>>
  /\ o = Head(cafe_strand)
  /\ cafe_strand' = Tail(cafe_strand)
  /\ Goto(<<"maker", o>>, "load")
  /\ UNCHANGED <<order_id, next_id, done, reg, ids>>

Load(c) ==
  /\ step[c] = "load"
  /\ reg' = [reg EXCEPT ![c] = Counter(c)]
  /\ Goto(c, "store")
  /\ UNCHANGED <<order_id, next_id, cafe_strand, done, ids>>

\* The loaded value goes back to the counter, plus by.
StoreBack(c, by) ==
  /\ step[c] = "store"
  /\ order_id' = IF Current(c) = "order" THEN reg[c] + by ELSE order_id
  /\ next_id' = IF Current(c) = "order" THEN next_id ELSE reg[c] + by
  /\ Goto(c, "read")
  /\ UNCHANGED <<cafe_strand, done, reg, ids>>

\* Mutant: GetBread increments next_id_ twice.
Increment_Twice(c) == StoreBack(c, IF Current(c) = "bread" THEN 2 ELSE 1)

Increment(c) == StoreBack(c, 1)

\* Mutant: a bread gets the value before the increment, next_id_++.
Outcomes_PostIncrement(c) ==
  IF Current(c) = "bread" THEN {reg[c]} ELSE {reg[c] + 1, Counter(c)}

\* The value the constructor sees: the computed one or the counter's, read again.
Outcomes(c) == {reg[c] + 1, Counter(c)}

(***************************************************************************)
(* The incremented value is used.  The caller drops its ingredients; after *)
(* the second one it posts the lambda, and the job ends.                   *)
(***************************************************************************)
Read(c) ==
  LET o == c[2]
      last == done[c] + 1 = Len(Program(c))
  IN
  /\ step[c] = "read"
  /\ IF c[1] = "maker"
       THEN \E v \in Outcomes(c) : ids' = [ids EXCEPT ![o][Current(c)] = v]
       ELSE ids' = ids
  /\ done' = [done EXCEPT ![c] = @ + 1]
  /\ Goto(c, IF last THEN "finished" ELSE "load")
  /\ cafe_strand' = IF last /\ c[1] = "caller" THEN Append(cafe_strand, o) ELSE cafe_strand
  /\ UNCHANGED <<order_id, next_id, reg>>

Next ==
  \/ \E o \in Orders : Call(o) \/ StartMaking(o)
  \/ \E c \in Jobs : Load(c) \/ Increment(c) \/ Read(c)

Spec == Init /\ [][Next]_vars

-----------------------------------------------------------------------------
Made == {o \in Orders : step[<<"maker", o>>] = "finished"}
Ingredients == {"sausage", "bread"}

(***************************************************************************)
(* No two orders get the same number (VerifyHotDogs, main.cpp:112-116):    *)
(* ++order_id_ is a load and a store like any other, and only the          *)
(* cafeteria's strand keeps two lambdas from interleaving in it.           *)
(***************************************************************************)
HotDogIdsUnique ==
  \A o, p \in Made : ids[o]["order"] = ids[p]["order"] => o = p

(***************************************************************************)
(* Orders are numbered 1, 2, 3, ... without a gap: the lambdas that have   *)
(* finished, and they alone, account for order_id_.                        *)
(***************************************************************************)
OrdersNumberedDensely ==
  (\A o \in Orders : ~Running(<<"maker", o>>)) =>
    /\ order_id = Cardinality(Made)
    /\ {ids[o]["order"] : o \in Made} = 1..order_id

(***************************************************************************)
(* The store hands out every id once (ingredients.h:158): no two of the    *)
(* ingredients that hot dogs are made of have the same id.                 *)
(***************************************************************************)
IngredientIdsUnique ==
  \A o, p \in Made, a, b \in Ingredients :
    ids[o][a] = ids[p][b] => o = p /\ a = b

(***************************************************************************)
(* What main asserts of the finished hot dogs (VerifyHotDogs,              *)
(* main.cpp:119-129): no two have sausages with the same id, no two have   *)
(* breads with the same id.  Unsynchronised callers break it: one that has *)
(* loaded next_id_ stores it back late and the ids after it come twice.    *)
(***************************************************************************)
VerifiedIngredients ==
  \A o, p \in Made, a \in Ingredients : ids[o][a] = ids[p][a] => o = p
=============================================================================
