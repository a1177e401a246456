-------------------------- MODULE CafeteriaProofs ---------------------------
(***************************************************************************)
(* Proofs about Cafeteria, for any number of orders, threads and burners.  *)
(*                                                                         *)
(* What is proved of the cooker is used here as it stands: the cafeteria's *)
(* steps are steps of the cooker (StepUsesCooker), so the cooker's         *)
(* inductive invariant holds, and the rest of the invariant is about the   *)
(* order in which an order is placed, made, stopped twice and completed.   *)
(***************************************************************************)
EXTENDS Cafeteria, FiniteSetTheorems, SequenceTheorems, TLAPS

CookerProofs == INSTANCE GasCookerProofs WITH Users <- Ingredients

(***************************************************************************)
(* The cafeteria's strand makes orders one after another: the first of     *)
(* them may have its sausage started, none has its bread started, and      *)
(* every order that has left the strand has both.                          *)
(***************************************************************************)
Line ==
  /\ \A k \in 1..Len(cafe_strand) :
       /\ lambda[cafe_strand[k]] = "ordered"
       /\ ~Started(bread(cafe_strand[k]))
       /\ k # 1 => ~Started(sausage(cafe_strand[k]))
  /\ \A k, l \in 1..Len(cafe_strand) : cafe_strand[k] = cafe_strand[l] => k = l
  /\ \A o \in Orders : lambda[o] # "ordered" => ~Started(sausage(o)) /\ ~Started(bread(o))
  /\ \A o \in Orders : lambda[o] = "ordered" =>
       \/ \E k \in 1..Len(cafe_strand) : cafe_strand[k] = o
       \/ Started(sausage(o)) /\ Started(bread(o))

BothCooked(o) == IsCooked(sausage(o)) /\ IsCooked(bread(o))
Completing(o) == \E i \in completing : i[1] = o

(***************************************************************************)
(* The order's strand runs one timer's handler at a time, and the handler  *)
(* is called by the one that finds both ingredients cooked.                *)
(***************************************************************************)
Answered ==
  /\ \A i \in completing : IsCooked(i)
  /\ \A i, j \in completing : i[1] = j[1] => i = j
  /\ \A o \in Orders :
       /\ ~BothCooked(o) \/ Completing(o) => answers[o] = 0
       /\ BothCooked(o) /\ ~Completing(o) /\ program # "terminated" => answers[o] = 1
       /\ answers[o] <= 1

\* No timer is later than the machine lets it be.
Punctual == \A i \in Ingredients : timer[i] <= CookTime(i) + MaxLate

(***************************************************************************)
(* On a machine less than a tick late the age of what cooks is its timer's *)
(* and what is cooked may be eaten.                                        *)
(***************************************************************************)
Edible ==
  MaxLate <= 1 =>
    /\ \A i \in Ingredients : use[i] = "cooking" => age[i] = timer[i]
    /\ \A i \in Ingredients : IsCooked(i) => InRange(i)
    /\ program # "terminated"

\* The threads that are in a lambda, and those that have come to the latch.
Came == {o \in 1..NumWaiting : lambda[o] # "posted"}
Threads ==
  /\ Busy \in 0..Workers
  /\ latch + Cardinality(Came) = NumWaiting

Types ==
  /\ use \in [Ingredients -> Cooker!Phases]
  /\ lambda \in [Orders -> {"posted", "waiting", "ordered"}]
  /\ latch \in Nat
  /\ cafe_strand \in Seq(Orders)
  /\ age \in [Ingredients -> 0..AgeBound]
  /\ timer \in [Ingredients -> Nat]
  /\ completing \in SUBSET Ingredients
  /\ answers \in [Orders -> Nat]
  /\ program \in {"running", "returned", "terminated"}

IInv ==
  /\ CookerProofs!IInv
  /\ Types
  /\ Line
  /\ Answered
  /\ Punctual
  /\ Edible
  /\ Threads
  /\ CleanExit

-----------------------------------------------------------------------------
(***************************************************************************)
(* The ingredients of an order, and what is proved of the cooker.          *)
(***************************************************************************)
LEMMA IngredientFacts ==
  /\ \A o \in Orders : /\ sausage(o) \in Ingredients /\ bread(o) \in Ingredients
                       /\ sausage(o)[1] = o /\ bread(o)[1] = o
  /\ \A i \in Ingredients : i[1] \in Orders /\ (i = sausage(i[1]) \/ i = bread(i[1]))
  /\ \A o, p \in Orders : /\ sausage(o) # bread(p)
                          /\ sausage(o) = sausage(p) => o = p
                          /\ bread(o) = bread(p) => o = p
BY DEF Ingredients, sausage, bread

LEMMA CookerAssumed == CookerProofs!IsFiniteSet(Ingredients) /\ NumBurners \in Nat \ {0}
<1>1. IsFiniteSet(Orders)
  BY FS_Interval, CafeteriaAssumption DEF Orders
<1>2. IsFiniteSet({"sausage", "bread"})
  <2>1. IsFiniteSet({"sausage"} \cup {"bread"})
    BY FS_Singleton, FS_AddElement
  <2>2. {"sausage"} \cup {"bread"} = {"sausage", "bread"}
    OBVIOUS
  <2>3. QED
    BY <2>1, <2>2
<1>3. IsFiniteSet(Ingredients)
  BY <1>1, <1>2, FS_Product DEF Ingredients
<1>4. CookerProofs!IsFiniteSet(Ingredients)
  BY <1>3 DEF IsFiniteSet, CookerProofs!IsFiniteSet
<1>5. QED
  BY <1>4, CafeteriaAssumption

\* A step of the cafeteria is a step of the cooker or leaves it alone.
LEMMA StepUsesCooker ==
  ASSUME [Next]_vars
  PROVE  [Cooker!Next]_(Cooker!vars)
<1>1. ASSUME NEW o \in Orders, Arrive(o) \/ PassLatch(o)
      PROVE  UNCHANGED Cooker!vars
  BY <1>1 DEF Arrive, PassLatch, cookerVars, Cooker!vars
<1>2. ASSUME NEW o \in Orders, StartFry(o) \/ StartBake(o)
      PROVE  \E i \in Ingredients : Cooker!UseBurner(i)
  BY <1>2, IngredientFacts DEF StartFry, StartBake
<1>3. CASE CookerStep
  BY <1>3 DEF CookerStep, Cooker!Next
<1>4. ASSUME NEW i \in Ingredients, Handler(i) \/ Stop(i) \/ Complete(i)
      PROVE  Cooker!RunHandler(i) \/ Cooker!ReleaseBurner(i) \/ UNCHANGED Cooker!vars
  BY <1>4 DEF Handler, Stop, Complete, cookerVars, Cooker!vars
<1>5. CASE Tick \/ Over \/ UNCHANGED vars
  BY <1>5 DEF Tick, Over, vars, cookerVars, Cooker!vars
<1>6. CASE Return
  BY <1>6 DEF Return, Cooker!Next
<1>7. QED
  BY <1>1, <1>2, <1>3, <1>4, <1>5, <1>6 DEF Next, Cooker!Next

\* The cooker here and the cooker of the proofs have the same steps.
LEMMA StepOfCooker ==
  ASSUME [Next]_vars
  PROVE  [CookerProofs!Next]_(CookerProofs!vars)
<1>1. [Cooker!Next]_(Cooker!vars)
  BY StepUsesCooker
<1>2. Cooker!vars = CookerProofs!vars /\ Cooker!vars' = CookerProofs!vars'
  BY DEF Cooker!vars, CookerProofs!vars
<1>3. Cooker!Next => CookerProofs!Next
  <2>1. \A u \in Ingredients :
          /\ Cooker!UseBurner(u) => CookerProofs!UseBurner(u)
          /\ Cooker!RunHandler(u) => CookerProofs!RunHandler(u)
          /\ Cooker!ReleaseBurner(u) => CookerProofs!ReleaseBurner(u)
    BY DEF Cooker!UseBurner, CookerProofs!UseBurner, Cooker!RunHandler, CookerProofs!RunHandler,
           Cooker!ReleaseBurner, CookerProofs!ReleaseBurner, Cooker!Become, CookerProofs!Become
  <2>2. \A u \in Ingredients :
          /\ Cooker!Occupy(u) => CookerProofs!Occupy(u)
          /\ Cooker!Enqueue(u) => CookerProofs!Enqueue(u)
          /\ Cooker!HandOver(u) => CookerProofs!HandOver(u)
          /\ Cooker!FreeBurner(u) => CookerProofs!FreeBurner(u)
    BY DEF Cooker!Occupy, CookerProofs!Occupy, Cooker!Enqueue, CookerProofs!Enqueue,
           Cooker!HandOver, CookerProofs!HandOver, Cooker!FreeBurner, CookerProofs!FreeBurner,
           Cooker!Become, CookerProofs!Become, Cooker!Runs, CookerProofs!Runs
  <2>3. Cooker!DropOwner => CookerProofs!DropOwner
    BY DEF Cooker!DropOwner, CookerProofs!DropOwner
  <2>4. QED
    BY <2>1, <2>2, <2>3
    DEF Cooker!Next, CookerProofs!Next, Cooker!StrandStep, CookerProofs!StrandStep
<1>4. [CookerProofs!Next]_(CookerProofs!vars)
  BY <1>1, <1>2, <1>3
<1>5. QED
  BY <1>4

\* The cooker's invariant is kept: nothing of its proof is repeated here.
LEMMA CookerKeeps ==
  ASSUME CookerProofs!IInv, [Next]_vars
  PROVE  CookerProofs!IInv'
BY StepOfCooker, CookerAssumed, CookerProofs!NextInv

LEMMA CookerInit ==
  ASSUME Cooker!Init
  PROVE  CookerProofs!IInv
<1>1. CookerProofs!Init
  BY DEF Cooker!Init, CookerProofs!Init
<1>2. QED
  BY <1>1, CookerAssumed, CookerProofs!InitInv

\* What the invariant of the cooker says of the phases.
LEMMA CookerFacts ==
  ASSUME CookerProofs!IInv
  PROVE  /\ strand \in Seq(Cooker!Lambdas) /\ pending_handlers \in Seq(Ingredients)
         /\ burners_in_use \in 0..NumBurners /\ use \in [Ingredients -> Cooker!Phases]
         /\ owner \in BOOLEAN
         /\ \A i \in 1..Len(strand) :
              use[strand[i].user] = IF strand[i].op = "use" THEN "requested" ELSE "releasing"
         /\ \A i \in 1..Len(pending_handlers) : use[pending_handlers[i]] = "requested"
BY DEF CookerProofs!IInv, CookerProofs!TypeOK, CookerProofs!OneLambdaPerUser,
       CookerProofs!Lambdas, CookerProofs!Phases, Cooker!Lambdas, Cooker!Phases

\* With an empty strand and nobody cooking the cooker is idle.
LEMMA CookerIdle ==
  ASSUME CookerProofs!IInv, strand = <<>>,
         \A i \in Ingredients : use[i] \notin {"posted", "cooking"}
  PROVE  /\ burners_in_use = 0 /\ pending_handlers = <<>>
         /\ \A i \in Ingredients : use[i] \in {"idle", "done"}
<1>1. use \in [Ingredients -> CookerProofs!Phases] /\ Len(strand) = 0
  BY EmptySeq DEF CookerProofs!IInv, CookerProofs!TypeOK
<1>2. \A i \in Ingredients : use[i] # "releasing"
  BY <1>1 DEF CookerProofs!IInv, CookerProofs!OneLambdaPerUser
<1>3. CookerProofs!Holders = {}
  BY <1>2 DEF CookerProofs!Holders
<1>4. burners_in_use = 0
  <2>1. Cardinality({}) = 0
    BY FS_EmptySet
  <2>2. CookerProofs!Cardinality({}) = Cardinality({})
    BY DEF CookerProofs!Cardinality, Cardinality
  <2>3. QED
    BY <1>3, <2>1, <2>2 DEF CookerProofs!IInv, CookerProofs!BurnersAccounted
<1>5. pending_handlers = <<>>
  BY <1>4, CafeteriaAssumption DEF CookerProofs!IInv, CookerProofs!NoLostRequest
<1>6. \A i \in Ingredients : use[i] # "requested"
  <2>1. SUFFICES ASSUME NEW i \in Ingredients, use[i] = "requested" PROVE FALSE
    OBVIOUS
  <2>2. CookerProofs!InStrand(i) # {} \/ CookerProofs!Pending(i) # {}
    BY <2>1 DEF CookerProofs!IInv, CookerProofs!NoLostRequest, CookerProofs!Requested
  <2>3. QED
    BY <1>1, <1>5, <2>2, EmptySeq DEF CookerProofs!InStrand, CookerProofs!Pending
<1>7. QED
  BY <1>1, <1>2, <1>4, <1>5, <1>6 DEF CookerProofs!Phases

-----------------------------------------------------------------------------
(***************************************************************************)
(* Which ingredients a step starts, puts on a burner and stops.            *)
(***************************************************************************)
SameStarted == \A i \in Ingredients : Started(i)' <=> Started(i)
SameCooked == \A i \in Ingredients : IsCooked(i)' <=> IsCooked(i)
SameCooking == \A i \in Ingredients : use'[i] = "cooking" <=> use[i] = "cooking"

LEMMA UseKept ==
  ASSUME UNCHANGED use
  PROVE  SameStarted /\ SameCooked /\ SameCooking
BY DEF SameStarted, SameCooked, SameCooking, Started, IsCooked

LEMMA StartUse ==
  ASSUME Types, NEW j \in Ingredients, Cooker!UseBurner(j)
  PROVE  /\ SameCooked /\ SameCooking /\ ~Started(j) /\ Started(j)'
         /\ \A i \in Ingredients \ {j} : Started(i)' <=> Started(i)
<1>1. use[j] = "idle" /\ use' = [use EXCEPT ![j] = "requested"]
  BY DEF Cooker!UseBurner, Cooker!Become
<1>2. use'[j] = "requested" /\ \A i \in Ingredients \ {j} : use'[i] = use[i]
  BY <1>1 DEF Types
<1>3. QED
  BY <1>1, <1>2 DEF SameCooked, SameCooking, Started, IsCooked

LEMMA StrandPhases ==
  ASSUME CookerProofs!IInv, Cooker!StrandStep, NEW i \in Ingredients
  PROVE  \/ use'[i] = use[i]
         \/ use[i] = "requested" /\ use'[i] = "posted"
         \/ use[i] = "releasing" /\ use'[i] = "done"
<1>1. PICK u \in Ingredients :
        Cooker!Occupy(u) \/ Cooker!Enqueue(u) \/ Cooker!HandOver(u) \/ Cooker!FreeBurner(u)
  BY DEF Cooker!StrandStep
<1>2. PICK op \in {"use", "release"} :
        /\ strand # <<>> /\ Head(strand) = [op |-> op, user |-> u]
        /\ op = "use" => Cooker!Occupy(u) \/ Cooker!Enqueue(u)
        /\ op = "release" => Cooker!HandOver(u) \/ Cooker!FreeBurner(u)
  BY <1>1 DEF Cooker!Occupy, Cooker!Enqueue, Cooker!HandOver, Cooker!FreeBurner, Cooker!Runs
<1>3. use \in [Ingredients -> Cooker!Phases]
  BY CookerFacts
<1>4. use[u] = IF op = "use" THEN "requested" ELSE "releasing"
  <2>1. 1 \in 1..Len(strand) /\ Head(strand) = strand[1]
    BY <1>2, CookerFacts, EmptySeq, LenProperties
  <2>2. strand[1].op = op /\ strand[1].user = u
    BY <1>2, <2>1
  <2>3. QED
    BY <2>1, <2>2, CookerFacts
<1>5. CASE Cooker!Occupy(u)
  <2>1. use[u] = "requested"
    BY <1>2, <1>4, <1>5 DEF Cooker!Occupy, Cooker!Runs
  <2>2. use' = [use EXCEPT ![u] = "posted"]
    BY <1>5 DEF Cooker!Occupy, Cooker!Become
  <2>3. QED
    BY <1>3, <2>1, <2>2
<1>6. CASE Cooker!Enqueue(u)
  BY <1>6 DEF Cooker!Enqueue
<1>7. CASE Cooker!HandOver(u)
  <2>1. use[u] = "releasing"
    BY <1>2, <1>4, <1>7 DEF Cooker!HandOver, Cooker!Runs
  <2>2. use' = [use EXCEPT ![u] = "done", ![Head(pending_handlers)] = "posted"]
        /\ pending_handlers # <<>>
    BY <1>7 DEF Cooker!HandOver
  <2>3. 1 \in 1..Len(pending_handlers) /\ Head(pending_handlers) = pending_handlers[1]
    BY <2>2, CookerFacts, EmptySeq, LenProperties
  <2>4. use[Head(pending_handlers)] = "requested"
    BY <2>3, CookerFacts
  <2>5. QED
    BY <1>3, <2>1, <2>2, <2>4
<1>8. CASE Cooker!FreeBurner(u)
  <2>1. use[u] = "releasing"
    BY <1>2, <1>4, <1>8 DEF Cooker!FreeBurner, Cooker!Runs
  <2>2. use' = [use EXCEPT ![u] = "done"]
    BY <1>8 DEF Cooker!FreeBurner, Cooker!Become
  <2>3. QED
    BY <1>3, <2>1, <2>2
<1>9. QED
  BY <1>1, <1>5, <1>6, <1>7, <1>8

LEMMA StrandUse ==
  ASSUME CookerProofs!IInv, Cooker!StrandStep
  PROVE  SameStarted /\ SameCooked /\ SameCooking
BY StrandPhases DEF SameStarted, SameCooked, SameCooking, Started, IsCooked

LEMMA HandlerUse ==
  ASSUME Types, NEW j \in Ingredients, Cooker!RunHandler(j)
  PROVE  /\ SameStarted /\ SameCooked /\ use'[j] = "cooking" /\ use[j] = "posted"
         /\ \A i \in Ingredients \ {j} : use'[i] = use[i]
<1>1. use[j] = "posted" /\ use' = [use EXCEPT ![j] = "cooking"]
  BY DEF Cooker!RunHandler, Cooker!Become
<1>2. use'[j] = "cooking" /\ \A i \in Ingredients \ {j} : use'[i] = use[i]
  BY <1>1 DEF Types
<1>3. QED
  BY <1>1, <1>2 DEF SameStarted, SameCooked, Started, IsCooked

LEMMA StopUse ==
  ASSUME Types, NEW j \in Ingredients, Cooker!ReleaseBurner(j)
  PROVE  /\ SameStarted /\ ~IsCooked(j) /\ IsCooked(j)'
         /\ use[j] = "cooking" /\ use'[j] = "releasing"
         /\ \A i \in Ingredients \ {j} : use'[i] = use[i] /\ (IsCooked(i)' <=> IsCooked(i))
<1>1. use[j] = "cooking" /\ use' = [use EXCEPT ![j] = "releasing"]
  BY DEF Cooker!ReleaseBurner, Cooker!Become
<1>2. use'[j] = "releasing" /\ \A i \in Ingredients \ {j} : use'[i] = use[i]
  BY <1>1 DEF Types
<1>3. QED
  BY <1>1, <1>2 DEF SameStarted, Started, IsCooked

-----------------------------------------------------------------------------
(***************************************************************************)
(* The parts of the invariant that a step does not disturb.                *)
(***************************************************************************)
LEMMA StrandOrders ==
  ASSUME Types
  PROVE  Len(cafe_strand) \in Nat /\ \A k \in 1..Len(cafe_strand) : cafe_strand[k] \in Orders
BY ElementOfSeq, LenProperties DEF Types

LEMMA LineKept ==
  ASSUME Types, Line, SameStarted, UNCHANGED <<lambda, cafe_strand>>
  PROVE  Line'
<1>1. \A o \in Orders : /\ Started(sausage(o))' <=> Started(sausage(o))
                        /\ Started(bread(o))' <=> Started(bread(o))
  BY IngredientFacts DEF SameStarted
<1>2. QED
  BY <1>1, StrandOrders DEF Line

LEMMA AnsweredKept ==
  ASSUME Types, Answered, SameCooked, UNCHANGED <<completing, answers>>,
         program # "terminated"
  PROVE  Answered'
<1>1. \A o \in Orders : BothCooked(o)' <=> BothCooked(o)
  BY IngredientFacts DEF SameCooked, BothCooked
<1>2. \A o \in Orders : Completing(o)' <=> Completing(o)
  BY DEF Completing
<1>3. \A i \in completing : i \in Ingredients
  BY DEF Types
<1>4. QED
  BY <1>1, <1>2, <1>3 DEF Answered, SameCooked

LEMMA PunctualKept ==
  ASSUME Punctual, timer' = timer
  PROVE  Punctual'
BY DEF Punctual

LEMMA EdibleKept ==
  ASSUME Edible, SameCooked, SameCooking, UNCHANGED <<age, timer>>,
         program' # "terminated"
  PROVE  Edible'
BY DEF Edible, SameCooked, SameCooking, InRange

LEMMA UseTyped ==
  ASSUME CookerProofs!IInv'
  PROVE  use' \in [Ingredients -> Cooker!Phases]
BY DEF CookerProofs!IInv, CookerProofs!TypeOK, CookerProofs!Phases, Cooker!Phases

LEMMA Numbers ==
  /\ NumOrders \in Nat /\ Workers \in Nat \ {0}
  /\ NumWaiting \in Nat /\ NumWaiting <= NumOrders
  /\ \A i \in Ingredients : CookTime(i) \in 2..3 /\ MaxTime(i) = CookTime(i) + 1
BY CafeteriaAssumption DEF Workers, NumWaiting, CookTime, MaxTime

\* The sets the threads are counted with are finite.
LEMMA Counted ==
  ASSUME Types
  PROVE  /\ IsFiniteSet(Waiting) /\ Cardinality(Waiting) \in Nat
         /\ IsFiniteSet(completing) /\ Cardinality(completing) \in Nat
         /\ IsFiniteSet(Came) /\ Cardinality(Came) \in Nat /\ Cardinality(Came) <= NumWaiting
<1>1. IsFiniteSet(Orders)
  BY FS_Interval, CafeteriaAssumption DEF Orders
<1>2. IsFiniteSet(Ingredients)
  BY CookerAssumed DEF IsFiniteSet, CookerProofs!IsFiniteSet
<1>3. IsFiniteSet(1..NumWaiting) /\ Cardinality(1..NumWaiting) = NumWaiting
  BY FS_Interval, Numbers
<1>4. Waiting \subseteq Orders /\ Came \subseteq 1..NumWaiting /\ completing \subseteq Ingredients
  BY DEF Waiting, Came, Types
<1>5. IsFiniteSet(Waiting) /\ IsFiniteSet(completing)
  BY <1>1, <1>2, <1>4, FS_Subset
<1>6. IsFiniteSet(Came) /\ Cardinality(Came) <= NumWaiting
  <2>1. Came \subseteq 1..NumWaiting
    BY <1>4
  <2>2. IsFiniteSet(Came) /\ Cardinality(Came) <= Cardinality(1..NumWaiting)
    BY <2>1, <1>3, FS_Subset, ZenonT(30)
  <2>3. QED
    BY <2>2, <1>3
<1>7. QED
  BY <1>5, <1>6, FS_CardinalityType

LEMMA MakingKept ==
  ASSUME Types, SameStarted, UNCHANGED cafe_strand
  PROVE  Making' <=> Making
<1>1. CASE cafe_strand = <<>>
  BY <1>1 DEF Making
<1>2. CASE cafe_strand # <<>>
  <2>1. Head(cafe_strand) \in Orders
    BY <1>2, HeadTailProperties DEF Types
  <2>2. sausage(Head(cafe_strand)) \in Ingredients
    BY <2>1, IngredientFacts
  <2>3. Started(sausage(Head(cafe_strand)))' <=> Started(sausage(Head(cafe_strand)))
    BY <2>2 DEF SameStarted, Started, sausage
  <2>4. QED
    BY <2>3 DEF Making
<1>3. QED
  BY <1>1, <1>2

LEMMA ThreadsKept ==
  ASSUME Types, Threads, SameStarted, UNCHANGED <<lambda, latch, cafe_strand, completing>>
  PROVE  Threads'
<1>1. Waiting' = Waiting /\ Came' = Came
  BY DEF Waiting, Came
<1>2. Making' <=> Making
  BY MakingKept
<1>3. Busy' = Busy
  BY <1>1, <1>2 DEF Busy
<1>4. QED
  BY <1>1, <1>3 DEF Threads

\* The cooker keeps the phases in their range.
UseTypes == use' \in [Ingredients -> Cooker!Phases]

\* While the program has not returned there is nothing to say of its exit.
LEMMA NotReturned ==
  ASSUME program' # "returned"
  PROVE  CleanExit'
BY DEF CleanExit

-----------------------------------------------------------------------------
(***************************************************************************)
(* Orders reach the cafeteria's strand.                                    *)
(***************************************************************************)
LEMMA OrderPlaced ==
  ASSUME Types, Line, UNCHANGED use,
         NEW o \in Orders, lambda[o] # "ordered", OrderHotDog(o)
  PROVE  /\ lambda' \in [Orders -> {"posted", "waiting", "ordered"}]
         /\ cafe_strand' \in Seq(Orders)
         /\ Line'
         /\ Making' <=> Making
<1>1. /\ lambda' = [lambda EXCEPT ![o] = "ordered"]
      /\ cafe_strand' = Append(cafe_strand, o)
  BY DEF OrderHotDog
<1>2. /\ lambda' \in [Orders -> {"posted", "waiting", "ordered"}]
      /\ lambda'[o] = "ordered"
      /\ \A p \in Orders \ {o} : lambda'[p] = lambda[p]
  BY <1>1 DEF Types
<1>3. /\ cafe_strand' \in Seq(Orders)
      /\ Len(cafe_strand') = Len(cafe_strand) + 1
      /\ cafe_strand'[Len(cafe_strand) + 1] = o
      /\ \A k \in 1..Len(cafe_strand) : cafe_strand'[k] = cafe_strand[k]
  BY <1>1, AppendProperties DEF Types
<1>4. Len(cafe_strand) \in Nat /\ \A k \in 1..Len(cafe_strand) : cafe_strand[k] \in Orders
  BY StrandOrders
<1>5. \A k \in 1..Len(cafe_strand') : k \in 1..Len(cafe_strand) \/ k = Len(cafe_strand) + 1
  BY <1>3, <1>4
<1>6. ~Started(sausage(o)) /\ ~Started(bread(o))
  BY DEF Line
<1>7. \A k \in 1..Len(cafe_strand) : cafe_strand[k] # o
  BY DEF Line
<1>8. \A i \in Ingredients : Started(i)' <=> Started(i)
  BY UseKept DEF SameStarted
<1>9. \A p \in Orders : /\ Started(sausage(p))' <=> Started(sausage(p))
                        /\ Started(bread(p))' <=> Started(bread(p))
  BY <1>8, IngredientFacts
<1>10. ASSUME NEW k \in 1..Len(cafe_strand')
       PROVE  /\ lambda'[cafe_strand'[k]] = "ordered"
              /\ use[bread(cafe_strand'[k])] = "idle"
              /\ k # 1 => use[sausage(cafe_strand'[k])] = "idle"
  <2>1. CASE k \in 1..Len(cafe_strand)
    <3>1. cafe_strand'[k] = cafe_strand[k] /\ cafe_strand[k] \in Orders \ {o}
      BY <2>1, <1>3, <1>4, <1>7
    <3>2. /\ lambda[cafe_strand[k]] = "ordered"
          /\ ~Started(bread(cafe_strand[k]))
          /\ k # 1 => ~Started(sausage(cafe_strand[k]))
      BY <2>1 DEF Line
    <3>3. QED
      BY <3>1, <3>2, <1>2 DEF Started
  <2>2. CASE k = Len(cafe_strand) + 1
    BY <2>2, <1>2, <1>3, <1>6 DEF Started
  <2>3. QED
    BY <2>1, <2>2, <1>5
<1>11. ASSUME NEW k \in 1..Len(cafe_strand'), NEW l \in 1..Len(cafe_strand'),
              cafe_strand'[k] = cafe_strand'[l]
       PROVE  k = l
  <2>1. CASE k \in 1..Len(cafe_strand) /\ l \in 1..Len(cafe_strand)
    BY <2>1, <1>3, <1>11 DEF Line
  <2>2. CASE k = Len(cafe_strand) + 1 \/ l = Len(cafe_strand) + 1
    BY <2>2, <1>3, <1>5, <1>7, <1>11
  <2>3. QED
    BY <2>1, <2>2, <1>5
<1>12. ASSUME NEW p \in Orders, lambda'[p] # "ordered"
       PROVE  ~Started(sausage(p))' /\ ~Started(bread(p))'
  BY <1>2, <1>9, <1>12 DEF Line
<1>13. ASSUME NEW p \in Orders, lambda'[p] = "ordered"
       PROVE  \/ \E k \in 1..Len(cafe_strand') : cafe_strand'[k] = p
              \/ Started(sausage(p))' /\ Started(bread(p))'
  <2>1. CASE p = o
    <3>1. Len(cafe_strand) + 1 \in 1..Len(cafe_strand')
      BY <1>3, <1>4
    <3>2. QED
      BY <2>1, <3>1, <1>3
  <2>2. CASE p # o
    <3>1. lambda[p] = "ordered"
      BY <2>2, <1>2, <1>13
    <3>2. CASE \E k \in 1..Len(cafe_strand) : cafe_strand[k] = p
      <4>1. PICK k \in 1..Len(cafe_strand) : cafe_strand[k] = p
        BY <3>2
      <4>2. k \in 1..Len(cafe_strand') /\ cafe_strand'[k] = p
        BY <4>1, <1>3, <1>4
      <4>3. QED
        BY <4>2
    <3>3. CASE Started(sausage(p)) /\ Started(bread(p))
      BY <3>3, <1>9
    <3>4. QED
      BY <3>1, <3>2, <3>3 DEF Line
  <2>3. QED
    BY <2>1, <2>2
<1>14. Line'
  BY <1>10, <1>11, <1>12, <1>13 DEF Line, Started, sausage, bread
<1>15. Making' <=> Making
  <2>1. CASE cafe_strand = <<>>
    <3>1. Len(cafe_strand) = 0
      BY <2>1
    <3>2. Head(cafe_strand') = o
      BY <3>1, <1>3, HeadTailProperties, EmptySeq
    <3>3. QED
      BY <2>1, <3>2, <1>6, <1>9 DEF Making
  <2>2. CASE cafe_strand # <<>>
    <3>1. Len(cafe_strand) >= 1
      BY <2>2, EmptySeq, <1>4 DEF Types
    <3>2. Head(cafe_strand') = Head(cafe_strand) /\ Head(cafe_strand) \in Orders
          /\ cafe_strand' # <<>>
      <4>1. Head(cafe_strand) = cafe_strand[1] /\ 1 \in 1..Len(cafe_strand)
        BY <3>1, <1>4
      <4>2. Head(cafe_strand') = cafe_strand'[1] /\ Len(cafe_strand') # 0
        BY <3>1, <1>3, <1>4
      <4>3. QED
        BY <4>1, <4>2, <1>3, <1>4
    <3>3. QED
      BY <2>2, <3>2, <1>9 DEF Making
  <2>3. QED
    BY <2>1, <2>2
<1>16. QED
  BY <1>2, <1>3, <1>14, <1>15

\* What a step of the cafeteria must give besides the cooker's part.
Rest == Types /\ Line /\ Answered /\ Punctual /\ Edible /\ Threads /\ CleanExit

LEMMA ArriveInv ==
  ASSUME IInv, UseTypes, NEW o \in Orders, Arrive(o)
  PROVE  Rest'
<1>1. /\ program = "running" /\ Busy < Workers /\ lambda[o] = "posted"
      /\ UNCHANGED <<use, age, timer, completing, answers, program>>
  BY DEF Arrive, FreeThread, cookerVars
<1>2. SameStarted /\ SameCooked /\ SameCooking
  BY <1>1, UseKept
<1>3. Answered' /\ Punctual' /\ Edible' /\ CleanExit'
  BY <1>1, <1>2, AnsweredKept, PunctualKept, EdibleKept, NotReturned DEF IInv
<1>4. Busy \in Nat
  BY Numbers DEF IInv, Threads
<1>5. CASE o <= NumWaiting
  <2>1. /\ latch' = latch - 1 /\ lambda' = [lambda EXCEPT ![o] = "waiting"]
        /\ cafe_strand' = cafe_strand
    BY <1>5 DEF Arrive
  <2>2. /\ lambda' \in [Orders -> {"posted", "waiting", "ordered"}]
        /\ lambda'[o] = "waiting"
        /\ \A p \in Orders \ {o} : lambda'[p] = lambda[p]
    BY <2>1 DEF IInv, Types
  <2>3. o \in 1..NumWaiting /\ 1..NumWaiting \subseteq Orders
    BY <1>5, Numbers DEF Orders
  <2>4. Came' = Came \cup {o} /\ o \notin Came
    <3>1. \A p \in 1..NumWaiting : p \in Orders
      BY <2>3
    <3>2. QED
      BY <2>2, <2>3, <3>1, <1>1 DEF Came
  <2>5. Waiting' = Waiting \cup {o} /\ o \notin Waiting
    BY <2>2, <1>1 DEF Waiting
  <2>6. Cardinality(Came') = Cardinality(Came) + 1
        /\ Cardinality(Waiting') = Cardinality(Waiting) + 1
    BY <2>4, <2>5, Counted, FS_AddElement DEF IInv
  <2>7. Cardinality(Came') <= NumWaiting
    <3>1. Came' \subseteq 1..NumWaiting
      BY <2>3, <2>4 DEF Came
    <3>2. IsFiniteSet(1..NumWaiting) /\ Cardinality(1..NumWaiting) = NumWaiting
      BY FS_Interval, Numbers
    <3>3. QED
      BY <3>1, <3>2, FS_Subset
  <2>8. latch' \in Nat /\ latch' + Cardinality(Came') = NumWaiting
    BY <2>1, <2>6, <2>7, Counted, Numbers DEF IInv, Types, Threads
  <2>9. Making' <=> Making
    BY <2>1, <1>2, MakingKept DEF IInv
  <2>10. Busy' = Busy + 1
    BY <2>6, <2>9, <1>1, Counted DEF IInv, Busy
  <2>11. Threads'
    BY <2>8, <2>10, <1>1, <1>4, Numbers DEF Threads
  <2>12. Line'
    <3>1. \A p \in Orders : lambda'[p] = "ordered" <=> lambda[p] = "ordered"
      BY <2>2, <1>1
    <3>2. \A p \in Orders : /\ Started(sausage(p))' <=> Started(sausage(p))
                            /\ Started(bread(p))' <=> Started(bread(p))
      BY <1>2, IngredientFacts DEF SameStarted
    <3>3. QED
      BY <3>1, <3>2, <2>1, StrandOrders DEF IInv, Line
  <2>13. Types'
    BY <2>1, <2>2, <2>8, <1>1, UseTypes DEF IInv, Types, UseTypes
  <2>14. QED
    BY <2>11, <2>12, <2>13, <1>3 DEF Rest
<1>6. CASE ~(o <= NumWaiting)
  <2>1. OrderHotDog(o) /\ latch' = latch
    BY <1>6 DEF Arrive
  <2>2. /\ lambda' \in [Orders -> {"posted", "waiting", "ordered"}]
        /\ cafe_strand' \in Seq(Orders) /\ Line' /\ (Making' <=> Making)
    BY <2>1, <1>1, OrderPlaced DEF IInv
  <2>3. \A p \in Orders \ {o} : lambda'[p] = lambda[p]
    BY <2>1 DEF OrderHotDog, IInv, Types
  <2>4. lambda'[o] = "ordered"
    BY <2>1 DEF OrderHotDog, IInv, Types
  <2>5. Came' = Came
    <3>1. \A p \in 1..NumWaiting : p \in Orders \ {o}
      BY <1>6, Numbers DEF Orders
    <3>2. QED
      BY <2>3, <3>1 DEF Came
  <2>6. Waiting' = Waiting
    BY <2>3, <2>4, <1>1 DEF Waiting
  <2>7. Busy' = Busy
    BY <2>2, <2>6, <1>1 DEF Busy
  <2>8. Threads'
    BY <2>1, <2>5, <2>7 DEF IInv, Threads
  <2>9. Types'
    BY <2>1, <2>2, <1>1, UseTypes DEF IInv, Types, UseTypes
  <2>10. QED
    BY <2>2, <2>8, <2>9, <1>3 DEF Rest
<1>7. QED
  BY <1>5, <1>6

LEMMA PassLatchInv ==
  ASSUME IInv, UseTypes, NEW o \in Orders, PassLatch(o)
  PROVE  Rest'
<1>1. /\ program = "running" /\ lambda[o] = "waiting" /\ OrderHotDog(o)
      /\ UNCHANGED <<use, latch, age, timer, completing, answers, program>>
  BY DEF PassLatch, cookerVars
<1>2. SameStarted /\ SameCooked /\ SameCooking
  BY <1>1, UseKept
<1>3. Answered' /\ Punctual' /\ Edible' /\ CleanExit'
  BY <1>1, <1>2, AnsweredKept, PunctualKept, EdibleKept, NotReturned DEF IInv
<1>4. /\ lambda' \in [Orders -> {"posted", "waiting", "ordered"}]
      /\ cafe_strand' \in Seq(Orders) /\ Line' /\ (Making' <=> Making)
  BY <1>1, OrderPlaced DEF IInv
<1>5. lambda'[o] = "ordered" /\ \A p \in Orders \ {o} : lambda'[p] = lambda[p]
  BY <1>1 DEF OrderHotDog, IInv, Types
<1>6. Came' = Came
  <2>1. \A p \in 1..NumWaiting : p \in Orders
    BY Numbers DEF Orders
  <2>2. QED
    BY <1>1, <1>5, <2>1 DEF Came
<1>7. Waiting' = Waiting \ {o} /\ o \in Waiting
  BY <1>1, <1>5 DEF Waiting
<1>8. Cardinality(Waiting') = Cardinality(Waiting) - 1
  BY <1>7, Counted, FS_RemoveElement DEF IInv
<1>9. Cardinality(Waiting') \in Nat
  BY <1>7, Counted, FS_RemoveElement, FS_CardinalityType DEF IInv
<1>10. Busy' = Busy - 1 /\ Busy' \in Nat
  BY <1>1, <1>4, <1>8, <1>9, Counted DEF IInv, Busy
<1>11. Threads'
  BY <1>1, <1>6, <1>10, Numbers DEF IInv, Threads
<1>12. Types'
  BY <1>1, <1>4, UseTypes DEF IInv, Types, UseTypes
<1>13. QED
  BY <1>3, <1>4, <1>11, <1>12 DEF Rest

-----------------------------------------------------------------------------
(***************************************************************************)
(* The order at the head of the cafeteria's strand is made.                *)
(***************************************************************************)
LEMMA FirstOrder ==
  ASSUME Types, Line, cafe_strand # <<>>
  PROVE  /\ 1 \in 1..Len(cafe_strand) /\ Head(cafe_strand) = cafe_strand[1]
         /\ Head(cafe_strand) \in Orders
         /\ lambda[Head(cafe_strand)] = "ordered"
         /\ ~Started(bread(Head(cafe_strand)))
         /\ \A k \in 1..Len(cafe_strand) : k # 1 => cafe_strand[k] # Head(cafe_strand)
<1>1. 1 \in 1..Len(cafe_strand) /\ Head(cafe_strand) = cafe_strand[1]
  BY EmptySeq, LenProperties DEF Types
<1>2. QED
  BY <1>1, StrandOrders DEF Line

LEMMA StartFryInv ==
  ASSUME IInv, UseTypes, NEW o \in Orders, StartFry(o)
  PROVE  Rest'
<1>1. /\ program = "running" /\ Busy < Workers
      /\ cafe_strand # <<>> /\ o = Head(cafe_strand) /\ Cooker!UseBurner(sausage(o))
      /\ UNCHANGED <<lambda, latch, cafe_strand, age, timer, completing, answers, program>>
  BY DEF StartFry, FreeThread
<1>2. sausage(o) \in Ingredients
  BY IngredientFacts
<1>3. /\ SameCooked /\ SameCooking /\ ~Started(sausage(o)) /\ use'[sausage(o)] # "idle"
      /\ \A i \in Ingredients \ {sausage(o)} : use'[i] # "idle" <=> use[i] # "idle"
  BY <1>1, <1>2, StartUse DEF IInv, Started
<1>4. Answered' /\ Punctual' /\ Edible' /\ CleanExit'
  BY <1>1, <1>3, AnsweredKept, PunctualKept, EdibleKept, NotReturned DEF IInv
<1>5. \A p \in Orders : /\ use'[bread(p)] # "idle" <=> use[bread(p)] # "idle"
                        /\ p # o => (use'[sausage(p)] # "idle" <=> use[sausage(p)] # "idle")
  BY <1>3, IngredientFacts
<1>6. Line'
  <2>1. ASSUME NEW k \in 1..Len(cafe_strand)
        PROVE  /\ lambda[cafe_strand[k]] = "ordered"
               /\ use'[bread(cafe_strand[k])] = "idle"
               /\ k # 1 => use'[sausage(cafe_strand[k])] = "idle"
    <3>1. cafe_strand[k] \in Orders /\ (k # 1 => cafe_strand[k] # o)
      BY <1>1, StrandOrders, FirstOrder DEF IInv
    <3>2. QED
      BY <3>1, <1>5 DEF IInv, Line, Started
  <2>2. ASSUME NEW p \in Orders, lambda[p] # "ordered"
        PROVE  use'[sausage(p)] = "idle" /\ use'[bread(p)] = "idle"
    <3>1. p # o
      BY <2>2, <1>1, FirstOrder DEF IInv
    <3>2. QED
      BY <2>2, <3>1, <1>5 DEF IInv, Line, Started
  <2>3. ASSUME NEW p \in Orders, lambda[p] = "ordered"
        PROVE  \/ \E k \in 1..Len(cafe_strand) : cafe_strand[k] = p
               \/ use'[sausage(p)] # "idle" /\ use'[bread(p)] # "idle"
    <3>1. \/ \E k \in 1..Len(cafe_strand) : cafe_strand[k] = p
          \/ Started(sausage(p)) /\ Started(bread(p))
      BY <2>3 DEF IInv, Line
    <3>2. CASE p = o
      BY <3>2, <1>3, <1>5, <3>1 DEF Started
    <3>3. CASE p # o
      BY <3>1, <3>3, <1>5 DEF Started
    <3>4. QED
      BY <3>2, <3>3
  <2>4. \A k, l \in 1..Len(cafe_strand) : cafe_strand[k] = cafe_strand[l] => k = l
    BY DEF IInv, Line
  <2>5. lambda' = lambda /\ cafe_strand' = cafe_strand
    BY <1>1
  <2>6. QED
    BY <2>1, <2>2, <2>3, <2>4, <2>5 DEF Line, Started, sausage, bread
<1>7. Threads'
  <2>1. ~Making
    BY <1>1, <1>3 DEF Making
  <2>2. Waiting' = Waiting /\ Came' = Came /\ completing' = completing
    BY <1>1 DEF Waiting, Came
  <2>3. Busy = Cardinality(Waiting) + Cardinality(completing)
    BY <2>1, Counted DEF Busy, IInv
  <2>4. \/ Busy' = Cardinality(Waiting) + Cardinality(completing)
        \/ Busy' = Cardinality(Waiting) + Cardinality(completing) + 1
    BY <2>2, Counted DEF Busy, IInv
  <2>5. Busy' \in 0..Workers
    BY <2>3, <2>4, <1>1, Counted, Numbers DEF IInv
  <2>6. QED
    BY <2>2, <2>5, <1>1 DEF IInv, Threads
<1>8. Types'
  BY <1>1, UseTypes DEF IInv, Types, UseTypes
<1>9. QED
  BY <1>4, <1>6, <1>7, <1>8 DEF Rest

LEMMA StartBakeInv ==
  ASSUME IInv, UseTypes, NEW o \in Orders, StartBake(o)
  PROVE  Rest'
<1>1. /\ program = "running" /\ Making /\ o = Head(cafe_strand)
      /\ Cooker!UseBurner(bread(o)) /\ cafe_strand' = Tail(cafe_strand)
      /\ UNCHANGED <<lambda, latch, age, timer, completing, answers, program>>
  BY DEF StartBake
<1>2. cafe_strand # <<>> /\ Started(sausage(o)) /\ bread(o) \in Ingredients
  BY <1>1, IngredientFacts DEF Making
<1>3. /\ SameCooked /\ SameCooking /\ use'[bread(o)] # "idle"
      /\ \A i \in Ingredients \ {bread(o)} : use'[i] # "idle" <=> use[i] # "idle"
  BY <1>1, <1>2, StartUse DEF IInv, Started
<1>4. Answered' /\ Punctual' /\ Edible' /\ CleanExit'
  BY <1>1, <1>3, AnsweredKept, PunctualKept, EdibleKept, NotReturned DEF IInv
<1>5. \A p \in Orders : /\ use'[sausage(p)] # "idle" <=> use[sausage(p)] # "idle"
                        /\ p # o => (use'[bread(p)] # "idle" <=> use[bread(p)] # "idle")
  BY <1>3, IngredientFacts
<1>6. /\ cafe_strand' \in Seq(Orders)
      /\ Len(cafe_strand') = Len(cafe_strand) - 1
      /\ \A k \in 1..Len(cafe_strand') : cafe_strand'[k] = cafe_strand[k+1]
  BY <1>1, <1>2, HeadTailProperties DEF IInv, Types
<1>7. Len(cafe_strand) \in Nat /\ \A k \in 1..Len(cafe_strand') : k + 1 \in 1..Len(cafe_strand)
  BY <1>6, StrandOrders DEF IInv
<1>8. ASSUME NEW k \in 1..Len(cafe_strand')
      PROVE  /\ cafe_strand'[k] \in Orders \ {o}
             /\ lambda[cafe_strand'[k]] = "ordered"
             /\ use'[bread(cafe_strand'[k])] = "idle"
             /\ use'[sausage(cafe_strand'[k])] = "idle"
  <2>1. k + 1 \in 1..Len(cafe_strand) /\ k + 1 # 1 /\ cafe_strand'[k] = cafe_strand[k+1]
    BY <1>6, <1>7
  <2>2. cafe_strand[k+1] \in Orders /\ cafe_strand[k+1] # o
    BY <2>1, <1>1, <1>2, StrandOrders, FirstOrder DEF IInv
  <2>3. /\ lambda[cafe_strand[k+1]] = "ordered"
        /\ use[bread(cafe_strand[k+1])] = "idle"
        /\ use[sausage(cafe_strand[k+1])] = "idle"
    BY <2>1 DEF IInv, Line, Started
  <2>4. QED
    BY <2>1, <2>2, <2>3, <1>5
<1>9. Line'
  <2>1. ASSUME NEW k \in 1..Len(cafe_strand'), NEW l \in 1..Len(cafe_strand'),
               cafe_strand'[k] = cafe_strand'[l]
        PROVE  k = l
    <3>1. cafe_strand[k+1] = cafe_strand[l+1]
      BY <2>1, <1>6
    <3>2. k + 1 = l + 1
      BY <3>1, <1>7 DEF IInv, Line
    <3>3. QED
      BY <3>2, <1>6, <1>7
  <2>2. ASSUME NEW p \in Orders, lambda[p] # "ordered"
        PROVE  use'[sausage(p)] = "idle" /\ use'[bread(p)] = "idle"
    <3>1. p # o
      BY <2>2, <1>1, <1>2, FirstOrder DEF IInv
    <3>2. QED
      BY <2>2, <3>1, <1>5 DEF IInv, Line, Started
  <2>3. ASSUME NEW p \in Orders, lambda[p] = "ordered"
        PROVE  \/ \E k \in 1..Len(cafe_strand') : cafe_strand'[k] = p
               \/ use'[sausage(p)] # "idle" /\ use'[bread(p)] # "idle"
    <3>1. CASE p = o
      BY <3>1, <1>2, <1>3, <1>5 DEF Started
    <3>2. CASE p # o /\ Started(sausage(p)) /\ Started(bread(p))
      BY <3>2, <1>5 DEF Started
    <3>3. CASE p # o /\ \E k \in 1..Len(cafe_strand) : cafe_strand[k] = p
      <4>1. PICK k \in 1..Len(cafe_strand) : cafe_strand[k] = p
        BY <3>3
      <4>2. k # 1
        BY <4>1, <3>3, <1>1, <1>2, FirstOrder DEF IInv
      <4>3. k - 1 \in 1..Len(cafe_strand') /\ (k - 1) + 1 = k
        BY <4>2, <1>6, <1>7
      <4>4. cafe_strand'[k-1] = p
        BY <4>1, <4>3, <1>6
      <4>5. QED
        BY <4>3, <4>4
    <3>4. QED
      BY <2>3, <3>1, <3>2, <3>3 DEF IInv, Line
  <2>4. lambda' = lambda
    BY <1>1
  <2>5. QED
    BY <1>8, <2>1, <2>2, <2>3, <2>4 DEF Line, Started, sausage, bread
<1>10. ~Making'
  <2>1. CASE cafe_strand' = <<>>
    BY <2>1 DEF Making
  <2>2. CASE cafe_strand' # <<>>
    <3>1. 1 \in 1..Len(cafe_strand') /\ Head(cafe_strand') = cafe_strand'[1]
      BY <2>2, <1>6, EmptySeq, LenProperties
    <3>2. use'[sausage(Head(cafe_strand'))] = "idle"
      BY <3>1, <1>8
    <3>3. QED
      BY <3>2 DEF Making, Started, sausage
  <2>3. QED
    BY <2>1, <2>2
<1>11. Threads'
  <2>1. Waiting' = Waiting /\ Came' = Came /\ completing' = completing
    BY <1>1 DEF Waiting, Came
  <2>2. Busy' = Busy - 1 /\ Busy' \in Nat
    BY <2>1, <1>1, <1>10, Counted DEF IInv, Busy
  <2>3. QED
    BY <2>1, <2>2, <1>1, Numbers DEF IInv, Threads
<1>12. Types'
  BY <1>1, <1>6, UseTypes DEF IInv, Types, UseTypes
<1>13. QED
  BY <1>4, <1>9, <1>11, <1>12 DEF Rest

LEMMA CookerStepInv ==
  ASSUME IInv, UseTypes, CookerStep
  PROVE  Rest'
<1>1. /\ program = "running" /\ Cooker!StrandStep
      /\ UNCHANGED <<lambda, latch, cafe_strand, age, timer, completing, answers, program>>
  BY DEF CookerStep
<1>2. SameStarted /\ SameCooked /\ SameCooking
  BY <1>1, StrandUse DEF IInv
<1>3. Answered' /\ Punctual' /\ Edible' /\ CleanExit' /\ Line' /\ Threads'
  BY <1>1, <1>2, AnsweredKept, PunctualKept, EdibleKept, NotReturned, LineKept, ThreadsKept DEF IInv
<1>4. Types'
  BY <1>1, UseTypes DEF IInv, Types, UseTypes
<1>5. QED
  BY <1>3, <1>4 DEF Rest

-----------------------------------------------------------------------------
(***************************************************************************)
(* Ingredients cook, and time passes.                                      *)
(***************************************************************************)
LEMMA HandlerInv ==
  ASSUME IInv, UseTypes, NEW j \in Ingredients, Handler(j)
  PROVE  Rest'
<1>1. /\ program = "running" /\ Cooker!RunHandler(j)
      /\ age' = [age EXCEPT ![j] = 0] /\ timer' = [timer EXCEPT ![j] = 0]
      /\ UNCHANGED <<lambda, latch, cafe_strand, completing, answers, program>>
  BY DEF Handler, FreeThread
<1>2. /\ SameStarted /\ SameCooked /\ use'[j] = "cooking" /\ use[j] = "posted"
      /\ \A i \in Ingredients \ {j} : use'[i] = use[i]
  BY <1>1, HandlerUse DEF IInv
<1>3. Answered' /\ CleanExit' /\ Line' /\ Threads'
  BY <1>1, <1>2, AnsweredKept, NotReturned, LineKept, ThreadsKept DEF IInv
<1>4. /\ age' \in [Ingredients -> 0..AgeBound] /\ timer' \in [Ingredients -> Nat]
      /\ age'[j] = 0 /\ timer'[j] = 0
      /\ \A i \in Ingredients \ {j} : age'[i] = age[i] /\ timer'[i] = timer[i]
  BY <1>1 DEF IInv, Types, AgeBound
<1>5. \A i \in Ingredients : timer'[i] <= CookTime(i) + MaxLate
  BY <1>4, Numbers, CafeteriaAssumption DEF IInv, Punctual
<1>6. Edible'
  <2>1. SUFFICES ASSUME MaxLate <= 1
                 PROVE  /\ \A i \in Ingredients : use'[i] = "cooking" => age'[i] = timer'[i]
                        /\ \A i \in Ingredients : IsCooked(i)' => InRange(i)'
                        /\ program' # "terminated"
    BY DEF Edible
  <2>2. \A i \in Ingredients : use'[i] = "cooking" => age'[i] = timer'[i]
    BY <1>2, <1>4, <2>1 DEF IInv, Edible
  <2>3. ASSUME NEW i \in Ingredients, IsCooked(i)'
        PROVE  InRange(i)'
    <3>1. i # j /\ IsCooked(i)
      BY <2>3, <1>2 DEF IsCooked, SameCooked
    <3>2. QED
      BY <3>1, <1>4, <2>1 DEF IInv, Edible, InRange
  <2>4. QED
    BY <2>2, <2>3, <1>1
<1>7. Types'
  BY <1>1, <1>4, UseTypes DEF IInv, Types, UseTypes
<1>8. Punctual'
  BY <1>5 DEF Punctual
<1>9. QED
  BY <1>3, <1>6, <1>7, <1>8 DEF Rest

LEMMA TickInv ==
  ASSUME IInv, UseTypes, Tick
  PROVE  Rest'
<1>1. /\ program = "running"
      /\ \A i \in Ingredients : use[i] = "cooking" => timer[i] < CookTime(i) + MaxLate
      /\ UNCHANGED <<use, lambda, latch, cafe_strand, completing, answers, program>>
  BY DEF Tick, cookerVars
<1>2. SameStarted /\ SameCooked /\ SameCooking
  BY <1>1, UseKept
<1>3. Answered' /\ CleanExit' /\ Line' /\ Threads'
  BY <1>1, <1>2, AnsweredKept, NotReturned, LineKept, ThreadsKept DEF IInv
<1>4. /\ \A i \in Ingredients : age'[i] =
           IF Started(i) /\ ~IsCooked(i) /\ age[i] < AgeBound THEN age[i] + 1 ELSE age[i]
      /\ \A i \in Ingredients : timer'[i] =
           IF use[i] = "cooking" THEN timer[i] + 1 ELSE timer[i]
      /\ DOMAIN age' = Ingredients /\ DOMAIN timer' = Ingredients
      /\ age' = [i \in Ingredients |-> age'[i]] /\ timer' = [i \in Ingredients |-> timer'[i]]
  BY DEF Tick
<1>5. ASSUME NEW i \in Ingredients
      PROVE  age'[i] \in 0..AgeBound /\ timer'[i] \in Nat /\ timer'[i] <= CookTime(i) + MaxLate
  <2>1. age[i] \in 0..5 /\ timer[i] \in Nat /\ timer[i] <= CookTime(i) + MaxLate
        /\ CookTime(i) \in 2..3
    BY Numbers DEF IInv, Types, AgeBound, Punctual
  <2>2. age'[i] \in 0..AgeBound
    BY <2>1, <1>4 DEF AgeBound
  <2>3. timer'[i] \in Nat
    BY <2>1, <1>4
  <2>4. timer'[i] <= CookTime(i) + MaxLate
    BY <2>1, <1>1, <1>4, CafeteriaAssumption
  <2>5. QED
    BY <2>2, <2>3, <2>4
<1>6. Edible'
  <2>1. SUFFICES ASSUME MaxLate <= 1
                 PROVE  /\ \A i \in Ingredients : use'[i] = "cooking" => age'[i] = timer'[i]
                        /\ \A i \in Ingredients : IsCooked(i)' => InRange(i)'
                        /\ program' # "terminated"
    BY DEF Edible
  <2>2. ASSUME NEW i \in Ingredients, use[i] = "cooking"
        PROVE  age'[i] = timer'[i]
    <3>1. age[i] = timer[i]
      BY <2>1, <2>2 DEF IInv, Edible
    <3>2. age[i] \in 0..5 /\ timer[i] < CookTime(i) + MaxLate /\ CookTime(i) \in 2..3
      BY <2>2, <1>1, Numbers DEF IInv, Types, AgeBound
    <3>3. age[i] < AgeBound
      BY <3>1, <3>2, <2>1, CafeteriaAssumption DEF AgeBound
    <3>4. Started(i) /\ ~IsCooked(i)
      BY <2>2 DEF Started, IsCooked
    <3>5. QED
      BY <3>1, <3>3, <3>4, <2>2, <1>4
  <2>3. ASSUME NEW i \in Ingredients, IsCooked(i)'
        PROVE  InRange(i)'
    <3>1. IsCooked(i) /\ age'[i] = age[i]
      BY <2>3, <1>2, <1>4 DEF SameCooked
    <3>2. QED
      BY <3>1, <2>1 DEF IInv, Edible, InRange
  <2>4. QED
    BY <2>2, <2>3, <1>1
<1>7. Types'
  BY <1>1, <1>4, <1>5, UseTypes DEF IInv, Types, UseTypes
<1>8. Punctual'
  BY <1>5 DEF Punctual
<1>9. QED
  BY <1>3, <1>6, <1>7, <1>8 DEF Rest

-----------------------------------------------------------------------------
(***************************************************************************)
(* A timer's handler stops its ingredient and completes the order.         *)
(***************************************************************************)
LEMMA StopInv ==
  ASSUME IInv, UseTypes, NEW j \in Ingredients, Stop(j)
  PROVE  Rest'
<1>1. /\ program = "running" /\ Busy < Workers /\ Cooker!ReleaseBurner(j)
      /\ timer[j] >= CookTime(j) /\ completing' = completing \cup {j}
      /\ \A i \in completing : i[1] # j[1]
      /\ UNCHANGED <<lambda, latch, cafe_strand, age, timer, answers, program>>
  BY DEF Stop, FreeThread, Expired
<1>2. /\ SameStarted /\ ~IsCooked(j) /\ IsCooked(j)'
      /\ use[j] = "cooking" /\ use'[j] = "releasing"
      /\ \A i \in Ingredients \ {j} : use'[i] = use[i] /\ (IsCooked(i)' <=> IsCooked(i))
  BY <1>1, StopUse DEF IInv
<1>3. Line' /\ Punctual' /\ CleanExit'
  BY <1>1, <1>2, LineKept, PunctualKept, NotReturned DEF IInv
<1>4. completing \in SUBSET Ingredients /\ completing' \in SUBSET Ingredients
  BY <1>1 DEF IInv, Types
<1>5. j[1] \in Orders /\ (j = sausage(j[1]) \/ j = bread(j[1]))
  BY IngredientFacts
<1>6. ASSUME NEW o \in Orders
      PROVE  /\ ~BothCooked(o)' \/ Completing(o)' => answers'[o] = 0
             /\ BothCooked(o)' /\ ~Completing(o)' /\ program' # "terminated" => answers'[o] = 1
             /\ answers'[o] <= 1
  <2>1. CASE o = j[1]
    <3>1. ~BothCooked(o)
      BY <2>1, <1>2, <1>5 DEF BothCooked
    <3>2. Completing(o)'
      BY <2>1, <1>1 DEF Completing
    <3>3. answers'[o] = 0
      BY <3>1, <1>1 DEF IInv, Answered
    <3>4. QED
      BY <3>2, <3>3
  <2>2. CASE o # j[1]
    <3>1. sausage(o) # j /\ bread(o) # j
      BY <2>2, IngredientFacts
    <3>2. BothCooked(o)' <=> BothCooked(o)
      BY <3>1, <1>2, IngredientFacts DEF BothCooked
    <3>3. Completing(o)' <=> Completing(o)
      BY <2>2, <1>1 DEF Completing
    <3>4. QED
      BY <3>2, <3>3, <1>1 DEF IInv, Answered
  <2>3. QED
    BY <2>1, <2>2
<1>7. Answered'
  <2>1. \A i \in completing' : IsCooked(i)'
    BY <1>1, <1>2, <1>4 DEF IInv, Answered
  <2>2. \A i, k \in completing' : i[1] = k[1] => i = k
    BY <1>1 DEF IInv, Answered
  <2>3. QED
    BY <2>1, <2>2, <1>6 DEF Answered
<1>8. Edible'
  <2>1. SUFFICES ASSUME MaxLate <= 1
                 PROVE  /\ \A i \in Ingredients : use'[i] = "cooking" => age'[i] = timer'[i]
                        /\ \A i \in Ingredients : IsCooked(i)' => InRange(i)'
                        /\ program' # "terminated"
    BY DEF Edible
  <2>2. \A i \in Ingredients : use'[i] = "cooking" => age'[i] = timer'[i]
    BY <1>1, <1>2, <2>1 DEF IInv, Edible
  <2>3. ASSUME NEW i \in Ingredients, IsCooked(i)'
        PROVE  InRange(i)'
    <3>1. CASE i = j
      <4>1. age[j] = timer[j] /\ age[j] \in 0..5 /\ timer[j] <= CookTime(j) + MaxLate
        BY <2>1, <1>2 DEF IInv, Edible, Types, AgeBound, Punctual
      <4>2. age[j] \in CookTime(j)..MaxTime(j)
        BY <4>1, <2>1, <1>1, Numbers, CafeteriaAssumption
      <4>3. QED
        BY <3>1, <4>2, <1>1 DEF InRange
    <3>2. CASE i # j
      BY <3>2, <2>3, <1>1, <1>2, <2>1 DEF IInv, Edible, InRange
    <3>3. QED
      BY <3>1, <3>2
  <2>4. QED
    BY <2>2, <2>3, <1>1 DEF IInv, Edible
<1>9. Threads'
  <2>1. Waiting' = Waiting /\ Came' = Came
    BY <1>1 DEF Waiting, Came
  <2>2. Making' <=> Making
    BY <1>1, <1>2, MakingKept DEF IInv
  <2>3. j \notin completing
    BY <1>1
  <2>4. Cardinality(completing') = Cardinality(completing) + 1
    BY <2>3, <1>1, Counted, FS_AddElement DEF IInv
  <2>5. Busy' = Busy + 1
    BY <2>1, <2>2, <2>4, Counted DEF IInv, Busy
  <2>6. QED
    BY <2>1, <2>5, <1>1, Numbers DEF IInv, Threads
<1>10. Types'
  BY <1>1, <1>4, UseTypes DEF IInv, Types, UseTypes
<1>11. QED
  BY <1>3, <1>7, <1>8, <1>9, <1>10 DEF Rest

LEMMA CompleteInv ==
  ASSUME IInv, UseTypes, NEW j \in Ingredients, Complete(j)
  PROVE  Rest'
<1> DEFINE o == j[1]
<1>1. /\ program = "running" /\ j \in completing /\ completing' = completing \ {j}
      /\ UNCHANGED <<use, lambda, latch, cafe_strand, age, timer>>
  BY DEF Complete, cookerVars
<1>2. \/ ~BothCooked(o) /\ UNCHANGED <<answers, program>>
      \/ /\ BothCooked(o) /\ answers' = [answers EXCEPT ![o] = @ + 1] /\ UNCHANGED program
      \/ /\ BothCooked(o) /\ ~(InRange(sausage(o)) /\ InRange(bread(o)))
         /\ program' = "terminated" /\ UNCHANGED answers
  BY DEF Complete, BothCooked
<1>3. SameStarted /\ SameCooked /\ SameCooking
  BY <1>1, UseKept
<1>4. program' # "returned" /\ program' \in {"running", "returned", "terminated"}
  BY <1>1, <1>2
<1>5. Line' /\ Punctual' /\ CleanExit'
  BY <1>1, <1>3, <1>4, LineKept, PunctualKept, NotReturned DEF IInv
<1>6. o \in Orders
  BY IngredientFacts
<1>7. /\ answers' \in [Orders -> Nat]
      /\ \A p \in Orders \ {o} : answers'[p] = answers[p]
      /\ ~BothCooked(o) => answers'[o] = answers[o]
      /\ BothCooked(o) /\ program' # "terminated" => answers'[o] = answers[o] + 1
      /\ answers'[o] = answers[o] \/ answers'[o] = answers[o] + 1
  <2>1. answers \in [Orders -> Nat] /\ answers[o] \in Nat
    BY <1>6 DEF IInv, Types
  <2>2. CASE UNCHANGED answers /\ (~BothCooked(o) \/ program' = "terminated")
    BY <2>1, <2>2
  <2>3. CASE BothCooked(o) /\ answers' = [answers EXCEPT ![o] = @ + 1]
    <3>1. answers'[o] = answers[o] + 1 /\ answers' \in [Orders -> Nat]
          /\ \A p \in Orders \ {o} : answers'[p] = answers[p]
      BY <2>1, <2>3, <1>6
    <3>2. QED
      BY <2>3, <3>1
  <2>4. QED
    BY <1>2, <2>2, <2>3
<1>8. answers[o] = 0
  BY <1>1, <1>6 DEF IInv, Answered, Completing
<1>9. \A p \in Orders : BothCooked(p)' <=> BothCooked(p)
  BY <1>3, IngredientFacts DEF SameCooked, BothCooked
<1>10. ASSUME NEW p \in Orders
       PROVE  /\ ~BothCooked(p)' \/ Completing(p)' => answers'[p] = 0
              /\ BothCooked(p)' /\ ~Completing(p)' /\ program' # "terminated" => answers'[p] = 1
              /\ answers'[p] <= 1
  <2>1. CASE p = o
    <3>1. ~Completing(o)'
      BY <1>1 DEF IInv, Answered, Completing
    <3>2. QED
      BY <2>1, <3>1, <1>7, <1>8, <1>9
  <2>2. CASE p # o
    <3>1. Completing(p)' <=> Completing(p)
      BY <2>2, <1>1 DEF Completing
    <3>2. QED
      BY <2>2, <3>1, <1>1, <1>7, <1>9 DEF IInv, Answered
  <2>3. QED
    BY <2>1, <2>2
<1>11. Answered'
  <2>1. completing' \in SUBSET Ingredients /\ completing' \subseteq completing
    BY <1>1 DEF IInv, Types
  <2>2. \A i \in completing' : IsCooked(i)'
    BY <2>1, <1>3 DEF IInv, Answered, SameCooked
  <2>3. \A i, k \in completing' : i[1] = k[1] => i = k
    BY <2>1 DEF IInv, Answered
  <2>4. QED
    BY <2>2, <2>3, <1>10 DEF Answered
<1>12. Edible'
  <2>1. ASSUME MaxLate <= 1
        PROVE  program' # "terminated"
    <3>1. sausage(o) \in Ingredients /\ bread(o) \in Ingredients
      BY <1>6, IngredientFacts
    <3>2. BothCooked(o) => InRange(sausage(o)) /\ InRange(bread(o))
      BY <3>1, <2>1 DEF IInv, Edible, BothCooked
    <3>3. QED
      BY <3>2, <1>1, <1>2
  <2>2. CASE MaxLate <= 1
    BY <2>1, <2>2, <1>1, <1>3, EdibleKept DEF IInv
  <2>3. CASE ~(MaxLate <= 1)
    BY <2>3 DEF Edible
  <2>4. QED
    BY <2>2, <2>3
<1>13. Threads'
  <2>1. Waiting' = Waiting /\ Came' = Came
    BY <1>1 DEF Waiting, Came
  <2>2. Making' <=> Making
    BY <1>1, <1>3, MakingKept DEF IInv
  <2>3. Cardinality(completing') = Cardinality(completing) - 1 /\ IsFiniteSet(completing')
    BY <1>1, Counted, FS_RemoveElement DEF IInv
  <2>4. Cardinality(completing') \in Nat
    BY <2>3, FS_CardinalityType
  <2>5. Busy' = Busy - 1 /\ Busy' \in Nat
    BY <2>1, <2>2, <2>3, <2>4, Counted DEF IInv, Busy
  <2>6. QED
    BY <2>1, <2>5, <1>1, Numbers DEF IInv, Threads
<1>14. Types'
  BY <1>1, <1>4, <1>7, UseTypes DEF IInv, Types, UseTypes
<1>15. QED
  BY <1>5, <1>11, <1>12, <1>13, <1>14 DEF Rest

LEMMA ReturnInv ==
  ASSUME IInv, UseTypes, Return
  PROVE  Rest'
<1>1. /\ program = "running" /\ program' = "returned" /\ NoWork
      /\ UNCHANGED <<use, burners_in_use, pending_handlers, lambda, latch, cafe_strand,
                     age, timer, completing, answers>>
  BY DEF Return, Cooker!DropOwner
<1>2. SameStarted /\ SameCooked /\ SameCooking
  BY <1>1, UseKept
<1>3. Answered' /\ Punctual' /\ Edible' /\ Line' /\ Threads'
  BY <1>1, <1>2, AnsweredKept, PunctualKept, EdibleKept, LineKept, ThreadsKept DEF IInv
<1>4. /\ burners_in_use = 0 /\ pending_handlers = <<>>
      /\ \A i \in Ingredients : use[i] \in {"idle", "done"}
  BY <1>1, CookerIdle DEF IInv, NoWork
<1>5. ASSUME NEW o \in Orders
      PROVE  answers[o] = 1
  <2>1. lambda[o] = "ordered" /\ Len(cafe_strand) = 0 /\ completing = {}
    BY <1>1, EmptySeq DEF NoWork
  <2>2. Started(sausage(o)) /\ Started(bread(o))
    BY <2>1 DEF IInv, Line
  <2>3. BothCooked(o)
    BY <2>2, <1>4, IngredientFacts DEF BothCooked, IsCooked, Started
  <2>4. ~Completing(o)
    BY <2>1 DEF Completing
  <2>5. QED
    BY <2>3, <2>4, <1>1 DEF IInv, Answered
<1>6. CleanExit'
  BY <1>1, <1>4, <1>5 DEF CleanExit
<1>7. Types'
  BY <1>1, UseTypes DEF IInv, Types, UseTypes
<1>8. QED
  BY <1>3, <1>6, <1>7 DEF Rest

LEMMA SameInv ==
  ASSUME IInv, UseTypes, UNCHANGED vars
  PROVE  Rest'
<1>1. UNCHANGED <<use, burners_in_use, pending_handlers, lambda, latch, cafe_strand,
                  age, timer, completing, answers, program>>
  BY DEF vars, cookerVars
<1>2. SameStarted
  BY <1>1, UseKept
<1>3. Line' /\ Threads'
  BY <1>1, <1>2, LineKept, ThreadsKept DEF IInv
<1>4. Punctual' /\ CleanExit'
  BY <1>1 DEF IInv, Punctual, CleanExit
<1>5. Answered'
  BY <1>1 DEF IInv, Answered, BothCooked, Completing, IsCooked
<1>6. Edible'
  BY <1>1 DEF IInv, Edible, IsCooked, InRange
<1>7. Types'
  BY <1>1, UseTypes DEF IInv, Types, UseTypes
<1>8. QED
  BY <1>3, <1>4, <1>5, <1>6, <1>7 DEF Rest

-----------------------------------------------------------------------------
LEMMA InitInv == Init => IInv
<1> SUFFICES ASSUME Init PROVE IInv
  OBVIOUS
<1>1. CookerProofs!IInv
  BY CookerInit DEF Init
<1>2. /\ use = [i \in Ingredients |-> "idle"] /\ lambda = [o \in Orders |-> "posted"]
      /\ latch = NumWaiting /\ cafe_strand = <<>> /\ completing = {} /\ program = "running"
      /\ age = [i \in Ingredients |-> 0] /\ timer = [i \in Ingredients |-> 0]
      /\ answers = [o \in Orders |-> 0]
  BY DEF Init, Cooker!Init
<1>3. Types
  <2>1. use \in [Ingredients -> Cooker!Phases]
    BY <1>1, CookerFacts
  <2>2. cafe_strand \in Seq(Orders)
    BY <1>2
  <2>3. QED
    BY <1>2, <2>1, <2>2, Numbers DEF Types, AgeBound
<1>4. \A i \in Ingredients : ~Started(i) /\ ~IsCooked(i) /\ use[i] # "cooking"
  BY <1>2 DEF Started, IsCooked
<1>5. Len(cafe_strand) = 0
  BY <1>2
<1>6. Line
  <2>1. \A o \in Orders : ~Started(sausage(o)) /\ ~Started(bread(o)) /\ lambda[o] # "ordered"
    BY <1>2, <1>4, IngredientFacts
  <2>2. QED
    BY <1>5, <2>1 DEF Line
<1>7. Answered
  <2>1. \A o \in Orders : ~BothCooked(o) /\ answers[o] = 0
    BY <1>2, <1>4, IngredientFacts DEF BothCooked
  <2>2. QED
    BY <1>2, <2>1 DEF Answered
<1>8. Punctual
  BY <1>2, Numbers, CafeteriaAssumption DEF Punctual
<1>9. Edible
  BY <1>2, <1>4 DEF Edible
<1>10. Threads
  <2>1. Waiting = {} /\ Came = {} /\ ~Making
    <3>1. \A o \in 1..NumWaiting : o \in Orders
      BY Numbers DEF Orders
    <3>2. QED
      BY <1>2, <3>1 DEF Waiting, Came, Making
  <2>2. Cardinality(Waiting) = 0 /\ Cardinality(Came) = 0 /\ Cardinality(completing) = 0
    BY <1>2, <2>1, FS_EmptySet
  <2>3. QED
    BY <1>2, <2>1, <2>2, Numbers DEF Threads, Busy
<1>11. QED
  BY <1>1, <1>2, <1>3, <1>6, <1>7, <1>8, <1>9, <1>10 DEF IInv, CleanExit

LEMMA NextInv == IInv /\ [Next]_vars => IInv'
<1> SUFFICES ASSUME IInv, [Next]_vars PROVE IInv'
  OBVIOUS
<1>1. CookerProofs!IInv'
  BY CookerKeeps DEF IInv
<1>2. UseTypes
  BY <1>1, UseTyped DEF UseTypes
<1>3. ASSUME NEW o \in Orders, Arrive(o) \/ PassLatch(o) \/ StartFry(o) \/ StartBake(o)
      PROVE  Rest'
  BY <1>2, <1>3, ArriveInv, PassLatchInv, StartFryInv, StartBakeInv
<1>4. ASSUME NEW i \in Ingredients, Handler(i) \/ Stop(i) \/ Complete(i)
      PROVE  Rest'
  BY <1>2, <1>4, HandlerInv, StopInv, CompleteInv
<1>5. Rest'
  <2>1. ASSUME CookerStep PROVE Rest'
    BY <1>2, <2>1, CookerStepInv
  <2>2. ASSUME Tick PROVE Rest'
    BY <1>2, <2>2, TickInv
  <2>3. ASSUME Return PROVE Rest'
    BY <1>2, <2>3, ReturnInv
  <2>4. ASSUME Over \/ UNCHANGED vars PROVE Rest'
    BY <1>2, <2>4, SameInv DEF Over
  <2>5. QED
    BY <1>3, <1>4, <2>1, <2>2, <2>3, <2>4 DEF Next
<1>6. QED
  BY <1>1, <1>5 DEF IInv, Rest

(***************************************************************************)
(* The invariant holds in every state PrepareHotDogs reaches, whatever the *)
(* number of orders, threads and burners and however late the timers are.  *)
(***************************************************************************)
THEOREM Invariant == Spec => []IInv
BY InitInv, NextInv, PTL DEF Spec

(***************************************************************************)
(* No order's handler is called twice (cafeteria.h:62-69, 78-80), even on  *)
(* a machine whose timers are so late that orders are rejected.            *)
(***************************************************************************)
THEOREM CallsOnce == Spec => []HandlerOncePerOrder
<1>1. IInv => HandlerOncePerOrder
  BY DEF IInv, Answered, HandlerOncePerOrder
<1>2. QED
  BY <1>1, Invariant, PTL

(***************************************************************************)
(* PrepareHotDogs returns only when every order has its hot dog, with no   *)
(* burner in use and no handler left behind (main.cpp:148, gascooker.h:35).*)
(***************************************************************************)
THEOREM ExitsClean == Spec => []CleanExit
<1>1. IInv => CleanExit
  BY DEF IInv
<1>2. QED
  BY <1>1, Invariant, PTL

(***************************************************************************)
(* With timers less than a tick late no hot dog is rejected, however long  *)
(* its ingredients waited for a burner (ingredients.h:39-43).              *)
(***************************************************************************)
THEOREM NotSpoiled ==
  ASSUME MaxLate <= 1
  PROVE  Spec => []NeverSpoiled
<1>1. IInv => NeverSpoiled
  BY DEF IInv, Edible, NeverSpoiled
<1>2. QED
  BY <1>1, Invariant, PTL

(***************************************************************************)
(* Every variable keeps its type; in particular no more threads are in a   *)
(* lambda than RunWorkers started, and the latch is never counted down     *)
(* below zero (main.cpp:69-90).                                            *)
(***************************************************************************)
THEOREM TypeCorrect ==
  ASSUME MaxLate <= 2
  PROVE  Spec => []TypeOK
<1>1. ASSUME IInv PROVE TypeOK
  <2>1. Cooker!TypeOK
    BY <1>1, CookerFacts DEF IInv, Cooker!TypeOK
  <2>2. latch \in 0..NumWaiting
    BY <1>1, Counted, Numbers DEF IInv, Types, Threads
  <2>3. timer \in [Ingredients -> 0..AgeBound]
    <3>1. \A i \in Ingredients : timer[i] \in 0..AgeBound
      <4>1. SUFFICES ASSUME NEW i \in Ingredients PROVE timer[i] \in 0..5
        BY DEF AgeBound
      <4>2. timer[i] \in Nat /\ timer[i] <= CookTime(i) + MaxLate /\ CookTime(i) \in 2..3
        BY <1>1, Numbers DEF IInv, Types, Punctual
      <4>3. QED
        BY <4>2, CafeteriaAssumption
    <3>2. timer \in [Ingredients -> Nat]
      BY <1>1 DEF IInv, Types
    <3>3. QED
      BY <3>1, <3>2
  <2>4. QED
    BY <1>1, <2>1, <2>2, <2>3 DEF IInv, Types, Threads, TypeOK
<1>2. QED
  BY <1>1, Invariant, PTL

-----------------------------------------------------------------------------
(***************************************************************************)
(* Burners are given out in pairs.  Of the requests that wait, an order's  *)
(* two stand one behind the other: of another order's request, either the  *)
(* sausage of this one is behind it or the bread of this one is before it. *)
(* Once the sausage has its burner the bread is before all others.         *)
(***************************************************************************)
Asks(i) == use[i] = "requested"
Ahead(i, j) == CookerProofs!AheadOf(i, j)

SideBySide(o) ==
  Asks(sausage(o)) =>
    /\ Asks(bread(o)) => Ahead(sausage(o), bread(o))
    /\ \A i \in Ingredients : Asks(i) /\ i[1] # o =>
         Ahead(i, sausage(o)) \/ (Asks(bread(o)) /\ Ahead(bread(o), i))

BreadIsNext(o) ==
  HalfServed(o) =>
    \A i \in Ingredients : Asks(i) /\ i[1] # o => Asks(bread(o)) /\ Ahead(bread(o), i)

InTurn ==
  \A o \in Orders :
    /\ SideBySide(o)
    /\ BreadIsNext(o)
    /\ Granted(bread(o)) => Granted(sausage(o))

\* What the cooker's proofs say about who is ahead.
LEMMA CookerOrder ==
  ASSUME CookerProofs!IInv, [Next]_vars, NEW i \in Ingredients, NEW j \in Ingredients
  PROVE  /\ Ahead(i, j) => ~Ahead(j, i)
         /\ Ahead(i, j) /\ Asks(i)' /\ Asks(j)' => Ahead(i, j)'
         /\ Asks(j) /\ ~Asks(j)' => ~Ahead(i, j)
         /\ CookerProofs!UseBurner(j) /\ Asks(i) => Ahead(i, j)'
<1>1. [CookerProofs!Next]_(CookerProofs!vars)
  BY StepOfCooker
<1>2. Ahead(i, j) => ~Ahead(j, i)
  BY CookerAssumed, CookerProofs!AheadStrict DEF Ahead
<1>3. Ahead(i, j) /\ Asks(i)' /\ Asks(j)' => Ahead(i, j)'
  <2>1. CASE CookerProofs!Next
    BY <2>1, CookerAssumed, CookerProofs!AheadStays DEF Ahead, Asks, CookerProofs!Requested
  <2>2. CASE UNCHANGED CookerProofs!vars
    BY <2>2 DEF Ahead, CookerProofs!vars, CookerProofs!AheadOf, CookerProofs!InStrand, CookerProofs!Pending
  <2>3. QED
    BY <1>1, <2>1, <2>2
<1>4. Asks(j) /\ ~Asks(j)' => ~Ahead(i, j)
  <2>1. CASE CookerProofs!Next
    BY <2>1, CookerAssumed, CookerProofs!GrantedFirst DEF Ahead, Asks, CookerProofs!Requested
  <2>2. CASE UNCHANGED CookerProofs!vars
    BY <2>2 DEF Asks, CookerProofs!vars
  <2>3. QED
    BY <1>1, <2>1, <2>2
<1>5. CookerProofs!UseBurner(j) /\ Asks(i) => Ahead(i, j)'
  BY CookerAssumed, CookerProofs!AskedLast DEF Ahead, Asks, CookerProofs!Requested
<1>6. QED
  BY <1>2, <1>3, <1>4, <1>5

\* All steps but those of MakeHotDog only move what has asked already.
LEMMA OtherUse ==
  ASSUME IInv, [Next]_vars, \A o \in Orders : ~StartFry(o) /\ ~StartBake(o),
         NEW i \in Ingredients
  PROVE  /\ use[i] = "idle" <=> use'[i] = "idle"
         /\ Asks(i)' => Asks(i)
         /\ Granted(i) => Granted(i)'
<1>1. CASE UNCHANGED use
  BY <1>1 DEF Asks, Granted
<1>2. CASE CookerStep
  BY <1>2, StrandPhases DEF CookerStep, IInv, Asks, Granted
<1>3. ASSUME NEW j \in Ingredients, Handler(j) \/ Stop(j) \/ Complete(j)
      PROVE  \/ use'[i] = use[i]
             \/ use[i] = "posted" /\ use'[i] = "cooking"
             \/ use[i] = "cooking" /\ use'[i] = "releasing"
  <2>1. Types
    BY DEF IInv
  <2>2. CASE Handler(j)
    BY <2>1, <2>2, HandlerUse DEF Handler
  <2>3. CASE Stop(j)
    BY <2>1, <2>3, StopUse DEF Stop
  <2>4. CASE Complete(j)
    BY <2>4 DEF Complete, cookerVars
  <2>5. QED
    BY <1>3, <2>2, <2>3, <2>4
<1>4. ASSUME NEW j \in Ingredients, Handler(j) \/ Stop(j) \/ Complete(j)
      PROVE  /\ use[i] = "idle" <=> use'[i] = "idle"
             /\ Asks(i)' => Asks(i)
             /\ Granted(i) => Granted(i)'
  BY <1>3, <1>4 DEF Asks, Granted
<1>5. ASSUME NEW o \in Orders, Arrive(o) \/ PassLatch(o) PROVE UNCHANGED use
  BY <1>5 DEF Arrive, PassLatch, cookerVars
<1>6. ASSUME Tick \/ Return \/ Over \/ UNCHANGED vars PROVE UNCHANGED use
  BY <1>6 DEF Tick, Return, Over, vars, cookerVars, Cooker!DropOwner
<1>7. QED
  BY <1>1, <1>2, <1>4, <1>5, <1>6 DEF Next

\* An order that has its sausage started has its bread started, unless it is being made.
LEMMA BothAsked ==
  ASSUME IInv, NEW o \in Orders
  PROVE  /\ Started(sausage(o)) => Started(bread(o)) \/ (cafe_strand # <<>> /\ o = Head(cafe_strand))
         /\ Started(bread(o)) => Started(sausage(o))
<1>1. lambda[o] \in {"posted", "waiting", "ordered"} /\ cafe_strand \in Seq(Orders)
  BY DEF IInv, Types
<1>2. CASE lambda[o] # "ordered"
  BY <1>2 DEF IInv, Line
<1>3. CASE Started(sausage(o)) /\ Started(bread(o))
  BY <1>3
<1>4. ASSUME NEW k \in 1..Len(cafe_strand), cafe_strand[k] = o
      PROVE  /\ ~Started(bread(o))
             /\ Started(sausage(o)) => cafe_strand # <<>> /\ o = Head(cafe_strand)
  <2>1. ~Started(bread(o)) /\ (k # 1 => ~Started(sausage(o)))
    BY <1>4 DEF IInv, Line
  <2>2. k = 1 => cafe_strand # <<>> /\ o = Head(cafe_strand)
    BY <1>1, <1>4, EmptySeq, LenProperties
  <2>3. QED
    BY <2>1, <2>2
<1>5. QED
  BY <1>2, <1>3, <1>4 DEF IInv, Line

\* A phase is idle, requested or one of those with a burner.
LEMMA PhaseSplit ==
  ASSUME IInv, NEW i \in Ingredients
  PROVE  /\ Started(i) <=> (Asks(i) \/ Granted(i))
         /\ ~(Asks(i) /\ Granted(i))
BY DEF IInv, Types, Started, Asks, Granted

\* Of an order that is not in the making the bread asks while it has no burner.
LEMMA BreadAsks ==
  ASSUME IInv, InTurn, NEW o \in Orders, Started(sausage(o)), ~Granted(sausage(o)) \/ HalfServed(o),
         ~(cafe_strand # <<>> /\ o = Head(cafe_strand))
  PROVE  Asks(bread(o))
<1>1. Started(bread(o)) /\ bread(o) \in Ingredients
  BY BothAsked, IngredientFacts
<1>2. ~Granted(bread(o))
  BY DEF InTurn, HalfServed
<1>3. QED
  BY <1>1, <1>2, PhaseSplit

\* A step that asks for j: everyone keeps a burner, and those who ask are before j.
LEMMA AskUse ==
  ASSUME IInv, [Next]_vars, NEW j \in Ingredients, Cooker!UseBurner(j), NEW i \in Ingredients
  PROVE  /\ Asks(j)' /\ use[j] = "idle"
         /\ i # j => use'[i] = use[i]
         /\ Asks(i) => Ahead(i, j)'
<1>1. use[j] = "idle" /\ use' = [use EXCEPT ![j] = "requested"] /\ use \in [Ingredients -> Cooker!Phases]
  BY DEF Cooker!UseBurner, Cooker!Become, IInv, Types
<1>2. CookerProofs!UseBurner(j)
  BY DEF Cooker!UseBurner, CookerProofs!UseBurner, Cooker!Become, CookerProofs!Become
<1>3. Asks(i) => Ahead(i, j)'
  BY <1>2, CookerOrder DEF IInv
<1>4. QED
  BY <1>1, <1>3 DEF Asks

LEMMA InTurnInit == Init => InTurn
<1>1. Init => \A i \in Ingredients : use[i] = "idle"
  BY DEF Init, Cooker!Init
<1>2. (\A i \in Ingredients : use[i] = "idle") => InTurn
  BY IngredientFacts DEF InTurn, SideBySide, BreadIsNext, HalfServed, Granted, Asks
<1>3. QED
  BY <1>1, <1>2

LEMMA InTurnStartFry ==
  ASSUME IInv, InTurn, [Next]_vars, NEW o \in Orders, StartFry(o)
  PROVE  InTurn'
<1> DEFINE s == sausage(o)
<1>1. s \in Ingredients /\ Cooker!UseBurner(s) /\ cafe_strand # <<>> /\ o = Head(cafe_strand)
  BY IngredientFacts DEF StartFry
<1> HIDE DEF s
<1>2. /\ Asks(s)' /\ use[s] = "idle"
      /\ \A i \in Ingredients : i # s => use'[i] = use[i]
      /\ \A i \in Ingredients : Asks(i) => Ahead(i, s)'
  BY <1>1, AskUse
<1>3. ASSUME NEW i \in Ingredients, i # s
      PROVE  (Asks(i)' <=> Asks(i)) /\ (Granted(i)' <=> Granted(i))
  <2>1. use'[i] = use[i]
    BY <1>2, <1>3
  <2>2. QED
    BY <2>1 DEF Asks, Granted
<1>4. ~Granted(s) /\ ~Granted(s)' /\ ~Started(s)
  BY <1>2 DEF Asks, Granted, Started
<1>5. ASSUME NEW p \in Orders
      PROVE  /\ SideBySide(p)'
             /\ BreadIsNext(p)'
             /\ (Granted(bread(p)) => Granted(sausage(p)))'
  <2>1. sausage(p) \in Ingredients /\ bread(p) \in Ingredients /\ bread(p) # s
    BY <1>5, IngredientFacts DEF s
  <2>2. CASE p = o
    <3>1. s = sausage(p) /\ ~Started(bread(p)) /\ ~Granted(bread(p)) /\ ~Asks(bread(p))
      <4>1. s = sausage(p)
        BY <2>2 DEF s
      <4>2. ~Started(bread(p))
        BY <1>4, <4>1, BothAsked
      <4>3. QED
        BY <2>1, <4>1, <4>2, PhaseSplit
    <3>2. SideBySide(p)'
      <4>1. ASSUME NEW i \in Ingredients, Asks(i)', i[1] # p PROVE Ahead(i, s)'
        <5>1. i # s
          BY <2>2, <3>1, <4>1, IngredientFacts
        <5>2. Asks(i)
          BY <1>3, <4>1, <5>1
        <5>3. QED
          BY <1>2, <5>2
      <4>2. QED
        BY <1>3, <2>1, <3>1, <4>1 DEF SideBySide
    <3>3. QED
      BY <1>3, <1>4, <2>1, <3>1, <3>2 DEF BreadIsNext, HalfServed
  <2>3. CASE p # o
    <3>1. sausage(p) # s
      BY <2>3, IngredientFacts DEF s
    <3>2. Asks(sausage(p)) \/ HalfServed(p) => Asks(bread(p)) /\ Ahead(bread(p), s)'
      <4>1. Asks(sausage(p)) \/ HalfServed(p) => Started(sausage(p)) /\ (~Granted(sausage(p)) \/ HalfServed(p))
        BY <2>1, PhaseSplit DEF HalfServed
      <4>2. ~(cafe_strand # <<>> /\ p = Head(cafe_strand))
        BY <1>1, <2>3
      <4>3. Asks(sausage(p)) \/ HalfServed(p) => Asks(bread(p))
        BY <4>1, <4>2, BreadAsks
      <4>4. QED
        BY <1>2, <2>1, <4>3
    <3>3. SideBySide(p)'
      <4>1. SUFFICES ASSUME Asks(sausage(p)) PROVE SideBySide(p)'
        BY <1>3, <2>1, <3>1 DEF SideBySide
      <4>2. Asks(bread(p))' /\ Asks(sausage(p))' /\ Asks(bread(p))
        BY <1>3, <2>1, <3>1, <3>2, <4>1
      <4>3. Ahead(sausage(p), bread(p))'
        BY <2>1, <4>1, <4>2, CookerOrder DEF InTurn, SideBySide, IInv
      <4>4. ASSUME NEW i \in Ingredients, Asks(i)', i[1] # p
            PROVE  Ahead(i, sausage(p))' \/ Ahead(bread(p), i)'
        <5>1. CASE i = s
          BY <5>1, <3>2, <4>1
        <5>2. CASE i # s
          <6>1. Ahead(i, sausage(p)) \/ Ahead(bread(p), i)
            BY <1>3, <4>1, <4>4, <5>2 DEF InTurn, SideBySide
          <6>2. QED
            BY <2>1, <4>2, <4>4, <6>1, CookerOrder DEF IInv
        <5>3. QED
          BY <5>1, <5>2
      <4>5. QED
        BY <4>2, <4>3, <4>4 DEF SideBySide
    <3>4. BreadIsNext(p)'
      <4>1. SUFFICES ASSUME HalfServed(p), NEW i \in Ingredients, Asks(i)', i[1] # p
                     PROVE  Asks(bread(p))' /\ Ahead(bread(p), i)'
        BY <1>3, <2>1, <3>1 DEF BreadIsNext, HalfServed
      <4>2. Asks(bread(p)) /\ Asks(bread(p))'
        BY <1>3, <2>1, <3>2, <4>1
      <4>3. CASE i = s
        BY <4>1, <4>2, <4>3, <3>2
      <4>4. CASE i # s
        <5>1. Ahead(bread(p), i)
          BY <1>3, <4>1, <4>4 DEF InTurn, BreadIsNext
        <5>2. QED
          BY <2>1, <4>1, <4>2, <5>1, CookerOrder DEF IInv
      <4>5. QED
        BY <4>3, <4>4
    <3>5. QED
      BY <1>3, <2>1, <3>1, <3>3, <3>4 DEF InTurn
  <2>4. QED
    BY <2>2, <2>3
<1>6. QED
  BY <1>5 DEF InTurn

LEMMA InTurnStartBake ==
  ASSUME IInv, InTurn, [Next]_vars, NEW o \in Orders, StartBake(o)
  PROVE  InTurn'
<1> DEFINE b == bread(o)
<1>1. /\ b \in Ingredients /\ Cooker!UseBurner(b)
      /\ cafe_strand # <<>> /\ o = Head(cafe_strand) /\ Started(sausage(o))
  BY IngredientFacts DEF StartBake, Making
<1> HIDE DEF b
<1>2. /\ Asks(b)' /\ use[b] = "idle"
      /\ \A i \in Ingredients : i # b => use'[i] = use[i]
      /\ \A i \in Ingredients : Asks(i) => Ahead(i, b)'
  BY <1>1, AskUse
<1>3. ASSUME NEW i \in Ingredients, i # b
      PROVE  (Asks(i)' <=> Asks(i)) /\ (Granted(i)' <=> Granted(i))
  <2>1. use'[i] = use[i]
    BY <1>2, <1>3
  <2>2. QED
    BY <2>1 DEF Asks, Granted
<1>4. ~Granted(b) /\ ~Granted(b)' /\ ~Asks(b)
  BY <1>2 DEF Asks, Granted
<1>5. ASSUME NEW p \in Orders
      PROVE  /\ SideBySide(p)'
             /\ BreadIsNext(p)'
             /\ (Granted(bread(p)) => Granted(sausage(p)))'
  <2>1. sausage(p) \in Ingredients /\ bread(p) \in Ingredients /\ sausage(p) # b
    BY <1>5, IngredientFacts DEF b
  <2>2. CASE p = o
    <3>1. b = bread(p) /\ Started(sausage(p))
      BY <2>2, <1>1 DEF b
    <3>2. ASSUME NEW i \in Ingredients, Asks(i)', i[1] # p PROVE Asks(i)
      <4>1. i # b
        BY <3>1, <3>2, <2>2, IngredientFacts
      <4>2. QED
        BY <1>3, <3>2, <4>1
    <3>3. SideBySide(p)'
      <4>1. SUFFICES ASSUME Asks(sausage(p)) PROVE SideBySide(p)'
        BY <1>3, <2>1 DEF SideBySide
      <4>2. Ahead(sausage(p), b)' /\ Asks(sausage(p))'
        BY <1>2, <1>3, <2>1, <4>1
      <4>3. ASSUME NEW i \in Ingredients, Asks(i)', i[1] # p PROVE Ahead(i, sausage(p))'
        <5>1. Ahead(i, sausage(p))
          BY <1>4, <3>1, <3>2, <4>1, <4>3 DEF InTurn, SideBySide
        <5>2. QED
          BY <2>1, <4>2, <4>3, <5>1, CookerOrder DEF IInv
      <4>4. QED
        BY <3>1, <4>2, <4>3 DEF SideBySide
    <3>4. BreadIsNext(p)'
      <4>1. SUFFICES ASSUME Granted(sausage(p)), NEW i \in Ingredients, Asks(i)', i[1] # p
                     PROVE FALSE
        BY <1>3, <2>1 DEF BreadIsNext, HalfServed
      <4>2. HalfServed(p)
        BY <1>4, <3>1, <4>1 DEF HalfServed
      <4>3. QED
        BY <1>4, <3>1, <3>2, <4>1, <4>2 DEF InTurn, BreadIsNext
    <3>5. QED
      BY <1>4, <3>1, <3>3, <3>4
  <2>3. CASE p # o
    <3>1. bread(p) # b
      BY <2>3, IngredientFacts DEF b
    <3>2. Asks(sausage(p)) \/ HalfServed(p) => Asks(bread(p)) /\ Ahead(bread(p), b)'
      <4>1. Asks(sausage(p)) \/ HalfServed(p) => Started(sausage(p)) /\ (~Granted(sausage(p)) \/ HalfServed(p))
        BY <2>1, PhaseSplit DEF HalfServed
      <4>2. ~(cafe_strand # <<>> /\ p = Head(cafe_strand))
        BY <1>1, <2>3
      <4>3. Asks(sausage(p)) \/ HalfServed(p) => Asks(bread(p))
        BY <4>1, <4>2, BreadAsks
      <4>4. QED
        BY <1>2, <2>1, <4>3
    <3>3. SideBySide(p)'
      <4>1. SUFFICES ASSUME Asks(sausage(p)) PROVE SideBySide(p)'
        BY <1>3, <2>1 DEF SideBySide
      <4>2. Asks(bread(p))' /\ Asks(sausage(p))' /\ Asks(bread(p))
        BY <1>3, <2>1, <3>1, <3>2, <4>1
      <4>3. Ahead(sausage(p), bread(p))'
        BY <2>1, <4>1, <4>2, CookerOrder DEF InTurn, SideBySide, IInv
      <4>4. ASSUME NEW i \in Ingredients, Asks(i)', i[1] # p
            PROVE  Ahead(i, sausage(p))' \/ Ahead(bread(p), i)'
        <5>1. CASE i = b
          BY <5>1, <3>2, <4>1
        <5>2. CASE i # b
          <6>1. Ahead(i, sausage(p)) \/ Ahead(bread(p), i)
            BY <1>3, <4>1, <4>4, <5>2 DEF InTurn, SideBySide
          <6>2. QED
            BY <2>1, <4>2, <4>4, <6>1, CookerOrder DEF IInv
        <5>3. QED
          BY <5>1, <5>2
      <4>5. QED
        BY <4>2, <4>3, <4>4 DEF SideBySide
    <3>4. BreadIsNext(p)'
      <4>1. SUFFICES ASSUME HalfServed(p), NEW i \in Ingredients, Asks(i)', i[1] # p
                     PROVE  Asks(bread(p))' /\ Ahead(bread(p), i)'
        BY <1>3, <2>1, <3>1 DEF BreadIsNext, HalfServed
      <4>2. Asks(bread(p)) /\ Asks(bread(p))'
        BY <1>3, <2>1, <3>1, <3>2, <4>1
      <4>3. CASE i = b
        BY <4>1, <4>2, <4>3, <3>2
      <4>4. CASE i # b
        <5>1. Ahead(bread(p), i)
          BY <1>3, <4>1, <4>4 DEF InTurn, BreadIsNext
        <5>2. QED
          BY <2>1, <4>1, <4>2, <5>1, CookerOrder DEF IInv
      <4>5. QED
        BY <4>3, <4>4
    <3>5. QED
      BY <1>3, <2>1, <3>1, <3>3, <3>4 DEF InTurn
  <2>4. QED
    BY <2>2, <2>3
<1>6. QED
  BY <1>5 DEF InTurn

(***************************************************************************)
(* Nobody begins to ask: what asks keeps its place, and what stops asking  *)
(* had nobody ahead of it, which is never the bread before its sausage.    *)
(***************************************************************************)
LEMMA InTurnOther ==
  ASSUME IInv, InTurn, [Next]_vars, \A o \in Orders : ~StartFry(o) /\ ~StartBake(o)
  PROVE  InTurn'
<1> SUFFICES ASSUME NEW o \in Orders
             PROVE  /\ SideBySide(o)'
                    /\ BreadIsNext(o)'
                    /\ (Granted(bread(o)) => Granted(sausage(o)))'
  BY DEF InTurn
<1> DEFINE s == sausage(o)
           b == bread(o)
<1>1. s \in Ingredients /\ b \in Ingredients
  BY IngredientFacts
<1>2. \A i \in Ingredients : /\ use[i] = "idle" <=> use'[i] = "idle"
                             /\ Asks(i)' => Asks(i)
                             /\ Granted(i) => Granted(i)'
  BY OtherUse
<1>3. \A i, j \in Ingredients :
        /\ Ahead(i, j) /\ Asks(i)' /\ Asks(j)' => Ahead(i, j)'
        /\ Asks(j) /\ ~Asks(j)' => ~Ahead(i, j)
  BY CookerOrder DEF IInv
<1>4. /\ Asks(s) => (Asks(b) => Ahead(s, b))
      /\ Asks(s) => \A i \in Ingredients : Asks(i) /\ i[1] # o =>
                      Ahead(i, s) \/ (Asks(b) /\ Ahead(b, i))
      /\ Granted(s) /\ ~Granted(b) =>
           \A i \in Ingredients : Asks(i) /\ i[1] # o => Asks(b) /\ Ahead(b, i)
      /\ Granted(b) => Granted(s)
  BY DEF InTurn, SideBySide, BreadIsNext, HalfServed
<1>5. \A i \in Ingredients : /\ ~Granted(i)' /\ Asks(i) => Asks(i)'
                             /\ Granted(i)' /\ ~Granted(i) => Asks(i) /\ ~Asks(i)'
  <2>1. SUFFICES ASSUME NEW i \in Ingredients
                 PROVE  /\ ~Granted(i)' /\ Asks(i) => Asks(i)'
                        /\ Granted(i)' /\ ~Granted(i) => Asks(i) /\ ~Asks(i)'
    OBVIOUS
  <2>2. use[i] = "idle" <=> use'[i] = "idle"
    BY <1>2
  <2>3. QED
    BY <2>2 DEF Asks, Granted
<1>6. Started(b) => Started(s)
  BY BothAsked
<1>7. \A i \in {s, b} : (Started(i) <=> (Asks(i) \/ Granted(i))) /\ ~(Asks(i) /\ Granted(i))
  BY <1>1, PhaseSplit
<1> HIDE DEF s, b
<1>8. SideBySide(o)'
  <2>1. SUFFICES ASSUME Asks(s)'
                 PROVE  /\ Asks(b)' => Ahead(s, b)'
                        /\ \A i \in Ingredients : Asks(i)' /\ i[1] # o =>
                             Ahead(i, s)' \/ (Asks(b)' /\ Ahead(b, i)')
    BY DEF SideBySide, s, b
  <2>2. Asks(s) /\ (Asks(b) => Asks(b)')
    BY <1>1, <1>2, <1>3, <1>4, <2>1
  <2>3. QED
    BY <1>1, <1>2, <1>3, <1>4, <2>1, <2>2
<1>9. BreadIsNext(o)'
  <2>1. SUFFICES ASSUME Granted(s)', ~Granted(b)', NEW i \in Ingredients, Asks(i)', i[1] # o
                 PROVE  Asks(b)' /\ Ahead(b, i)'
    BY DEF BreadIsNext, HalfServed, s, b
  <2>2. Asks(i) /\ ~Granted(b)
    BY <1>1, <1>2, <2>1
  <2>3. Asks(b) /\ Ahead(b, i)
    <3>1. CASE Granted(s)
      BY <1>4, <2>1, <2>2, <3>1
    <3>2. CASE ~Granted(s)
      <4>1. Asks(s) /\ ~Asks(s)'
        BY <1>1, <1>5, <2>1, <3>2
      <4>2. QED
        BY <1>1, <1>3, <1>4, <2>1, <2>2, <4>1
    <3>3. QED
      BY <3>1, <3>2
  <2>4. Asks(b)'
    BY <1>1, <1>5, <2>1, <2>3
  <2>5. QED
    BY <1>1, <1>3, <2>1, <2>3, <2>4
<1>10. Granted(b)' => Granted(s)'
  <2>1. CASE Granted(b)
    BY <2>1, <1>1, <1>2, <1>4
  <2>2. SUFFICES ASSUME ~Granted(b), Granted(b)' PROVE Granted(s)
    BY <2>1, <1>1, <1>2
  <2>3. Asks(b) /\ ~Asks(b)'
    BY <1>1, <1>5, <2>2
  <2>4. ~Ahead(s, b)
    BY <1>1, <1>3, <2>3
  <2>5. QED
    BY <1>4, <1>6, <1>7, <2>3, <2>4
<1>11. QED
  BY <1>8, <1>9, <1>10 DEF s, b

LEMMA InTurnNext == IInv /\ InTurn /\ [Next]_vars => InTurn'
BY InTurnStartFry, InTurnStartBake, InTurnOther

\* Of two half-served orders each would have its bread before the other's.
LEMMA InTurnServes ==
  ASSUME IInv, InTurn
  PROVE  ServedInPairs
<1> SUFFICES ASSUME NEW o \in Orders, NEW p \in Orders, HalfServed(o), HalfServed(p), o # p
             PROVE  FALSE
  BY DEF ServedInPairs, InTurn
<1>1. /\ bread(o) \in Ingredients /\ bread(p) \in Ingredients
      /\ bread(o)[1] = o /\ bread(p)[1] = p
      /\ sausage(o) \in Ingredients /\ sausage(p) \in Ingredients
  BY IngredientFacts
<1>2. ~Asks(bread(o)) \/ ~Asks(bread(p))
  <2>1. SUFFICES ASSUME Asks(bread(o)), Asks(bread(p)) PROVE FALSE
    OBVIOUS
  <2>2. Ahead(bread(o), bread(p)) /\ Ahead(bread(p), bread(o))
    BY <1>1, <2>1 DEF InTurn, BreadIsNext
  <2>3. QED
    BY <1>1, <2>2, CookerAssumed, CookerProofs!AheadStrict DEF Ahead, IInv
<1>3. ~Asks(bread(o)) /\ ~Asks(bread(p))
  BY <1>1, <1>2 DEF InTurn, BreadIsNext
<1>4. \A q \in {o, p} : Started(sausage(q)) /\ ~Started(bread(q))
  <2>1. /\ Granted(sausage(o)) /\ ~Granted(bread(o))
        /\ Granted(sausage(p)) /\ ~Granted(bread(p))
    BY DEF HalfServed
  <2>2. QED
    BY <1>1, <1>3, <2>1, PhaseSplit
<1>5. o = Head(cafe_strand) /\ p = Head(cafe_strand)
  BY <1>4, BothAsked
<1>6. QED
  BY <1>5

(***************************************************************************)
(* Burners are given out order by order, sausage then bread, whatever the  *)
(* number of orders, threads and burners and however late the timers are   *)
(* (cafeteria.h:35-58, 100-103, gascooker.h:41-86).                        *)
(***************************************************************************)
THEOREM ServesInPairs == Spec => []ServedInPairs
<1>1. IInv /\ InTurn => ServedInPairs
  BY InTurnServes
<1>2. QED
  BY <1>1, InTurnInit, InTurnNext, Invariant, PTL DEF Spec

-----------------------------------------------------------------------------
\* The cafeteria keeps its cooker until it returns; only those the latch counts wait at it.
Attended ==
  /\ program # "returned" => owner
  /\ \A o \in Orders : lambda[o] = "waiting" => o \in 1..NumWaiting

LEMMA AttendedInit == Init => Attended
BY DEF Init, Cooker!Init, Attended

LEMMA AttendedNext == IInv /\ Attended /\ [Next]_vars => Attended'
<1> SUFFICES ASSUME IInv, Attended, [Next]_vars PROVE Attended'
  OBVIOUS
<1>1. lambda \in [Orders -> {"posted", "waiting", "ordered"}] /\ Orders = 1..NumOrders
  BY DEF IInv, Types, Orders
<1>2. UNCHANGED <<program, owner, lambda>> => Attended'
  BY DEF Attended
<1>3. ASSUME NEW o \in Orders, Arrive(o) \/ PassLatch(o) PROVE Attended'
  <2>1. program' = program /\ owner' = owner
    BY <1>3 DEF Arrive, PassLatch, cookerVars
  <2>2. ASSUME NEW p \in Orders, lambda'[p] = "waiting", lambda[p] # "waiting"
        PROVE  p \in 1..NumWaiting
    <3>1. Arrive(o) /\ o <= NumWaiting /\ p = o
      BY <1>1, <1>3, <2>2 DEF Arrive, PassLatch, OrderHotDog
    <3>2. QED
      BY <1>1, <3>1, Numbers
  <2>3. QED
    BY <2>1, <2>2 DEF Attended
<1>4. ASSUME NEW o \in Orders, StartFry(o) \/ StartBake(o) PROVE Attended'
  BY <1>2, <1>4 DEF StartFry, StartBake, Cooker!UseBurner
<1>5. ASSUME NEW i \in Ingredients, Handler(i) \/ Stop(i) PROVE Attended'
  BY <1>2, <1>5 DEF Handler, Stop, Cooker!RunHandler, Cooker!ReleaseBurner
<1>6. ASSUME NEW i \in Ingredients, Complete(i) PROVE Attended'
  <2>1. program' \in {program, "terminated"} /\ program = "running" /\ UNCHANGED <<owner, lambda>>
    BY <1>6 DEF Complete, cookerVars
  <2>2. QED
    BY <2>1 DEF Attended
<1>7. CASE CookerStep
  BY <1>2, <1>7 DEF CookerStep, Cooker!StrandStep, Cooker!Occupy, Cooker!Enqueue, Cooker!HandOver,
                    Cooker!FreeBurner, Cooker!Runs
<1>8. CASE Tick \/ Over \/ UNCHANGED vars
  BY <1>2, <1>8 DEF Tick, Over, vars, cookerVars
<1>9. CASE Return
  BY <1>9 DEF Return, Attended
<1>10. QED
  BY <1>3, <1>4, <1>5, <1>6, <1>7, <1>8, <1>9 DEF Next

\* A thread is free unless one is making or completing, or the latch is open to those that wait.
LEMMA ThreadToSpare ==
  ASSUME IInv, Attended, program = "running", ~Making, completing = {}, ~CanPass
  PROVE  FreeThread /\ (Waiting # {} => CanArrive)
<1>1. Busy = Cardinality(Waiting) /\ Cardinality(Waiting) \in Nat
  <2>1. Cardinality(completing) = 0 /\ Cardinality(Waiting) \in Nat
    BY FS_EmptySet, Counted DEF IInv
  <2>2. QED
    BY <2>1 DEF Busy
<1>2. CASE Waiting = {}
  <2>1. Cardinality(Waiting) = 0
    BY <1>2, FS_EmptySet
  <2>2. Busy < Workers
    BY <1>1, <2>1, Numbers
  <2>3. QED
    BY <1>2, <2>2 DEF FreeThread
<1>3. CASE Waiting # {}
  <2>1. latch # 0 /\ latch \in Nat
    BY <1>3 DEF CanPass, IInv, Types
  <2>2. Cardinality(Came) \in Nat /\ Cardinality(Came) < NumWaiting
    BY <2>1, Counted, Numbers DEF IInv, Threads
  <2>3. Waiting \subseteq Came
    BY DEF Waiting, Came, Attended
  <2>4. Cardinality(Waiting) <= Cardinality(Came)
    BY <2>3, Counted, FS_Subset DEF IInv
  <2>5. NumWaiting <= Workers
    BY CafeteriaAssumption DEF NumWaiting, Workers
  <2>6. FreeThread
    BY <1>1, <2>2, <2>4, <2>5, Numbers DEF FreeThread
  <2>7. \E o \in 1..NumWaiting : lambda[o] = "posted"
    <3>1. SUFFICES ASSUME \A o \in 1..NumWaiting : lambda[o] # "posted" PROVE FALSE
      OBVIOUS
    <3>2. Came = 1..NumWaiting
      BY <3>1 DEF Came
    <3>3. Cardinality(1..NumWaiting) = NumWaiting
      BY FS_Interval, Numbers
    <3>4. QED
      BY <2>2, <3>2, <3>3
  <2>8. 1..NumWaiting \subseteq Orders
    BY Numbers DEF Orders
  <2>9. QED
    BY <2>6, <2>7, <2>8 DEF CanArrive
<1>4. QED
  BY <1>2, <1>3

LEMMA GoesOn ==
  ASSUME IInv, Attended
  PROVE  CanGoOn
<1> SUFFICES ASSUME program = "running", ~CanArrive, ~CanPass, ~CanFry, ~CanBake, ~CanRunCooker,
                    ~CanHandle, ~CanStop, ~CanComplete, ~CanTick
             PROVE  NoWork
  BY DEF CanGoOn
<1>1. completing = {} /\ owner
  BY DEF CanComplete, Attended
<1>2. cafe_strand # <<>> =>
        /\ Head(cafe_strand) \in Orders
        /\ ~Started(bread(Head(cafe_strand)))
  <2>1. SUFFICES ASSUME cafe_strand # <<>>
                 PROVE  Head(cafe_strand) \in Orders /\ ~Started(bread(Head(cafe_strand)))
    OBVIOUS
  <2>2. cafe_strand \in Seq(Orders)
    BY DEF IInv, Types
  <2>3. 1 \in 1..Len(cafe_strand) /\ Head(cafe_strand) = cafe_strand[1] /\ Head(cafe_strand) \in Orders
    BY <2>1, <2>2, EmptySeq, LenProperties, HeadTailProperties
  <2>4. QED
    BY <2>3 DEF IInv, Line
<1>3. ~Making
  BY <1>1, <1>2 DEF CanBake, Making, Started
<1>4. FreeThread /\ Waiting = {}
  BY <1>1, <1>3, ThreadToSpare
<1>5. \A o \in Orders : lambda[o] = "ordered"
  BY <1>4 DEF CanArrive, Waiting, IInv, Types
<1>6. cafe_strand = <<>>
  BY <1>1, <1>3, <1>4 DEF CanFry, Making, Started
<1>7. strand = <<>>
  BY <1>4 DEF CanRunCooker
<1>8. \A i \in Ingredients : use[i] # "posted"
  BY <1>4 DEF CanHandle
<1>9. \A i \in Ingredients : use[i] # "cooking"
  <2>1. SUFFICES ASSUME NEW i \in Ingredients, use[i] = "cooking", ~(timer[i] < CookTime(i) + MaxLate)
                 PROVE  FALSE
    BY DEF CanTick
  <2>2. timer[i] \in Nat /\ CookTime(i) \in 2..3
    BY Numbers DEF IInv, Types
  <2>3. timer[i] >= CookTime(i)
    BY <2>1, <2>2, CafeteriaAssumption
  <2>4. QED
    BY <1>1, <1>4, <2>1, <2>3 DEF CanStop, Expired
<1>10. QED
  BY <1>1, <1>5, <1>6, <1>7, <1>8, <1>9 DEF NoWork

(***************************************************************************)
(* The latch and the pool of threads never block each other: whatever the  *)
(* numbers of threads and orders, until io has nothing left to do a thread *)
(* can take a job or go on with its own, or time brings a timer            *)
(* (main.cpp:69-90, 109-146).  This is the safety half of Finishes.        *)
(***************************************************************************)
THEOREM NeverStuck == Spec => []CanGoOn
<1>1. IInv /\ Attended => CanGoOn
  BY GoesOn
<1>2. QED
  BY <1>1, AttendedInit, AttendedNext, Invariant, PTL DEF Spec

(***************************************************************************)
(* What is proved of the cooker is true of it in the cafeteria: burners    *)
(* are counted right, no request is lost, the asserts hold, the destructor *)
(* finds it idle, and requests are granted first come, first served from a *)
(* pool of NumBurners (gascooker.h:35-86).                                 *)
(***************************************************************************)
THEOREM CookerServes ==
  Spec => /\ []CookerProofs!BurnersAccounted /\ []CookerProofs!NoLostRequest
          /\ []CookerProofs!AssertsHold /\ []CookerProofs!DestroyedIdle
          /\ CookerProofs!NoOvertaking /\ CookerProofs!ImplementsPool
<1>1. Init => CookerProofs!Init
  BY DEF Init, Cooker!Init, CookerProofs!Init
<1>2. [Next]_vars => [CookerProofs!Next]_(CookerProofs!vars)
  BY StepOfCooker
<1>3. Spec => CookerProofs!Spec
  BY <1>1, <1>2, PTL DEF Spec, CookerProofs!Spec
<1>4. CookerProofs!Spec => []CookerProofs!BurnersAccounted
  BY CookerAssumed, CookerProofs!AccountsBurners
<1>5. CookerProofs!Spec => []CookerProofs!NoLostRequest
  BY CookerAssumed, CookerProofs!LosesNoRequest
<1>6. CookerProofs!Spec => []CookerProofs!AssertsHold
  BY CookerAssumed, CookerProofs!AssertsNeverFire
<1>7. CookerProofs!Spec => []CookerProofs!DestroyedIdle
  BY CookerAssumed, CookerProofs!DestroysIdle
<1>8. CookerProofs!Spec => CookerProofs!NoOvertaking
  BY CookerAssumed, CookerProofs!GrantsInOrder
<1>9. CookerProofs!Spec => CookerProofs!ImplementsPool
  BY CookerAssumed, CookerProofs!Implements
<1>10. QED
  BY <1>3, <1>4, <1>5, <1>6, <1>7, <1>8, <1>9, PTL
=============================================================================
