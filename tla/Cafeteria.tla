----------------------------- MODULE Cafeteria ------------------------------
(***************************************************************************)
(* cafeteria/solution/src: main.cpp's PrepareHotDogs, cafeteria.h (Order,  *)
(* Cafeteria), ingredients.h (Sausage, Bread) and hotdog.h, around the     *)
(* cooker of GasCooker.tla.                                                *)
(*                                                                         *)
(* One lambda per order is dispatched to io before any thread runs it; the *)
(* first NumWaiting of them wait for each other at a latch.  Each calls    *)
(* OrderHotDog, which posts to the cafeteria's strand; there the order is  *)
(* made: StartFry, then StartBake.  The cooker posts the ingredient's      *)
(* handler once a burner is taken; it stamps the start time and arms a     *)
(* timer on the order's strand.  The timer's handler stamps the end time,  *)
(* unlocks the burner and calls Complete: the second of the two makes the  *)
(* hot dog.  HotDog's constructor throws when a cooking time is out of     *)
(* range, nothing catches, and the program terminates.  When no work is    *)
(* left io.run() returns on every thread and the cafeteria is destroyed.   *)
(*                                                                         *)
(* Time passes in ticks of 500 ms.  A timer never fires early; it fires    *)
(* at most MaxLate ticks late, which is what the machine is trusted with.  *)
(* Jobs of io start in any order, each on a free thread.                   *)
(***************************************************************************)
EXTENDS Naturals, Sequences, FiniteSets

CONSTANTS
  NumOrders,    \* num_orders
  NumThreads,   \* num_threads
  NumBurners,   \* number_of_burners_
  MaxLate       \* how late, in ticks, a timer's handler may run

ASSUME CafeteriaAssumption ==
  /\ NumOrders \in Nat
  /\ NumThreads \in Nat
  /\ NumBurners \in Nat \ {0}
  /\ MaxLate \in Nat

Orders == 1..NumOrders
Ingredients == Orders \X {"sausage", "bread"}
sausage(o) == <<o, "sausage">>
bread(o) == <<o, "bread">>

VARIABLES
  strand, burners_in_use, pending_handlers, use, owner,  \* the GasCooker
  lambda,       \* where main's lambda for each order is
  latch,        \* start, how many threads are still to arrive
  cafe_strand,  \* orders posted to the cafeteria's strand; the first is in the making
  age,          \* ticks from the stamped start time to now or to the end time
  timer,        \* ticks since the ingredient's timer was armed
  completing,   \* ingredients whose timer's handler has yet to call Complete
  answers,      \* how often each order's handler was called
  program       \* running, returned (from PrepareHotDogs) or terminated

cookerVars == <<strand, burners_in_use, pending_handlers, use, owner>>
vars == <<cookerVars, lambda, latch, cafe_strand, age, timer, completing, answers, program>>

Cooker == INSTANCE GasCooker WITH Users <- Ingredients

-----------------------------------------------------------------------------
\* RunWorkers starts at least one thread.
Workers == IF NumThreads > 1 THEN NumThreads ELSE 1

\* Mutant: every order waits for every other, however few threads there are.
NumWaiting_AllOrders == NumOrders

\* Mutant: every thread is to wait, however few orders there are.
NumWaiting_NoMin == NumThreads

\* std::min<int>(num_threads, num_orders)
NumWaiting == IF NumThreads < NumOrders THEN NumThreads ELSE NumOrders

\* Cooking times in ticks: the timers' and the longest a hot dog accepts.
CookTime(i) == IF i[2] = "sausage" THEN 3 ELSE 2
MaxTime(i) == CookTime(i) + 1

\* Bound: ages past the point where nothing tells them apart are not counted.
AgeBound == 5

\* StartFry / StartBake and StopFry / StopBake have been called.
Started(i) == use[i] # "idle"
IsCooked(i) == use[i] \in {"releasing", "done"}

Making == cafe_strand # <<>> /\ Started(sausage(Head(cafe_strand)))
Waiting == {o \in Orders : lambda[o] = "waiting"}
Busy == Cardinality(Waiting) + Cardinality(completing) + (IF Making THEN 1 ELSE 0)
FreeThread == program = "running" /\ Busy < Workers

TypeOK ==
  /\ Cooker!TypeOK
  /\ lambda \in [Orders -> {"posted", "waiting", "ordered"}]
  /\ latch \in 0..NumWaiting
  /\ cafe_strand \in Seq(Orders)
  /\ age \in [Ingredients -> 0..AgeBound]
  /\ timer \in [Ingredients -> 0..AgeBound]
  /\ completing \in SUBSET Ingredients
  /\ answers \in [Orders -> Nat]
  /\ program \in {"running", "returned", "terminated"}
  /\ Busy \in 0..Workers

Init ==
  /\ Cooker!Init
  /\ lambda = [o \in Orders |-> "posted"]
  /\ latch = NumWaiting
  /\ cafe_strand = <<>>
  /\ age = [i \in Ingredients |-> 0]
  /\ timer = [i \in Ingredients |-> 0]
  /\ completing = {}
  /\ answers = [o \in Orders |-> 0]
  /\ program = "running"

-----------------------------------------------------------------------------
\* OrderHotDog: the order is posted to the cafeteria's strand.
OrderHotDog(o) ==
  /\ lambda' = [lambda EXCEPT ![o] = "ordered"]
  /\ cafe_strand' = Append(cafe_strand, o)

\* Mutant: every order counts the latch down.
Arrive_CountAll(o) ==
  /\ FreeThread
  /\ lambda[o] = "posted"
  /\ latch' = latch - 1
  /\ IF o <= NumWaiting
       THEN /\ lambda' = [lambda EXCEPT ![o] = "waiting"]
            /\ UNCHANGED cafe_strand
       ELSE OrderHotDog(o)
  /\ UNCHANGED <<cookerVars, age, timer, completing, answers, program>>

\* A thread takes main's lambda for o and, if it is an early one, waits.
Arrive(o) ==
  /\ FreeThread
  /\ lambda[o] = "posted"
  /\ IF o <= NumWaiting
       THEN /\ latch' = latch - 1
            /\ lambda' = [lambda EXCEPT ![o] = "waiting"]
            /\ UNCHANGED cafe_strand
       ELSE OrderHotDog(o) /\ UNCHANGED latch
  /\ UNCHANGED <<cookerVars, age, timer, completing, answers, program>>

\* The latch is open and a thread that waited goes on.
PassLatch(o) ==
  /\ program = "running"
  /\ lambda[o] = "waiting"
  /\ latch = 0
  /\ OrderHotDog(o)
  /\ UNCHANGED <<cookerVars, latch, age, timer, completing, answers, program>>

\* The cafeteria's strand makes the order posted first, beginning with StartFry.
StartFry(o) ==
  /\ FreeThread
  /\ cafe_strand # <<>> /\ o = Head(cafe_strand)
  /\ Cooker!UseBurner(sausage(o))
  /\ UNCHANGED <<lambda, latch, cafe_strand, age, timer, completing, answers, program>>

\* The same lambda goes on with StartBake and ends.
StartBake(o) ==
  /\ program = "running"
  /\ Making /\ o = Head(cafe_strand)
  /\ Cooker!UseBurner(bread(o))
  /\ cafe_strand' = Tail(cafe_strand)
  /\ UNCHANGED <<lambda, latch, age, timer, completing, answers, program>>

(***************************************************************************)
(* The cooker's strand runs a lambda, on a thread of its own or inside the *)
(* dispatch of the thread that makes an order or stops an ingredient.      *)
(***************************************************************************)
CookerStep ==
  /\ program = "running"
  /\ FreeThread \/ Making \/ completing # {}
  /\ Cooker!StrandStep
  /\ UNCHANGED <<lambda, latch, cafe_strand, age, timer, completing, answers, program>>

\* Mutant: the start time stays what StartFry / StartBake stamped.
Handler_NoStamp(i) ==
  /\ FreeThread
  /\ Cooker!RunHandler(i)
  /\ timer' = [timer EXCEPT ![i] = 0]
  /\ UNCHANGED <<lambda, latch, cafe_strand, age, completing, answers, program>>

\* The handler the cooker posted: stamp the start time again, arm the timer.
Handler(i) ==
  /\ FreeThread
  /\ Cooker!RunHandler(i)
  /\ age' = [age EXCEPT ![i] = 0]
  /\ timer' = [timer EXCEPT ![i] = 0]
  /\ UNCHANGED <<lambda, latch, cafe_strand, completing, answers, program>>

Expired(i) == use[i] = "cooking" /\ timer[i] >= CookTime(i)

\* Mutant: the timers are made from io_, so their handlers run in parallel.
Stop_NoStrand(i) ==
  /\ FreeThread
  /\ Expired(i)
  /\ Cooker!ReleaseBurner(i)
  /\ completing' = completing \cup {i}
  /\ UNCHANGED <<lambda, latch, cafe_strand, age, timer, answers, program>>

\* Mutant: the burner is not unlocked.
Stop_NoUnlock(i) ==
  /\ FreeThread
  /\ Expired(i)
  /\ \A j \in completing : j[1] # i[1]
  /\ use' = [use EXCEPT ![i] = "done"]
  /\ completing' = completing \cup {i}
  /\ UNCHANGED <<strand, burners_in_use, pending_handlers, owner,
                 lambda, latch, cafe_strand, age, timer, answers, program>>

\* The timer's handler on the order's strand: StopFry or StopBake.
Stop(i) ==
  /\ FreeThread
  /\ Expired(i)
  /\ \A j \in completing : j[1] # i[1]
  /\ Cooker!ReleaseBurner(i)
  /\ completing' = completing \cup {i}
  /\ UNCHANGED <<lambda, latch, cafe_strand, age, timer, answers, program>>

\* What HotDog's constructor accepts.
InRange(i) == age[i] \in CookTime(i)..MaxTime(i)

\* The same handler: Complete.  Only the second ingredient finds both cooked.
Complete(i) ==
  LET o == i[1] IN
  /\ program = "running"
  /\ i \in completing
  /\ completing' = completing \ {i}
  /\ \/ /\ ~(IsCooked(sausage(o)) /\ IsCooked(bread(o)))
        /\ UNCHANGED <<answers, program>>
     \/ /\ IsCooked(sausage(o)) /\ IsCooked(bread(o))
        /\ InRange(sausage(o)) /\ InRange(bread(o))
        /\ answers' = [answers EXCEPT ![o] = @ + 1]
        /\ UNCHANGED program
     \/ /\ IsCooked(sausage(o)) /\ IsCooked(bread(o))
        /\ ~(InRange(sausage(o)) /\ InRange(bread(o)))
        /\ program' = "terminated"
        /\ UNCHANGED answers
  /\ UNCHANGED <<cookerVars, lambda, latch, cafe_strand, age, timer>>

\* 500 ms pass, unless a timer would be later than the machine lets it be.
Tick ==
  /\ program = "running"
  /\ \A i \in Ingredients : use[i] = "cooking" => timer[i] < CookTime(i) + MaxLate
  /\ age' = [i \in Ingredients |->
               IF Started(i) /\ ~IsCooked(i) /\ age[i] < AgeBound THEN age[i] + 1 ELSE age[i]]
  /\ timer' = [i \in Ingredients |-> IF use[i] = "cooking" THEN timer[i] + 1 ELSE timer[i]]
  /\ UNCHANGED <<cookerVars, lambda, latch, cafe_strand, completing, answers, program>>

(***************************************************************************)
(* io has nothing left to do.  A handler in pending_handlers_ is not known *)
(* to io and does not keep it running.                                     *)
(***************************************************************************)
NoWork ==
  /\ \A o \in Orders : lambda[o] = "ordered"
  /\ cafe_strand = <<>> /\ completing = {} /\ strand = <<>>
  /\ \A i \in Ingredients : use[i] \notin {"posted", "cooking"}

\* io.run() returns everywhere; the cafeteria and the last Order are gone.
Return ==
  /\ program = "running"
  /\ NoWork
  /\ program' = "returned"
  /\ Cooker!DropOwner
  /\ UNCHANGED <<lambda, latch, cafe_strand, age, timer, completing, answers>>

Over == program # "running" /\ UNCHANGED vars

Next ==
  \/ \E o \in Orders : Arrive(o) \/ PassLatch(o) \/ StartFry(o) \/ StartBake(o)
  \/ CookerStep
  \/ \E i \in Ingredients : Handler(i) \/ Stop(i) \/ Complete(i)
  \/ Tick
  \/ Return
  \/ Over

Spec == Init /\ [][Next]_vars

(***************************************************************************)
(* io's queue is first in first out, every thread keeps running it until   *)
(* no work is left, and time passes.                                       *)
(***************************************************************************)
Fairness ==
  /\ \A o \in Orders : /\ WF_vars(Arrive(o)) /\ WF_vars(PassLatch(o))
                       /\ WF_vars(StartFry(o)) /\ WF_vars(StartBake(o))
  /\ WF_vars(CookerStep)
  /\ \A i \in Ingredients : WF_vars(Handler(i)) /\ WF_vars(Stop(i)) /\ WF_vars(Complete(i))
  /\ WF_vars(Tick)
  /\ WF_vars(Return)

FairSpec == Spec /\ Fairness

-----------------------------------------------------------------------------
(***************************************************************************)
(* An order's handler is called at most once: two timers fire, and the     *)
(* order's strand lets only the second handler see both ingredients cooked *)
(* (cafeteria.h:62-69, 78-80).                                             *)
(***************************************************************************)
HandlerOncePerOrder == \A o \in Orders : answers[o] <= 1

(***************************************************************************)
(* When PrepareHotDogs returns every order has its hot dog (main.cpp:148), *)
(* every burner is free (~GasCooker, gascooker.h:35) and no handler is     *)
(* left in pending_handlers_, although io does not wait for those.         *)
(***************************************************************************)
CleanExit ==
  program = "returned" =>
    /\ \A o \in Orders : answers[o] = 1
    /\ burners_in_use = 0
    /\ pending_handlers = <<>>

(***************************************************************************)
(* On a machine whose timers are less than a tick late no hot dog is       *)
(* rejected, however long its ingredients waited for a burner: the time in *)
(* the queue does not count (ingredients.h:39-43, hotdog.h:29-37).         *)
(***************************************************************************)
NeverSpoiled == program # "terminated"

(***************************************************************************)
(* Burners are given out order by order, first the sausage's and then the  *)
(* bread's: while one order waits for its second burner no other gets its  *)
(* first.  Orders are placed from any thread; it takes the cafeteria's     *)
(* strand to ask for the two together and the cooker's strand and deque to *)
(* keep them together (cafeteria.h:35-58, 100-103, gascooker.h:41-86).      *)
(***************************************************************************)
Granted(i) == use[i] \notin {"idle", "requested"}
HalfServed(o) == Granted(sausage(o)) /\ ~Granted(bread(o))

ServedInPairs ==
  /\ \A o \in Orders : Granted(bread(o)) => Granted(sausage(o))
  /\ \A o, p \in Orders : HalfServed(o) /\ HalfServed(p) => o = p

(***************************************************************************)
(* PrepareHotDogs is never stuck: until io has nothing left to do a thread *)
(* can take a job or go on with its own, or time brings a timer.  Threads  *)
(* wait at the latch only while one more can come (main.cpp:69-90), and a  *)
(* lambda never finds its burner already asked for or released, where the  *)
(* cooker's guards would stop it.  Time alone is no way on: it counts only *)
(* while something cooks.                                                  *)
(***************************************************************************)
CanArrive == FreeThread /\ \E o \in Orders : lambda[o] = "posted"
CanPass == latch = 0 /\ Waiting # {}
CanFry == FreeThread /\ cafe_strand # <<>> /\ owner /\ use[sausage(Head(cafe_strand))] = "idle"
CanBake == Making /\ owner /\ use[bread(Head(cafe_strand))] = "idle"
CanRunCooker == (FreeThread \/ Making \/ completing # {}) /\ strand # <<>>
CanHandle == FreeThread /\ \E i \in Ingredients : use[i] = "posted"
CanStop ==
  FreeThread /\ \E i \in Ingredients : Expired(i) /\ \A j \in completing : j[1] # i[1]
CanComplete == completing # {}
CanTick ==
  /\ \E i \in Ingredients : use[i] = "cooking"
  /\ \A i \in Ingredients : use[i] = "cooking" => timer[i] < CookTime(i) + MaxLate

CanGoOn ==
  program = "running" =>
    \/ CanArrive \/ CanPass \/ CanFry \/ CanBake \/ CanRunCooker
    \/ CanHandle \/ CanStop \/ CanComplete \/ CanTick \/ NoWork

(***************************************************************************)
(* The program comes to an end, whatever the numbers of threads and        *)
(* orders: the latch opens (main.cpp:69-90), and io.run() returns on every *)
(* thread (main.cpp:100), with a hot dog for each order unless one was     *)
(* rejected, which ends the program.                                       *)
(***************************************************************************)
Finishes ==
  <>(\/ program = "terminated"
     \/ program = "returned" /\ \A o \in Orders : answers[o] = 1)

(***************************************************************************)
(* Every order that was placed gets an answer, a hot dog or an error: its  *)
(* handler takes a Result<HotDog> and main prints both (cafeteria.h:92,    *)
(* main.cpp:41-55).                                                        *)
(***************************************************************************)
EveryOrderAnswered ==
  \A o \in Orders : lambda[o] = "ordered" ~> answers[o] = 1
=============================================================================
