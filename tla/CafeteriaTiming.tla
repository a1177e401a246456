--------------------------- MODULE CafeteriaTiming --------------------------
(***************************************************************************)
(* How long cafeteria/solution/src/main.cpp takes: the instance of main(), *)
(* seen only as the burners' timetable.                                    *)
(*                                                                         *)
(* Burners are given out order by order, the sausage's and then the        *)
(* bread's (Cafeteria's ServedInPairs), first come, first served           *)
(* (GasCooker's NoOvertaking); so the deque holds sausages and breads in   *)
(* turn.  All requests are made before the first timer expires, and a      *)
(* burner that is released goes to the next request at once: what the      *)
(* threads need for all this counts as lateness of the timer that follows. *)
(* Ticks are of 100 ms.                                                    *)
(***************************************************************************)
EXTENDS Naturals, FiniteSets

CONSTANTS
  NumOrders,    \* num_orders
  NumBurners,   \* number_of_burners_
  MaxLate       \* how late, in ticks, a timer's handler may run

ASSUME TimingAssumption ==
  /\ NumOrders \in Nat \ {0}
  /\ NumBurners \in Nat \ {0}
  /\ MaxLate \in Nat

SausageTime == 15    \* sausage_timer_.expires_after(1500ms)

\* Mutant: StartBake's handler sets the sausage's time.
BreadTime_Sausage == 15

BreadTime == 10      \* bread_timer_.expires_after(1000ms)

VARIABLES
  clock,    \* ticks since main's start_time
  granted,  \* requests that have been given a burner
  cooking   \* cooking[t]: burners whose timer's handler runs in t ticks at the latest

vars == <<clock, granted, cooking>>

Times == 0..(SausageTime + MaxLate)

\* One element for each burner in use; the first part is when its handler has run.
Burning ==
  {b \in (clock .. clock + SausageTime + MaxLate) \X (1..NumBurners) : b[2] <= cooking[b[1] - clock]}
BurnersInUse == Cardinality(Burning)
Done == granted = 2 * NumOrders /\ BurnersInUse = 0

TypeOK ==
  /\ clock \in Nat
  /\ granted \in 0..(2 * NumOrders)
  /\ cooking \in [Times -> 0..NumBurners]
  /\ BurnersInUse <= NumBurners

Init == clock = 0 /\ granted = 0 /\ cooking = [t \in Times |-> 0]

\* The deque's first request gets a burner; its handler arms the timer.
CookTime(request) == IF request % 2 = 0 THEN SausageTime ELSE BreadTime

TakeBurner ==
  /\ granted < 2 * NumOrders
  /\ granted' = granted + 1
  /\ cooking' = [cooking EXCEPT ![CookTime(granted) + MaxLate] = @ + 1]
  /\ UNCHANGED clock

Grant == BurnersInUse < NumBurners /\ TakeBurner

\* A timer's handler runs, on time or late: StopFry or StopBake.
Release(t) ==
  /\ t <= MaxLate
  /\ cooking[t] > 0
  /\ cooking' = [cooking EXCEPT ![t] = @ - 1]
  /\ UNCHANGED <<clock, granted>>

\* 100 ms pass, unless a burner is about to be taken or a handler is due.
Tick ==
  /\ ~Done
  /\ granted = 2 * NumOrders \/ BurnersInUse = NumBurners
  /\ cooking[0] = 0
  /\ clock' = clock + 1
  /\ cooking' = [t \in Times |-> IF t + 1 \in Times THEN cooking[t + 1] ELSE 0]
  /\ UNCHANGED granted

Finished == Done /\ UNCHANGED vars

Next == Grant \/ (\E t \in Times : Release(t)) \/ Tick \/ Finished

Spec == Init /\ [][Next]_vars

-----------------------------------------------------------------------------
(***************************************************************************)
(* main's assertion on cook_duration (main.cpp:150-153): twenty hot dogs   *)
(* take at least 7 s, and at most 7.5 s when no timer is handled more than *)
(* 100 ms late.  Waiting on the deque, the order of the requests and the   *)
(* lateness that adds up along a burner all count.                         *)
(***************************************************************************)
CookDuration == clock <= 75 /\ (Done => clock >= 70)
=============================================================================
