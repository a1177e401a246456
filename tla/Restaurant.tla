----------------------------- MODULE Restaurant -----------------------------
(***************************************************************************)
(* restaurant_single_threaded/solution/src/main.cpp: hamburgers made by    *)
(* timers' handlers on the one thread that runs io.                        *)
(*                                                                         *)
(* main places every order before io.run(); an order's Execute arms the    *)
(* roast timer and, for an order with onion, the marinade timer.  Each     *)
(* timer's handler is one atomic action: there is one thread.  Handlers    *)
(* whose timers have expired run in any order, and asio may hand either an *)
(* error, at any time.  Time passes in ticks of 500 ms: while the thread   *)
(* has nothing to do, and during Pack, which spins for one tick.           *)
(***************************************************************************)
EXTENDS Naturals, FiniteSets

CONSTANTS
  NumOrders,    \* calls of MakeHamburger
  OnionOrders,  \* those with with_onion
  MayFail       \* whether a timer's wait may end with an error

ASSUME RestaurantAssumption ==
  /\ NumOrders \in Nat
  /\ OnionOrders \subseteq 1..NumOrders
  /\ MayFail \in BOOLEAN

Orders == 1..NumOrders

\* Bound of the clock: the longest timer, and one Pack for every order.
RoastTime == 2
MarinadeTime == 4
ClockBound == MarinadeTime + NumOrders

VARIABLES
  next_order_id,    \* next_order_id_, orders placed so far
  clock,            \* ticks since the orders were placed
  roast,            \* each order's roast_timer_: none, armed, done
  marinade,         \* each order's marinade_timer_
  hamburger,        \* each order's hamburger_
  onion_marinaded,  \* onion_marinaded_
  delivered,        \* delivered_
  calls,            \* how often the client's handler was called for an order
  orders,           \* main's map: the first result of each order, or none
  program           \* setup, running, returned (from io.run) or terminated

vars == <<next_order_id, clock, roast, marinade, hamburger, onion_marinaded,
          delivered, calls, orders, program>>

Timers == {"none", "armed", "done"}
Hamburgers == [cutlet_roasted : BOOLEAN, has_onion : BOOLEAN, is_packed : BOOLEAN]
RawBurger == [cutlet_roasted |-> FALSE, has_onion |-> FALSE, is_packed |-> FALSE]
Results == [ec : BOOLEAN, hamburger : Hamburgers]
NoResult == [ec |-> FALSE, hamburger |-> RawBurger]

TypeOK ==
  /\ next_order_id \in 0..NumOrders
  /\ clock \in 0..ClockBound
  /\ roast \in [Orders -> Timers]
  /\ marinade \in [Orders -> Timers]
  /\ hamburger \in [Orders -> Hamburgers]
  /\ onion_marinaded \in [Orders -> BOOLEAN]
  /\ delivered \in [Orders -> BOOLEAN]
  /\ calls \in [Orders -> Nat]
  /\ orders \in [Orders -> Results]
  /\ program \in {"setup", "running", "returned", "terminated"}

Init ==
  /\ next_order_id = 0
  /\ clock = 0
  /\ roast = [o \in Orders |-> "none"]
  /\ marinade = [o \in Orders |-> "none"]
  /\ hamburger = [o \in Orders |-> RawBurger]
  /\ onion_marinaded = [o \in Orders |-> FALSE]
  /\ delivered = [o \in Orders |-> FALSE]
  /\ calls = [o \in Orders |-> 0]
  /\ orders = [o \in Orders |-> NoResult]
  /\ program = "setup"

-----------------------------------------------------------------------------
\* Restaurant::MakeHamburger and Order::Execute.
PlaceOrder(limit) ==
  LET o == next_order_id + 1 IN
  /\ program = "setup"
  /\ next_order_id < limit
  /\ next_order_id' = o
  /\ roast' = [roast EXCEPT ![o] = "armed"]
  /\ marinade' = IF o \in OnionOrders THEN [marinade EXCEPT ![o] = "armed"] ELSE marinade
  /\ UNCHANGED <<clock, hamburger, onion_marinaded, delivered, calls, orders, program>>

\* Mutant: main places one order too many.
MakeHamburger_OneMore == PlaceOrder(NumOrders + 1)

MakeHamburger == PlaceOrder(NumOrders)

\* main calls io.run().
Run ==
  /\ program = "setup"
  /\ next_order_id = NumOrders
  /\ program' = "running"
  /\ UNCHANGED <<next_order_id, clock, roast, marinade, hamburger, onion_marinaded,
                 delivered, calls, orders>>

(***************************************************************************)
(* Order::Deliver and main's handle_result: emplace keeps the first result *)
(* of an id, so a second delivery would not show in the map.               *)
(***************************************************************************)
Deliver(o, ec, h) ==
  /\ delivered' = [delivered EXCEPT ![o] = TRUE]
  /\ calls' = [calls EXCEPT ![o] = @ + 1]
  /\ orders' = IF calls[o] > 0 THEN orders
               ELSE [orders EXCEPT ![o] = [ec |-> ec, hamburger |-> IF ec THEN RawBurger ELSE h]]

\* Mutant: the onion may be added to a raw cutlet.
CanAddOnion_Raw(h, marinaded) == marinaded /\ ~h.has_onion

CanAddOnion(h, marinaded) == h.cutlet_roasted /\ marinaded /\ ~h.has_onion

\* Mutant: the hamburger is packed as soon as the cutlet is roasted.
IsReadyToPack_NoOnion(o, h) == h.cutlet_roasted

IsReadyToPack(o, h) == h.cutlet_roasted /\ (o \notin OnionOrders \/ h.has_onion)

\* AddOnion and AssureCutletRoasted throw a logic_error that nobody catches.
AddOnionThrows(h) == h.is_packed \/ ~h.cutlet_roasted

\* The order has been delivered: nothing more is done.
Ignore(o, h) ==
  /\ hamburger' = [hamburger EXCEPT ![o] = h]
  /\ UNCHANGED <<clock, delivered, calls, orders, program>>

\* The client hears of the error.
DeliverError(o, h) ==
  /\ Deliver(o, TRUE, h)
  /\ hamburger' = [hamburger EXCEPT ![o] = h]
  /\ UNCHANGED <<clock, program>>

\* The onion is added and the hamburger packed and delivered, as far as they are due.
Proceed(o, h, marinaded) ==
  LET adds == CanAddOnion(h, marinaded)
      g == [h EXCEPT !.has_onion = @ \/ adds]
      throws == adds /\ AddOnionThrows(h)
      packs == ~throws /\ IsReadyToPack(o, g)
      result == [g EXCEPT !.is_packed = @ \/ packs]
  IN
  /\ hamburger' = [hamburger EXCEPT ![o] = IF throws THEN h ELSE result]
  /\ program' = IF throws THEN "terminated" ELSE program
  /\ clock' = IF packs THEN clock + 1 ELSE clock
  /\ IF packs THEN Deliver(o, FALSE, result)
              ELSE UNCHANGED <<delivered, calls, orders>>

\* Mutant: an order that has been delivered is looked at again.
CheckReadiness_NoGuard(o, ec, h, marinaded) ==
  \/ ec /\ DeliverError(o, h)
  \/ ~ec /\ Proceed(o, h, marinaded)

\* Mutant: an error is logged and not delivered.
CheckReadiness_DropsError(o, ec, h, marinaded) ==
  \/ (delivered[o] \/ ec) /\ Ignore(o, h)
  \/ ~delivered[o] /\ ~ec /\ Proceed(o, h, marinaded)

(***************************************************************************)
(* Order::CheckReadiness with the hamburger h and the onion as the handler *)
(* has just left them.                                                     *)
(***************************************************************************)
CheckReadiness(o, ec, h, marinaded) ==
  \/ delivered[o] /\ Ignore(o, h)
  \/ ~delivered[o] /\ ec /\ DeliverError(o, h)
  \/ ~delivered[o] /\ ~ec /\ Proceed(o, h, marinaded)

RoastDue(o) == roast[o] = "armed" /\ clock >= RoastTime
MarinadeDue(o) == marinade[o] = "armed" /\ clock >= MarinadeTime

(***************************************************************************)
(* Order::OnRoasted.  SetCutletRoasted throws for a cutlet that is roasted *)
(* already; the timer fires once.                                          *)
(***************************************************************************)
OnRoasted(o, ec) ==
  /\ program = "running"
  /\ RoastDue(o) \/ (ec /\ roast[o] = "armed")
  /\ roast' = [roast EXCEPT ![o] = "done"]
  /\ CheckReadiness(o, ec, [hamburger[o] EXCEPT !.cutlet_roasted = @ \/ ~ec], onion_marinaded[o])
  /\ UNCHANGED <<next_order_id, marinade, onion_marinaded>>

\* Order::OnOnionMarinaded.
OnOnionMarinaded(o, ec) ==
  /\ program = "running"
  /\ MarinadeDue(o) \/ (ec /\ marinade[o] = "armed")
  /\ marinade' = [marinade EXCEPT ![o] = "done"]
  /\ onion_marinaded' = [onion_marinaded EXCEPT ![o] = @ \/ ~ec]
  /\ CheckReadiness(o, ec, hamburger[o], onion_marinaded'[o])
  /\ UNCHANGED <<next_order_id, roast>>

Outcomes == IF MayFail THEN BOOLEAN ELSE {FALSE}
Armed(o) == roast[o] = "armed" \/ marinade[o] = "armed"

\* The thread waits for the next timer.
Wait ==
  /\ program = "running"
  /\ \E o \in Orders : Armed(o)
  /\ \A o \in Orders : ~RoastDue(o) /\ ~MarinadeDue(o)
  /\ clock' = clock + 1
  /\ UNCHANGED <<next_order_id, roast, marinade, hamburger, onion_marinaded,
                 delivered, calls, orders, program>>

\* io.run() returns when no timer is left.
Return ==
  /\ program = "running"
  /\ \A o \in Orders : ~Armed(o)
  /\ program' = "returned"
  /\ UNCHANGED <<next_order_id, clock, roast, marinade, hamburger, onion_marinaded,
                 delivered, calls, orders>>

Over == program \in {"returned", "terminated"} /\ UNCHANGED vars

Next ==
  \/ MakeHamburger
  \/ Run
  \/ \E o \in Orders, ec \in Outcomes : OnRoasted(o, ec) \/ OnOnionMarinaded(o, ec)
  \/ Wait
  \/ Return
  \/ Over

Spec == Init /\ [][Next]_vars

\* main goes on, and the thread keeps running io until no timer is left.
FairSpec == Spec /\ WF_vars(Next)

-----------------------------------------------------------------------------
(***************************************************************************)
(* The client hears of an order at most once, whichever of its two timers  *)
(* fails and in whichever order they fire (delivered_, main.cpp:153-180).  *)
(***************************************************************************)
DeliveredOnce == \A o \in Orders : calls[o] <= 1

(***************************************************************************)
(* Every client gets what was ordered or an error: a delivered hamburger   *)
(* is roasted and packed and has onion just when it was asked for          *)
(* (main.cpp:265-280), although onion and cutlet finish in either order.   *)
(***************************************************************************)
AsOrdered ==
  \A o \in Orders : calls[o] > 0 /\ ~orders[o].ec =>
    /\ orders[o].hamburger.cutlet_roasted
    /\ orders[o].hamburger.is_packed
    /\ orders[o].hamburger.has_onion <=> o \in OnionOrders

(***************************************************************************)
(* None of Hamburger's preconditions is violated: no logic_error escapes   *)
(* io.run() (main.cpp:36-58).                                              *)
(***************************************************************************)
NeverThrows == program # "terminated"

(***************************************************************************)
(* When io.run() returns every order has been delivered (main.cpp:263).    *)
(***************************************************************************)
AllDelivered == program = "returned" => \A o \in Orders : calls[o] = 1

(***************************************************************************)
(* Packing one order delays the others, but only by one spin each: every   *)
(* order is delivered and io.run() returns, before ClockBound (TypeOK).    *)
(***************************************************************************)
Finishes == <>(program = "returned")
=============================================================================
