-------------------------- MODULE RestaurantProofs --------------------------
(***************************************************************************)
(* Proofs about Restaurant, for any number of orders, with onion or not,   *)
(* whether or not timers fail.                                             *)
(***************************************************************************)
EXTENDS Restaurant, FiniteSetTheorems, TLAPS

\* What the client has been told is either an error or the hamburger ordered.
Told(o) ==
  orders[o].ec \/ /\ orders[o].hamburger.cutlet_roasted
                  /\ orders[o].hamburger.is_packed
                  /\ orders[o].hamburger.has_onion <=> o \in OnionOrders

\* Everything that delivery waits for is there.
AllThere(o) ==
  hamburger[o].cutlet_roasted /\ (o \in OnionOrders => onion_marinaded[o])

(***************************************************************************)
(* How far an order is.  An order that is not delivered has nothing on its *)
(* cutlet and lacks something, and what it lacks has a timer to come: a    *)
(* timer that is done has left its ingredient, or an error was delivered.  *)
(***************************************************************************)
Stage(o) ==
  /\ roast[o] # "none" <=> o <= next_order_id
  /\ marinade[o] # "none" <=> o <= next_order_id /\ o \in OnionOrders
  /\ onion_marinaded[o] => marinade[o] = "done"
  /\ delivered[o] => calls[o] = 1 /\ Told(o) /\ o <= next_order_id
  /\ ~delivered[o] =>
       /\ calls[o] = 0
       /\ ~hamburger[o].is_packed /\ ~hamburger[o].has_onion
       /\ hamburger[o].cutlet_roasted <=> roast[o] = "done"
       /\ marinade[o] = "done" => onion_marinaded[o]
       /\ ~AllThere(o)

Packed == {o \in Orders : delivered[o]}

(***************************************************************************)
(* The clock passes the longest timer only while hamburgers are packed.    *)
(***************************************************************************)
OnTime == clock <= MarinadeTime + Cardinality(Packed)

Typed ==
  /\ next_order_id \in 0..NumOrders
  /\ clock \in Nat
  /\ roast \in [Orders -> Timers]
  /\ marinade \in [Orders -> Timers]
  /\ hamburger \in [Orders -> Hamburgers]
  /\ onion_marinaded \in [Orders -> BOOLEAN]
  /\ delivered \in [Orders -> BOOLEAN]
  /\ calls \in [Orders -> Nat]
  /\ orders \in [Orders -> Results]

Course ==
  /\ program \in {"setup", "running", "returned"}
  /\ program # "setup" => next_order_id = NumOrders
  /\ program = "returned" => \A o \in Orders : ~Armed(o)

IInv ==
  /\ Typed
  /\ OnTime
  /\ Course
  /\ \A o \in Orders : Stage(o)

-----------------------------------------------------------------------------
\* The orders delivered are finitely many, and no more than there are orders.
LEMMA PackedFinite ==
  /\ IsFiniteSet(Packed) /\ Cardinality(Packed) \in Nat /\ Cardinality(Packed) <= NumOrders
  /\ IsFiniteSet(Packed') /\ Cardinality(Packed') \in Nat
<1>1. IsFiniteSet(Orders) /\ Cardinality(Orders) = NumOrders
  BY RestaurantAssumption, FS_Interval, 1 \in Int, NumOrders \in Int DEF Orders
<1>2. Packed \subseteq Orders /\ Packed' \subseteq Orders
  BY DEF Packed
<1>3. QED
  BY <1>1, <1>2, FS_Subset, FS_CardinalityType

\* An order that no step touches is as far as it was.
LEMMA StageKept ==
  ASSUME NEW o \in Orders, Stage(o), next_order_id' = next_order_id,
         roast'[o] = roast[o], marinade'[o] = marinade[o],
         hamburger'[o] = hamburger[o], onion_marinaded'[o] = onion_marinaded[o],
         delivered'[o] = delivered[o], calls'[o] = calls[o], orders'[o] = orders[o]
  PROVE  Stage(o)'
BY DEF Stage, Told, AllThere

-----------------------------------------------------------------------------
\* The inductive invariant holds before the first order.
LEMMA InitInv == Init => IInv
<1>1. SUFFICES ASSUME Init PROVE IInv
  OBVIOUS
<1>2. NumOrders \in Nat /\ 0 \in 0..NumOrders
  BY RestaurantAssumption
<1>3. RawBurger \in Hamburgers /\ NoResult \in Results
  BY DEF RawBurger, Hamburgers, NoResult, Results
<1>4. Typed
  BY <1>1, <1>2, <1>3 DEF Init, Typed, Timers
<1>5. OnTime
  BY <1>1, PackedFinite DEF Init, OnTime, MarinadeTime
<1>6. Course
  BY <1>1 DEF Init, Course
<1>7. ASSUME NEW o \in Orders PROVE Stage(o)
  <2>1. o \in Nat /\ ~(o <= 0)
    BY <1>2 DEF Orders
  <2>2. QED
    BY <1>1, <2>1 DEF Init, Stage, AllThere, RawBurger
<1>8. QED
  BY <1>4, <1>5, <1>6, <1>7 DEF IInv

\* MakeHamburger: the timers of one more order are armed.
LEMMA MakeKeeps ==
  ASSUME IInv, MakeHamburger
  PROVE  IInv'
<1> DEFINE n == next_order_id + 1
<1>1. Typed /\ program = "setup" /\ n \in Orders /\ n \in 0..NumOrders
      /\ next_order_id \in Nat /\ next_order_id' = n
  BY RestaurantAssumption DEF IInv, Typed, MakeHamburger, PlaceOrder, Orders
<1>2. /\ roast' = [roast EXCEPT ![n] = "armed"]
      /\ marinade' = IF n \in OnionOrders THEN [marinade EXCEPT ![n] = "armed"] ELSE marinade
      /\ UNCHANGED <<clock, hamburger, onion_marinaded, delivered, calls, orders, program>>
  BY DEF MakeHamburger, PlaceOrder
<1>3. Typed'
  <2>1. roast' \in [Orders -> Timers] /\ marinade' \in [Orders -> Timers]
    BY <1>1, <1>2 DEF Typed, Timers
  <2>2. QED
    BY <1>1, <1>2, <2>1 DEF Typed
<1>4. OnTime' /\ Course'
  BY <1>1, <1>2 DEF IInv, OnTime, Packed, Course
<1>5. ASSUME NEW o \in Orders PROVE Stage(o)'
  <2>1. Stage(o) /\ o \in Nat
    BY RestaurantAssumption DEF IInv, Orders
  <2>2. CASE o = n
    <3>1. ~(o <= next_order_id) /\ o <= n
      BY <1>1, <2>1, <2>2
    <3>2. /\ roast[o] = "none" /\ marinade[o] = "none" /\ ~delivered[o]
      BY <2>1, <3>1 DEF Stage
    <3>3. roast'[o] = "armed" /\ marinade'[o] = IF o \in OnionOrders THEN "armed" ELSE "none"
      BY <1>1, <1>2, <2>2, <3>2 DEF Typed
    <3>4. QED
      BY <1>1, <1>2, <2>1, <3>1, <3>2, <3>3 DEF Stage, AllThere
  <2>3. CASE o # n
    <3>1. o <= n <=> o <= next_order_id
      BY <1>1, <2>1, <2>3
    <3>2. roast'[o] = roast[o] /\ marinade'[o] = marinade[o]
      BY <1>1, <1>2, <2>3 DEF Typed
    <3>3. QED
      BY <1>1, <1>2, <2>1, <3>1, <3>2 DEF Stage, Told, AllThere
  <2>4. QED
    BY <2>2, <2>3
<1>6. QED
  BY <1>3, <1>4, <1>5 DEF IInv

\* Run, Wait, Return and Over touch no order.
LEMMA OthersKeep ==
  ASSUME IInv, Run \/ Wait \/ Return \/ Over
  PROVE  IInv'
<1>1. /\ Typed /\ Course /\ OnTime
      /\ UNCHANGED <<next_order_id, roast, marinade, hamburger, onion_marinaded,
                     delivered, calls, orders>>
  BY DEF IInv, Run, Wait, Return, Over, vars
<1>2. \A o \in Orders : Stage(o)'
  BY <1>1, StageKept DEF IInv
<1>3. Packed' = Packed
  BY <1>1 DEF Packed
<1>4. CASE Wait
  <2>1. PICK o \in Orders : Armed(o) /\ ~RoastDue(o) /\ ~MarinadeDue(o)
    BY <1>4 DEF Wait
  <2>2. clock \in Nat /\ clock < MarinadeTime /\ clock' = clock + 1 /\ program' = program
        /\ program = "running"
    BY <1>1, <1>4, <2>1
    DEF Typed, Wait, Armed, RoastDue, MarinadeDue, RoastTime, MarinadeTime
  <2>3. Typed' /\ Course'
    BY <1>1, <2>2 DEF Typed, Course
  <2>4. OnTime'
    BY <1>3, <2>2, PackedFinite DEF OnTime, MarinadeTime
  <2>5. QED
    BY <1>2, <2>3, <2>4 DEF IInv
<1>5. CASE Run \/ Return \/ Over
  <2>1. clock' = clock
    BY <1>5 DEF Run, Return, Over, vars
  <2>2. Typed' /\ OnTime'
    BY <1>1, <1>3, <2>1 DEF Typed, OnTime
  <2>3. Course'
    BY <1>1, <1>5 DEF Course, Armed, Run, Return, Over, vars
  <2>4. QED
    BY <1>2, <2>2, <2>3 DEF IInv
<1>6. QED
  BY <1>4, <1>5

-----------------------------------------------------------------------------
(***************************************************************************)
(* CheckReadiness, after a handler of o has left the hamburger h and the   *)
(* onion: a delivered order stays as it is; an error, or a hamburger that  *)
(* has everything, is delivered; otherwise nothing happens.  Nothing is    *)
(* ever thrown.                                                            *)
(***************************************************************************)
Delivers(o, ec, h, m) ==
  ~delivered[o] /\ (ec \/ (h.cutlet_roasted /\ (o \in OnionOrders => m)))

LEMMA Ready ==
  ASSUME IInv, NEW o \in Orders, NEW ec \in BOOLEAN, NEW h \in Hamburgers,
         NEW m \in BOOLEAN, CheckReadiness(o, ec, h, m),
         ~delivered[o] => ~h.is_packed /\ ~h.has_onion,
         m => o \in OnionOrders
  PROVE  /\ program' = program
         /\ clock' \in Nat /\ OnTime'
         /\ hamburger' \in [Orders -> Hamburgers]
         /\ delivered' \in [Orders -> BOOLEAN]
         /\ calls' \in [Orders -> Nat]
         /\ orders' \in [Orders -> Results]
         /\ \A p \in Orders \ {o} :
              /\ hamburger'[p] = hamburger[p] /\ delivered'[p] = delivered[p]
              /\ calls'[p] = calls[p] /\ orders'[p] = orders[p]
         /\ Delivers(o, ec, h, m) => delivered'[o] /\ calls'[o] = 1 /\ Told(o)'
         /\ ~Delivers(o, ec, h, m) =>
              /\ hamburger'[o] = h /\ delivered'[o] = delivered[o]
              /\ calls'[o] = calls[o] /\ orders'[o] = orders[o]
<1>1. Typed /\ Stage(o) /\ OnTime /\ clock \in Nat
  BY DEF IInv, Typed
<1>2. /\ h.cutlet_roasted \in BOOLEAN /\ h.has_onion \in BOOLEAN /\ h.is_packed \in BOOLEAN
  BY DEF Hamburgers
<1>3. CASE delivered[o] /\ Ignore(o, h)
  <2>1. ~Delivers(o, ec, h, m)
    BY <1>3 DEF Delivers
  <2>2. hamburger' \in [Orders -> Hamburgers] /\ hamburger'[o] = h
        /\ \A p \in Orders \ {o} : hamburger'[p] = hamburger[p]
    BY <1>1, <1>3 DEF Typed, Ignore
  <2>3. OnTime'
    BY <1>1, <1>3 DEF OnTime, Packed, Ignore
  <2>4. QED
    BY <1>1, <1>3, <2>1, <2>2, <2>3 DEF Typed, Ignore
<1>4. ASSUME ~delivered[o], NEW e \in BOOLEAN, NEW g \in Hamburgers, Deliver(o, e, g)
      PROVE  /\ delivered' \in [Orders -> BOOLEAN] /\ delivered'[o]
             /\ calls' \in [Orders -> Nat] /\ calls'[o] = 1
             /\ orders' \in [Orders -> Results]
             /\ orders'[o] = [ec |-> e, hamburger |-> IF e THEN RawBurger ELSE g]
             /\ \A p \in Orders \ {o} :
                  delivered'[p] = delivered[p] /\ calls'[p] = calls[p] /\ orders'[p] = orders[p]
             /\ Cardinality(Packed') = Cardinality(Packed) + 1
  <2>1. calls[o] = 0
    BY <1>1, <1>4 DEF Stage
  <2>2. [ec |-> e, hamburger |-> IF e THEN RawBurger ELSE g] \in Results
    BY DEF Results, Hamburgers, RawBurger
  <2>3. orders' = [orders EXCEPT ![o] = [ec |-> e, hamburger |-> IF e THEN RawBurger ELSE g]]
    BY <1>4, <2>1 DEF Deliver
  <2>4. /\ orders' \in [Orders -> Results]
        /\ orders'[o] = [ec |-> e, hamburger |-> IF e THEN RawBurger ELSE g]
        /\ \A p \in Orders \ {o} : orders'[p] = orders[p]
    BY <1>1, <2>2, <2>3 DEF Typed
  <2>5. /\ calls' \in [Orders -> Nat] /\ calls'[o] = 1
        /\ \A p \in Orders \ {o} : calls'[p] = calls[p]
    BY <1>1, <1>4, <2>1 DEF Typed, Deliver
  <2>6. /\ delivered' \in [Orders -> BOOLEAN] /\ delivered'[o]
        /\ \A p \in Orders \ {o} : delivered'[p] = delivered[p]
    BY <1>1, <1>4, Zenon DEF Typed, Deliver
  <2>7. Packed' = Packed \cup {o} /\ o \notin Packed
    BY <1>4, <2>6 DEF Packed
  <2>8. Cardinality(Packed') = Cardinality(Packed) + 1
    BY <2>7, PackedFinite, FS_AddElement
  <2>9. QED
    BY <2>4, <2>5, <2>6, <2>8
<1>5. CASE ~delivered[o] /\ ec /\ DeliverError(o, h)
  <2>1. /\ Deliver(o, TRUE, h) /\ UNCHANGED <<clock, program>>
        /\ hamburger' = [hamburger EXCEPT ![o] = h]
    BY <1>5 DEF DeliverError
  <2>2. /\ delivered' \in [Orders -> BOOLEAN] /\ delivered'[o]
        /\ calls' \in [Orders -> Nat] /\ calls'[o] = 1
        /\ orders' \in [Orders -> Results] /\ orders'[o] = [ec |-> TRUE, hamburger |-> RawBurger]
        /\ \A p \in Orders \ {o} :
             delivered'[p] = delivered[p] /\ calls'[p] = calls[p] /\ orders'[p] = orders[p]
        /\ Cardinality(Packed') = Cardinality(Packed) + 1
    BY <1>4, <1>5, <2>1
  <2>3. hamburger' \in [Orders -> Hamburgers]
        /\ \A p \in Orders \ {o} : hamburger'[p] = hamburger[p]
    BY <1>1, <2>1 DEF Typed
  <2>4. OnTime'
    BY <1>1, <2>1, <2>2, PackedFinite DEF OnTime, MarinadeTime
  <2>5. Told(o)' /\ Delivers(o, ec, h, m)
    <3>1. orders'[o].ec = TRUE
      BY <2>2
    <3>2. QED
      BY <1>5, <3>1 DEF Told, Delivers
  <2>6. QED
    BY <1>1, <2>1, <2>2, <2>3, <2>4, <2>5
<1>6. CASE ~delivered[o] /\ ~ec /\ Proceed(o, h, m)
  <2> DEFINE adds == CanAddOnion(h, m)
             g == [h EXCEPT !.has_onion = @ \/ adds]
             result == [g EXCEPT !.is_packed = @ \/ TRUE]
  <2>1. ~h.is_packed /\ ~h.has_onion
    BY <1>6
  <2>2. adds <=> h.cutlet_roasted /\ m
    BY <2>1 DEF CanAddOnion
  <2>3. ~(adds /\ AddOnionThrows(h))
    BY <2>1, <2>2 DEF AddOnionThrows
  <2>4. g \in Hamburgers /\ g.cutlet_roasted = h.cutlet_roasted
        /\ g.is_packed = h.is_packed /\ (g.has_onion <=> h.cutlet_roasted /\ m)
    BY <1>2, <2>1, <2>2 DEF Hamburgers
  <2>5. IsReadyToPack(o, g) <=> Delivers(o, ec, h, m)
    BY <1>6, <2>4 DEF IsReadyToPack, Delivers
  <2>6. CASE Delivers(o, ec, h, m)
    <3>1. /\ hamburger' = [hamburger EXCEPT ![o] = [g EXCEPT !.is_packed = @ \/ TRUE]]
          /\ program' = program /\ clock' = clock + 1
          /\ Deliver(o, FALSE, result)
      BY <1>6, <2>3, <2>5, <2>6 DEF Proceed
    <3>2. result \in Hamburgers /\ result.cutlet_roasted = h.cutlet_roasted
          /\ result.is_packed /\ (result.has_onion <=> h.cutlet_roasted /\ m)
      BY <2>4 DEF Hamburgers
    <3> HIDE DEF adds, g, result
    <3>3. /\ delivered' \in [Orders -> BOOLEAN] /\ delivered'[o]
          /\ calls' \in [Orders -> Nat] /\ calls'[o] = 1
          /\ orders' \in [Orders -> Results] /\ orders'[o] = [ec |-> FALSE, hamburger |-> result]
          /\ \A p \in Orders \ {o} :
               delivered'[p] = delivered[p] /\ calls'[p] = calls[p] /\ orders'[p] = orders[p]
          /\ Cardinality(Packed') = Cardinality(Packed) + 1
      BY <1>4, <1>6, <3>1, <3>2
    <3>4. hamburger' \in [Orders -> Hamburgers]
          /\ \A p \in Orders \ {o} : hamburger'[p] = hamburger[p]
      BY <1>1, <3>1, <3>2 DEF Typed, result
    <3>5. clock' \in Nat /\ OnTime'
      BY <1>1, <3>1, <3>3, PackedFinite DEF OnTime, MarinadeTime
    <3>6. Told(o)'
      <4>1. h.cutlet_roasted /\ (o \in OnionOrders <=> m)
        BY <1>6, <2>6 DEF Delivers
      <4>2. orders'[o].hamburger = result
        BY <3>3
      <4>3. QED
        BY <3>2, <4>1, <4>2 DEF Told
    <3>7. QED
      BY <2>6, <3>1, <3>3, <3>4, <3>5, <3>6
  <2>7. CASE ~Delivers(o, ec, h, m)
    <3>1. ~adds
      BY <1>6, <2>2, <2>7 DEF Delivers
    <3>2. g = h /\ [g EXCEPT !.is_packed = @ \/ FALSE] = h
      BY <1>2, <3>1 DEF Hamburgers
    <3>3. /\ hamburger' = [hamburger EXCEPT ![o] = [g EXCEPT !.is_packed = @ \/ FALSE]]
          /\ UNCHANGED <<program, clock, delivered, calls, orders>>
      BY <1>6, <2>3, <2>5, <2>7 DEF Proceed
    <3>4. hamburger' = [hamburger EXCEPT ![o] = h]
      BY <3>2, <3>3
    <3>5. hamburger' \in [Orders -> Hamburgers] /\ hamburger'[o] = h
          /\ \A p \in Orders \ {o} : hamburger'[p] = hamburger[p]
      BY <1>1, <3>4 DEF Typed
    <3>6. OnTime'
      BY <1>1, <3>3 DEF OnTime, Packed
    <3>7. QED
      BY <1>1, <2>7, <3>3, <3>5, <3>6 DEF Typed
  <2>8. QED
    BY <2>6, <2>7
<1>7. QED
  BY <1>3, <1>5, <1>6 DEF CheckReadiness

\* OnRoasted: the cutlet is roasted, or the order is delivered.
LEMMA RoastedKeeps ==
  ASSUME IInv, NEW o \in Orders, NEW ec \in BOOLEAN, OnRoasted(o, ec)
  PROVE  IInv'
<1> DEFINE h == [hamburger[o] EXCEPT !.cutlet_roasted = @ \/ ~ec]
           m == onion_marinaded[o]
<1>1. Typed /\ Stage(o) /\ Course /\ program = "running" /\ roast[o] = "armed"
  BY DEF IInv, OnRoasted, RoastDue
<1>2. /\ roast' = [roast EXCEPT ![o] = "done"]
      /\ CheckReadiness(o, ec, h, m)
      /\ UNCHANGED <<next_order_id, marinade, onion_marinaded>>
  BY DEF OnRoasted
<1>3. hamburger[o] \in Hamburgers /\ m \in BOOLEAN
  BY <1>1 DEF Typed
<1>4. /\ h \in Hamburgers /\ h.is_packed = hamburger[o].is_packed
      /\ h.has_onion = hamburger[o].has_onion
      /\ h.cutlet_roasted <=> hamburger[o].cutlet_roasted \/ ~ec
  BY <1>3 DEF Hamburgers
<1>5. ~delivered[o] => ~h.is_packed /\ ~h.has_onion
  BY <1>1, <1>4 DEF Stage
<1>6. m => o \in OnionOrders
  BY <1>1 DEF Stage
<1> HIDE DEF h, m
<1>7. /\ program' = program
      /\ clock' \in Nat /\ OnTime'
      /\ hamburger' \in [Orders -> Hamburgers]
      /\ delivered' \in [Orders -> BOOLEAN]
      /\ calls' \in [Orders -> Nat]
      /\ orders' \in [Orders -> Results]
      /\ \A p \in Orders \ {o} :
           /\ hamburger'[p] = hamburger[p] /\ delivered'[p] = delivered[p]
           /\ calls'[p] = calls[p] /\ orders'[p] = orders[p]
      /\ Delivers(o, ec, h, m) => delivered'[o] /\ calls'[o] = 1 /\ Told(o)'
      /\ ~Delivers(o, ec, h, m) =>
           /\ hamburger'[o] = h /\ delivered'[o] = delivered[o]
           /\ calls'[o] = calls[o] /\ orders'[o] = orders[o]
  BY <1>2, <1>3, <1>4, <1>5, <1>6, Ready
<1>8. roast' \in [Orders -> Timers] /\ roast'[o] = "done"
      /\ \A p \in Orders \ {o} : roast'[p] = roast[p]
  BY <1>1, <1>2 DEF Typed, Timers
<1>9. Typed'
  BY <1>1, <1>2, <1>7, <1>8 DEF Typed
<1>10. Course'
  BY <1>1, <1>2, <1>7 DEF Course
<1>11. ASSUME NEW p \in Orders, p # o PROVE Stage(p)'
  BY <1>2, <1>7, <1>8, <1>11, StageKept DEF IInv
<1>12. Stage(o)'
  <2>1. o <= next_order_id
    BY <1>1 DEF Stage
  <2>2. CASE Delivers(o, ec, h, m)
    BY <1>1, <1>2, <1>7, <1>8, <2>1, <2>2 DEF Stage
  <2>3. CASE ~Delivers(o, ec, h, m) /\ delivered[o]
    BY <1>1, <1>2, <1>7, <1>8, <2>1, <2>3 DEF Stage, Told
  <2>4. CASE ~Delivers(o, ec, h, m) /\ ~delivered[o]
    <3>1. ~ec /\ h.cutlet_roasted /\ o \in OnionOrders /\ ~m
      BY <1>4, <2>4 DEF Delivers
    <3>2. QED
      BY <1>1, <1>2, <1>5, <1>7, <1>8, <2>1, <2>4, <3>1 DEF Stage, AllThere, m
  <2>5. QED
    BY <2>2, <2>3, <2>4
<1>13. QED
  BY <1>7, <1>9, <1>10, <1>11, <1>12 DEF IInv

\* OnOnionMarinaded: the onion is ready, or the order is delivered.
LEMMA MarinadedKeeps ==
  ASSUME IInv, NEW o \in Orders, NEW ec \in BOOLEAN, OnOnionMarinaded(o, ec)
  PROVE  IInv'
<1> DEFINE h == hamburger[o]
           m == ~ec
<1>1. Typed /\ Stage(o) /\ Course /\ program = "running" /\ marinade[o] = "armed"
  BY DEF IInv, OnOnionMarinaded, MarinadeDue
<1>2. /\ marinade' = [marinade EXCEPT ![o] = "done"]
      /\ onion_marinaded' = [onion_marinaded EXCEPT ![o] = @ \/ ~ec]
      /\ CheckReadiness(o, ec, h, onion_marinaded'[o])
      /\ UNCHANGED <<next_order_id, roast>>
  BY DEF OnOnionMarinaded
<1>3. h \in Hamburgers /\ onion_marinaded[o] = FALSE
  BY <1>1 DEF Typed, Stage
<1>4. /\ onion_marinaded' \in [Orders -> BOOLEAN] /\ onion_marinaded'[o] = m /\ m \in BOOLEAN
      /\ \A p \in Orders \ {o} : onion_marinaded'[p] = onion_marinaded[p]
  BY <1>1, <1>2, <1>3 DEF Typed
<1>5. ~delivered[o] => ~h.is_packed /\ ~h.has_onion
  BY <1>1 DEF Stage
<1>6. o \in OnionOrders /\ o <= next_order_id
  BY <1>1 DEF Stage
<1> HIDE DEF h, m
<1>7. /\ program' = program
      /\ clock' \in Nat /\ OnTime'
      /\ hamburger' \in [Orders -> Hamburgers]
      /\ delivered' \in [Orders -> BOOLEAN]
      /\ calls' \in [Orders -> Nat]
      /\ orders' \in [Orders -> Results]
      /\ \A p \in Orders \ {o} :
           /\ hamburger'[p] = hamburger[p] /\ delivered'[p] = delivered[p]
           /\ calls'[p] = calls[p] /\ orders'[p] = orders[p]
      /\ Delivers(o, ec, h, m) => delivered'[o] /\ calls'[o] = 1 /\ Told(o)'
      /\ ~Delivers(o, ec, h, m) =>
           /\ hamburger'[o] = h /\ delivered'[o] = delivered[o]
           /\ calls'[o] = calls[o] /\ orders'[o] = orders[o]
  BY <1>2, <1>3, <1>4, <1>5, <1>6, Ready
<1>8. marinade' \in [Orders -> Timers] /\ marinade'[o] = "done"
      /\ \A p \in Orders \ {o} : marinade'[p] = marinade[p]
  BY <1>1, <1>2 DEF Typed, Timers
<1>9. Typed'
  BY <1>1, <1>2, <1>4, <1>7, <1>8 DEF Typed
<1>10. Course'
  BY <1>1, <1>2, <1>7 DEF Course
<1>11. ASSUME NEW p \in Orders, p # o PROVE Stage(p)'
  BY <1>2, <1>4, <1>7, <1>8, <1>11, StageKept DEF IInv
<1>12. Stage(o)'
  <2>1. CASE Delivers(o, ec, h, m)
    BY <1>1, <1>2, <1>6, <1>7, <1>8, <2>1 DEF Stage
  <2>2. CASE ~Delivers(o, ec, h, m) /\ delivered[o]
    BY <1>1, <1>2, <1>6, <1>7, <1>8, <2>2 DEF Stage, Told
  <2>3. CASE ~Delivers(o, ec, h, m) /\ ~delivered[o]
    <3>1. ~ec /\ m /\ ~h.cutlet_roasted
      BY <1>4, <1>6, <2>3 DEF Delivers, m
    <3>2. QED
      BY <1>1, <1>2, <1>4, <1>6, <1>7, <1>8, <2>3, <3>1 DEF Stage, AllThere, h, m
  <2>4. QED
    BY <2>1, <2>2, <2>3
<1>13. QED
  BY <1>7, <1>9, <1>10, <1>11, <1>12 DEF IInv

-----------------------------------------------------------------------------
\* Every step of the restaurant keeps the inductive invariant.
THEOREM Invariant == Spec => []IInv
<1>1. IInv /\ [Next]_vars => IInv'
  <2>1. SUFFICES ASSUME IInv, [Next]_vars PROVE IInv'
    OBVIOUS
  <2>2. CASE MakeHamburger
    BY <2>1, <2>2, MakeKeeps
  <2>3. CASE Run \/ Wait \/ Return \/ Over
    BY <2>1, <2>3, OthersKeep
  <2>4. CASE \E o \in Orders, ec \in Outcomes : OnRoasted(o, ec) \/ OnOnionMarinaded(o, ec)
    BY <2>1, <2>4, RoastedKeeps, MarinadedKeeps DEF Outcomes
  <2>5. CASE UNCHANGED vars
    BY <2>1, <2>5, OthersKeep, StageKept DEF vars, IInv, Typed, OnTime, Packed, Course, Armed
  <2>6. QED
    BY <2>1, <2>2, <2>3, <2>4, <2>5 DEF Next
<1>2. QED
  BY InitInv, <1>1, PTL DEF Spec

(***************************************************************************)
(* Types, and the bound of the clock: Pack spins once for every order at   *)
(* most.                                                                   *)
(***************************************************************************)
THEOREM TypeCorrect == Spec => []TypeOK
<1>1. IInv => TypeOK
  <2>1. SUFFICES ASSUME IInv PROVE TypeOK
    OBVIOUS
  <2>2. clock \in 0..ClockBound
    BY <2>1, PackedFinite, RestaurantAssumption
    DEF IInv, Typed, OnTime, ClockBound, MarinadeTime
  <2>3. QED
    BY <2>1, <2>2 DEF IInv, Typed, Course, TypeOK
<1>2. QED
  BY <1>1, Invariant, PTL

\* The client of an order is called at most once.
THEOREM CallsOnce == Spec => []DeliveredOnce
<1>1. IInv => DeliveredOnce
  <2>1. SUFFICES ASSUME IInv, NEW o \in Orders PROVE calls[o] <= 1
    BY DEF DeliveredOnce
  <2>2. calls[o] = 0 \/ calls[o] = 1
    BY <2>1 DEF IInv, Typed, Stage
  <2>3. QED
    BY <2>2
<1>2. QED
  BY <1>1, Invariant, PTL

\* A client that hears of a hamburger hears of the one it ordered.
THEOREM GetsWhatWasOrdered == Spec => []AsOrdered
<1>1. IInv => AsOrdered
  <2>1. SUFFICES ASSUME IInv, NEW o \in Orders, calls[o] > 0, ~orders[o].ec
                 PROVE  /\ orders[o].hamburger.cutlet_roasted
                        /\ orders[o].hamburger.is_packed
                        /\ orders[o].hamburger.has_onion <=> o \in OnionOrders
    BY DEF AsOrdered
  <2>2. delivered[o]
    BY <2>1 DEF IInv, Stage
  <2>3. QED
    BY <2>1, <2>2 DEF IInv, Stage, Told
<1>2. QED
  BY <1>1, Invariant, PTL

\* No logic_error leaves a handler.
THEOREM NothingThrown == Spec => []NeverThrows
<1>1. IInv => NeverThrows
  BY DEF IInv, Course, NeverThrows
<1>2. QED
  BY <1>1, Invariant, PTL

\* io.run() returns only when every client has heard of its order.
THEOREM ReturnsWithAllDelivered == Spec => []AllDelivered
<1>1. IInv => AllDelivered
  <2>1. SUFFICES ASSUME IInv, program = "returned", NEW o \in Orders PROVE calls[o] = 1
    BY DEF AllDelivered
  <2>2. Typed /\ Stage(o) /\ next_order_id = NumOrders /\ ~Armed(o)
    BY <2>1 DEF IInv, Course
  <2>3. o <= next_order_id
    BY <2>2, RestaurantAssumption DEF Orders
  <2>4. roast[o] = "done" /\ (o \in OnionOrders => marinade[o] = "done")
    BY <2>2, <2>3 DEF Typed, Timers, Stage, Armed
  <2>5. delivered[o]
    BY <2>2, <2>4 DEF Stage, AllThere
  <2>6. QED
    BY <2>2, <2>5 DEF Stage
<1>2. QED
  BY <1>1, Invariant, PTL
=============================================================================
