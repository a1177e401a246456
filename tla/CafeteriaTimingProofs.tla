----------------------- MODULE CafeteriaTimingProofs ------------------------
(***************************************************************************)
(* Proofs about CafeteriaTiming, for any number of orders and burners and  *)
(* any lateness, and then for main's own numbers.                          *)
(*                                                                         *)
(* A run is compared with a schedule, a time for each request.  A schedule *)
(* before which requests cannot start bounds the program from below, and   *)
(* one by which they must have started bounds it from above; both are      *)
(* conditions on the schedule alone.  The deque is first in first out, so  *)
(* which burner is released first makes no difference to them.             *)
(***************************************************************************)
EXTENDS CafeteriaTiming, FiniteSetTheorems, TLAPS

Requests == 1..(2 * NumOrders)

\* The r-th request's cooking time: r-1 are granted before it.
Dur(r) == CookTime(r - 1)

\* A schedule serves the requests in their order.
IsSchedule(s) ==
  /\ s \in [Requests -> Nat]
  /\ \A q, r \in Requests : q <= r => s[q] <= s[r]

\* Those of the first n requests that still cook after time T, all of them late.
StillCooking(s, late, n, T) == {q \in Requests : q <= n /\ s[q] + Dur(q) + late > T}

(***************************************************************************)
(* Until its time, all burners are busy with requests that came before.    *)
(***************************************************************************)
NotBefore(s) ==
  \A r \in Requests : \A T \in Nat :
    T < s[r] => Cardinality(StillCooking(s, 0, r - 1, T)) >= NumBurners

(***************************************************************************)
(* At its time, a burner is free, with every handler as late as can be.    *)
(***************************************************************************)
NotAfter(s) ==
  \A r \in Requests : Cardinality(StillCooking(s, MaxLate, r - 1, s[r])) < NumBurners

\* The burners whose handler may still be to run after T, and those for which it must.
MayRunAfter(T) == {b \in Burning : b[1] > T}
RunsAfter(T) == {b \in Burning : b[1] > T + MaxLate}

\* No earlier than the schedule.
Early(s) ==
  \A T \in Nat : T >= clock =>
    Cardinality(RunsAfter(T)) >= Cardinality(StillCooking(s, 0, granted, T))

\* No later than the schedule.
Late(s) ==
  /\ \A r \in Requests : r > granted => clock <= s[r]
  /\ \A T \in Nat : T >= clock =>
       Cardinality(MayRunAfter(T)) <= Cardinality(StillCooking(s, MaxLate, granted, T))

-----------------------------------------------------------------------------
(***************************************************************************)
(* Counting.                                                               *)
(***************************************************************************)
LEMMA BurningFinite ==
  ASSUME clock \in Nat
  PROVE  /\ IsFiniteSet(Burning)
         /\ BurnersInUse \in Nat
         /\ \A T : IsFiniteSet(MayRunAfter(T)) /\ Cardinality(MayRunAfter(T)) \in Nat
         /\ \A T : IsFiniteSet(RunsAfter(T)) /\ Cardinality(RunsAfter(T)) \in Nat
<1> DEFINE span == clock .. clock + SausageTime + MaxLate
<1>1. IsFiniteSet(span) /\ IsFiniteSet(1..NumBurners)
  BY FS_Interval, TimingAssumption DEF SausageTime
<1>2. IsFiniteSet(span \X (1..NumBurners))
  BY <1>1, FS_Product
<1>3. Burning \in SUBSET (span \X (1..NumBurners))
  BY DEF Burning
<1>4. IsFiniteSet(Burning)
  BY <1>2, <1>3, FS_Subset
<1>5. \A T : MayRunAfter(T) \in SUBSET Burning /\ RunsAfter(T) \in SUBSET Burning
  BY DEF MayRunAfter, RunsAfter
<1> QED  BY <1>4, <1>5, FS_Subset, FS_CardinalityType DEF BurnersInUse

LEMMA StillCookingFinite ==
  ASSUME NEW s, NEW late, NEW n, NEW T
  PROVE  /\ IsFiniteSet(StillCooking(s, late, n, T))
         /\ Cardinality(StillCooking(s, late, n, T)) \in Nat
<1>1. IsFiniteSet(Requests)
  BY FS_Interval, TimingAssumption DEF Requests
<1>2. StillCooking(s, late, n, T) \in SUBSET Requests
  BY DEF StillCooking
<1> QED  BY <1>1, <1>2, FS_Subset, FS_CardinalityType

\* One more request granted is one more that cooks, until its time is over.
LEMMA StillCookingNext ==
  ASSUME NEW s, IsSchedule(s), NEW late \in Nat, NEW n \in Nat, n + 1 \in Requests, NEW T \in Nat
  PROVE  Cardinality(StillCooking(s, late, n + 1, T)) =
           IF s[n + 1] + Dur(n + 1) + late > T
             THEN Cardinality(StillCooking(s, late, n, T)) + 1
             ELSE Cardinality(StillCooking(s, late, n, T))
<1> DEFINE old == StillCooking(s, late, n, T)
           new == StillCooking(s, late, n + 1, T)
<1>1. n + 1 \notin old
  BY DEF StillCooking, Requests
<1>2. CASE s[n + 1] + Dur(n + 1) + late > T
  <2>1. new = old \cup {n + 1}
    BY <1>2 DEF StillCooking, Requests
  <2> QED  BY <1>1, <1>2, <2>1, StillCookingFinite, FS_AddElement
<1>3. CASE ~(s[n + 1] + Dur(n + 1) + late > T)
  <2>1. new = old
    BY <1>3 DEF StillCooking, Requests
  <2> QED  BY <1>3, <2>1
<1> QED  BY <1>2, <1>3

LEMMA CookTimes ==
  ASSUME NEW n \in Nat
  PROVE  CookTime(n) \in {10, 15}
BY DEF CookTime, SausageTime, BreadTime

-----------------------------------------------------------------------------
(***************************************************************************)
(* What each step does to the burners that are in use.                     *)
(***************************************************************************)
Longest == CookTime(granted) + MaxLate
Taken == <<clock + Longest, cooking[Longest] + 1>>

LEMMA GrantBurning ==
  ASSUME TypeOK, Grant
  PROVE  /\ Taken \notin Burning
         /\ cooking[Longest] + 1 \in 1..NumBurners
         /\ Burning' = Burning \cup {Taken}
<1>a. /\ clock \in Nat /\ NumBurners \in Nat /\ MaxLate \in Nat /\ granted \in Nat
      /\ cooking \in [Times -> 0..NumBurners]
  BY TimingAssumption DEF TypeOK
<1>b. CookTime(granted) \in {10, 15}
  BY <1>a, CookTimes
<1>c. Longest \in Nat /\ Longest \in Times
  BY <1>a, <1>b DEF Times, SausageTime, Longest
<1>d. cooking[Longest] \in 0..NumBurners
  BY <1>a, <1>c
<1>1. /\ Longest \in Times /\ Longest \in Nat /\ clock + Longest \in clock .. clock + SausageTime + MaxLate
      /\ cooking[Longest] \in 0..NumBurners /\ NumBurners \in Nat /\ clock \in Nat
      /\ clock + Longest - clock = Longest
  BY <1>a, <1>c, <1>d DEF Times, SausageTime
<1>2. cooking[Longest] < NumBurners
  <2> SUFFICES ASSUME cooking[Longest] >= NumBurners PROVE FALSE
    BY <1>1
  <2>1. 1..NumBurners = 1..cooking[Longest]
    BY <1>1
  <2>2. {clock + Longest} \X (1..NumBurners) \in SUBSET Burning
    BY <1>1, <2>1 DEF Burning
  <2>3. IsFiniteSet({clock + Longest}) /\ Cardinality({clock + Longest}) = 1
    BY FS_Singleton
  <2>a. IsFiniteSet(1..NumBurners) /\ Cardinality(1..NumBurners) = NumBurners
    BY FS_Interval, TimingAssumption
  <2>b. Cardinality({clock + Longest} \X (1..NumBurners)) = Cardinality({clock + Longest}) * Cardinality(1..NumBurners)
    BY <2>3, <2>a, FS_Product
  <2>4. Cardinality({clock + Longest} \X (1..NumBurners)) = NumBurners
    BY <2>3, <2>a, <2>b, <1>1
  <2>5. NumBurners <= Cardinality(Burning)
    BY <1>1, <2>2, <2>4, BurningFinite, FS_Subset
  <2> QED  BY <1>1, <2>5, BurningFinite DEF Grant, BurnersInUse
<1>3. Taken \notin Burning
  BY <1>1 DEF Burning, Taken
<1>4. /\ clock' = clock
      /\ cooking' = [cooking EXCEPT ![Longest] = @ + 1]
  BY DEF Grant, TakeBurner, Longest
<1>5. \A e \in clock .. clock + SausageTime + MaxLate : e - clock \in Times
  BY <1>1, TimingAssumption DEF Times, SausageTime
<1>6. Burning' = Burning \cup {Taken}
  <2>1. \A e \in clock .. clock + SausageTime + MaxLate :
          cooking'[e - clock] = IF e = clock + Longest THEN cooking[e - clock] + 1 ELSE cooking[e - clock]
    BY <1>1, <1>4, <1>5 DEF TypeOK
  <2>2. \A e \in clock .. clock + SausageTime + MaxLate, k \in 1..NumBurners :
          k <= cooking'[e - clock] <=> k <= cooking[e - clock] \/ (e = clock + Longest /\ k = cooking[Longest] + 1)
    BY <1>1, <2>1, <1>5 DEF TypeOK
  <2>3. cooking[Longest] + 1 \in 1..NumBurners
    BY <1>1, <1>2
  <2> QED  BY <1>1, <1>4, <2>2, <2>3 DEF Burning, Taken
<1>7. cooking[Longest] + 1 \in 1..NumBurners
  BY <1>1, <1>2
<1> QED  BY <1>7, <1>3, <1>6

\* The burner that is released, its handler t ticks early at the most.
Left(t) == <<clock + t, cooking[t]>>

LEMMA ReleaseBurning ==
  ASSUME TypeOK, NEW t \in Times, Release(t)
  PROVE  /\ Left(t) \in Burning
         /\ Burning' = Burning \ {Left(t)}
         /\ cooking' \in [Times -> 0..NumBurners]
<1>1. /\ clock \in Nat /\ NumBurners \in Nat /\ MaxLate \in Nat /\ t \in Nat /\ clock' = clock
      /\ cooking \in [Times -> 0..NumBurners]
      /\ cooking' = [cooking EXCEPT ![t] = @ - 1]
      /\ cooking[t] \in 1..NumBurners
      /\ clock + t \in clock .. clock + SausageTime + MaxLate /\ clock + t - clock = t
  BY TimingAssumption DEF TypeOK, Release, Times, SausageTime
<1>2. \A e \in clock .. clock + SausageTime + MaxLate : e - clock \in Times
  BY <1>1 DEF Times, SausageTime
<1>3. \A e \in clock .. clock + SausageTime + MaxLate :
        cooking'[e - clock] = IF e = clock + t THEN cooking[e - clock] - 1 ELSE cooking[e - clock]
  BY <1>1, <1>2
<1>4. \A e \in clock .. clock + SausageTime + MaxLate, k \in 1..NumBurners :
        k <= cooking'[e - clock] <=> k <= cooking[e - clock] /\ ~(e = clock + t /\ k = cooking[t])
  BY <1>1, <1>2, <1>3
<1>5. Burning' = Burning \ {Left(t)}
  BY <1>1, <1>4 DEF Burning, Left
<1>6. Left(t) \in Burning
  BY <1>1 DEF Burning, Left
<1>7. cooking' \in [Times -> 0..NumBurners]
  BY <1>1
<1> QED  BY <1>5, <1>6, <1>7

\* No handler is due, so that all burners stay as they are.
LEMMA TickBurning ==
  ASSUME TypeOK, Tick
  PROVE  /\ Burning' = Burning
         /\ \A b \in Burning : b[1] > clock
         /\ cooking' \in [Times -> 0..NumBurners]
<1>1. /\ clock \in Nat /\ NumBurners \in Nat /\ MaxLate \in Nat /\ clock' = clock + 1
      /\ cooking \in [Times -> 0..NumBurners] /\ cooking[0] = 0
      /\ cooking' = [t \in Times |-> IF t + 1 \in Times THEN cooking[t + 1] ELSE 0]
  BY TimingAssumption DEF TypeOK, Tick
<1>2. cooking' \in [Times -> 0..NumBurners]
  BY <1>1
<1>3. ASSUME NEW b \in Burning
      PROVE  b[1] > clock /\ b \in Burning'
  <2>1. /\ b \in (clock .. clock + SausageTime + MaxLate) \X (1..NumBurners)
        /\ b[2] <= cooking[b[1] - clock]
    BY DEF Burning
  <2>2. PICK e \in clock .. clock + SausageTime + MaxLate, k \in 1..NumBurners : b = <<e, k>>
    BY <2>1
  <2>3. k <= cooking[e - clock] /\ e # clock
    BY <1>1, <2>1, <2>2
  <2>4. e - clock' \in Times /\ e - clock' + 1 = e - clock /\ e - clock \in Times
    BY <1>1, <2>3 DEF Times, SausageTime
  <2>5. k <= cooking'[e - clock']
    BY <1>1, <2>3, <2>4
  <2>6. e \in clock' .. clock' + SausageTime + MaxLate /\ e > clock
    BY <1>1, <2>3 DEF SausageTime
  <2> QED  BY <2>2, <2>5, <2>6 DEF Burning, SausageTime
<1>4. ASSUME NEW b \in Burning'
      PROVE  b \in Burning
  <2>1. /\ b \in (clock' .. clock' + SausageTime + MaxLate) \X (1..NumBurners)
        /\ b[2] <= cooking'[b[1] - clock']
    BY DEF Burning, SausageTime
  <2>2. PICK e \in clock' .. clock' + SausageTime + MaxLate, k \in 1..NumBurners : b = <<e, k>>
    BY <2>1
  <2>3. k <= cooking'[e - clock'] /\ k > 0 /\ k \in Nat
    BY <1>1, <2>1, <2>2
  <2>4. e - clock' \in Times /\ e - clock' + 1 = e - clock /\ e \in Nat
    BY <1>1 DEF Times, SausageTime
  <2>5. e - clock \in Times /\ k <= cooking[e - clock]
    BY <1>1, <2>3, <2>4
  <2>6. e \in clock .. clock + SausageTime + MaxLate
    BY <1>1, <2>4, <2>5 DEF Times, SausageTime
  <2> QED  BY <2>2, <2>5, <2>6 DEF Burning
<1> QED  BY <1>2, <1>3, <1>4

LEMMA InitBurning ==
  ASSUME Init
  PROVE  /\ Burning = {}
         /\ BurnersInUse = 0
         /\ TypeOK
<1>1. /\ clock = 0 /\ granted = 0 /\ cooking = [t \in Times |-> 0]
      /\ NumBurners \in Nat /\ MaxLate \in Nat /\ NumOrders \in Nat
  BY TimingAssumption DEF Init
<1>2. ASSUME NEW b \in Burning PROVE FALSE
  <2>1. /\ b \in (0 .. SausageTime + MaxLate) \X (1..NumBurners) /\ b[2] <= cooking[b[1] - 0]
    BY <1>1 DEF Burning, SausageTime
  <2>2. b[1] \in Times /\ b[1] - 0 = b[1] /\ b[2] \in 1..NumBurners
    BY <1>1, <2>1 DEF Times, SausageTime
  <2> QED  BY <1>1, <2>1, <2>2
<1>3. Burning = {}
  BY <1>2
<1>4. BurnersInUse = 0
  BY <1>3, FS_EmptySet DEF BurnersInUse
<1>5. TypeOK
  BY <1>1, <1>4 DEF TypeOK
<1> QED  BY <1>3, <1>4, <1>5

-----------------------------------------------------------------------------
(***************************************************************************)
(* Types.                                                                  *)
(***************************************************************************)
LEMMA NextType ==
  ASSUME TypeOK, [Next]_vars
  PROVE  TypeOK'
<1>1. /\ clock \in Nat /\ NumBurners \in Nat /\ MaxLate \in Nat /\ granted \in 0..(2 * NumOrders)
      /\ NumOrders \in Nat /\ cooking \in [Times -> 0..NumBurners]
      /\ IsFiniteSet(Burning) /\ BurnersInUse \in Nat /\ BurnersInUse <= NumBurners
  BY TimingAssumption, BurningFinite DEF TypeOK
<1>2. CASE Grant
  <2>1. /\ clock' = clock /\ granted' = granted + 1 /\ granted < 2 * NumOrders
        /\ cooking' = [cooking EXCEPT ![Longest] = @ + 1]
        /\ BurnersInUse < NumBurners
    BY <1>2 DEF Grant, TakeBurner, Longest
  <2>2. cooking' \in [Times -> 0..NumBurners]
    <3>1. cooking[Longest] + 1 \in 0..NumBurners
      BY <1>1, <1>2, GrantBurning
    <3> QED  BY <1>1, <2>1, <3>1
  <2>3. BurnersInUse' = BurnersInUse + 1
    BY <1>1, <1>2, GrantBurning, FS_AddElement DEF BurnersInUse
  <2> QED  BY <1>1, <2>1, <2>2, <2>3 DEF TypeOK
<1>3. ASSUME NEW t \in Times, Release(t) PROVE TypeOK'
  <2>1. UNCHANGED <<clock, granted>>
    BY <1>3 DEF Release
  <2>2. BurnersInUse' = BurnersInUse - 1
    BY <1>1, <1>3, ReleaseBurning, FS_RemoveElement DEF BurnersInUse
  <2> QED  BY <1>1, <1>3, <2>1, <2>2, ReleaseBurning DEF TypeOK
<1>4. CASE Tick
  <2>1. clock' = clock + 1 /\ granted' = granted
    BY <1>4 DEF Tick
  <2>2. BurnersInUse' = BurnersInUse
    BY <1>4, TickBurning DEF BurnersInUse
  <2> QED  BY <1>1, <1>4, <2>1, <2>2, TickBurning DEF TypeOK
<1>5. CASE UNCHANGED vars
  BY <1>5 DEF vars, TypeOK, BurnersInUse, Burning
<1> QED  BY <1>2, <1>3, <1>4, <1>5 DEF Next, Finished

(***************************************************************************)
(* For any number of orders and burners and any lateness: no more burners  *)
(* are in use than there are, and no timer is armed for longer than a      *)
(* sausage takes.                                                          *)
(***************************************************************************)
THEOREM TypeCorrect == Spec => []TypeOK
<1>1. Init => TypeOK
  BY InitBurning
<1>2. TypeOK /\ [Next]_vars => TypeOK'
  BY NextType
<1> QED  BY <1>1, <1>2, PTL DEF Spec

-----------------------------------------------------------------------------
(***************************************************************************)
(* Any schedule bounds the run.                                            *)
(***************************************************************************)
LEMMA GrantEarly ==
  ASSUME NEW s, IsSchedule(s), NotBefore(s), TypeOK, Early(s), Grant
  PROVE  Early(s)'
<1>1. /\ clock \in Nat /\ granted \in Nat /\ MaxLate \in Nat /\ granted + 1 \in Requests
      /\ NumBurners \in Nat /\ clock' = clock /\ granted' = granted + 1 /\ granted + 1 - 1 = granted
      /\ s[granted + 1] \in Nat /\ BurnersInUse < NumBurners
  BY TimingAssumption DEF TypeOK, Grant, TakeBurner, Requests, IsSchedule
<1>2. Dur(granted + 1) = CookTime(granted) /\ CookTime(granted) \in {10, 15}
  BY <1>1, CookTimes DEF Dur
<1>3. clock >= s[granted + 1]
  <2> SUFFICES ASSUME clock < s[granted + 1] PROVE FALSE
    BY <1>1
  <2>1. Cardinality(StillCooking(s, 0, granted, clock)) >= NumBurners
    BY <1>1 DEF NotBefore
  <2>2. Cardinality(RunsAfter(clock)) >= Cardinality(StillCooking(s, 0, granted, clock))
    BY <1>1 DEF Early
  <2>3. Cardinality(RunsAfter(clock)) <= BurnersInUse
    BY <1>1, BurningFinite, FS_Subset DEF RunsAfter, BurnersInUse
  <2>4. /\ Cardinality(RunsAfter(clock)) \in Nat /\ BurnersInUse \in Nat
        /\ Cardinality(StillCooking(s, 0, granted, clock)) \in Nat
    BY <1>1, BurningFinite, StillCookingFinite
  <2> QED  BY <1>1, <2>1, <2>2, <2>3, <2>4
<1>4. ASSUME NEW T \in Nat, T >= clock
      PROVE  Cardinality(RunsAfter(T)') >= Cardinality(StillCooking(s, 0, granted + 1, T))
  <2>1. Taken[1] = clock + CookTime(granted) + MaxLate
    BY <1>1, <1>2 DEF Taken, Longest
  <2>2. /\ Cardinality(RunsAfter(T)) \in Nat /\ IsFiniteSet(RunsAfter(T))
        /\ Cardinality(StillCooking(s, 0, granted, T)) \in Nat
        /\ Cardinality(RunsAfter(T)) >= Cardinality(StillCooking(s, 0, granted, T))
    BY <1>1, <1>4, BurningFinite, StillCookingFinite DEF Early
  <2>3. Cardinality(StillCooking(s, 0, granted + 1, T)) =
          IF s[granted + 1] + CookTime(granted) > T
            THEN Cardinality(StillCooking(s, 0, granted, T)) + 1
            ELSE Cardinality(StillCooking(s, 0, granted, T))
    BY <1>1, <1>2, StillCookingNext
  <2>4. CASE clock + CookTime(granted) > T
    <3>1. RunsAfter(T)' = RunsAfter(T) \cup {Taken} /\ Taken \notin RunsAfter(T)
      BY <1>1, <1>2, <2>1, <2>4, GrantBurning DEF RunsAfter
    <3>2. Cardinality(RunsAfter(T)') = Cardinality(RunsAfter(T)) + 1
      BY <2>2, <3>1, FS_AddElement
    <3> QED  BY <2>2, <2>3, <3>2
  <2>5. CASE ~(clock + CookTime(granted) > T)
    <3>1. RunsAfter(T)' = RunsAfter(T)
      BY <1>1, <1>2, <2>1, <2>5, GrantBurning DEF RunsAfter
    <3>2. ~(s[granted + 1] + CookTime(granted) > T)
      BY <1>1, <1>2, <1>3, <2>5
    <3> QED  BY <2>2, <2>3, <3>1, <3>2
  <2> QED  BY <2>4, <2>5
<1> QED  BY <1>1, <1>4 DEF Early

LEMMA NextEarly ==
  ASSUME NEW s, IsSchedule(s), NotBefore(s), TypeOK, Early(s), [Next]_vars
  PROVE  Early(s)'
<1>1. clock \in Nat /\ MaxLate \in Nat
  BY TimingAssumption DEF TypeOK
<1>2. CASE Grant
  BY <1>2, GrantEarly
<1>3. ASSUME NEW t \in Times, Release(t) PROVE Early(s)'
  <2>1. clock' = clock /\ granted' = granted /\ t <= MaxLate
    BY <1>3 DEF Release
  <2>2. ASSUME NEW T \in Nat, T >= clock PROVE RunsAfter(T)' = RunsAfter(T)
    <3>1. Left(t)[1] = clock + t /\ t \in Nat
      BY TimingAssumption DEF Left, Times, SausageTime
    <3>2. ~(Left(t)[1] > T + MaxLate)
      BY <1>1, <2>1, <2>2, <3>1
    <3> QED  BY <1>3, <3>2, ReleaseBurning DEF RunsAfter
  <2> QED  BY <2>1, <2>2 DEF Early
<1>4. CASE Tick
  <2>1. clock' = clock + 1 /\ granted' = granted
    BY <1>4 DEF Tick
  <2>2. \A T : RunsAfter(T)' = RunsAfter(T)
    BY <1>4, TickBurning DEF RunsAfter
  <2> QED  BY <1>1, <2>1, <2>2 DEF Early
<1>5. CASE UNCHANGED vars
  BY <1>5 DEF vars, Early, RunsAfter, Burning
<1> QED  BY <1>2, <1>3, <1>4, <1>5 DEF Next, Finished

LEMMA EarlySteps ==
  ASSUME NEW s, IsSchedule(s), NotBefore(s)
  PROVE  /\ Init => Early(s)
         /\ TypeOK /\ Early(s) /\ [Next]_vars => Early(s)'
         /\ TypeOK /\ Early(s) => (Done => \A r \in Requests : clock >= s[r] + Dur(r))
<1>1. Init => Early(s)
  <2> SUFFICES ASSUME Init, NEW T \in Nat
               PROVE  Cardinality(RunsAfter(T)) >= Cardinality(StillCooking(s, 0, granted, T))
    BY DEF Early
  <2>1. granted = 0 /\ clock \in Nat
    BY DEF Init
  <2>2. StillCooking(s, 0, granted, T) = {}
    BY <2>1 DEF StillCooking, Requests
  <2> QED  BY <2>1, <2>2, BurningFinite, FS_EmptySet
<1>2. TypeOK /\ Early(s) /\ [Next]_vars => Early(s)'
  BY NextEarly
<1>3. TypeOK /\ Early(s) => (Done => \A r \in Requests : clock >= s[r] + Dur(r))
  <2> SUFFICES ASSUME TypeOK, Early(s), Done, NEW r \in Requests
               PROVE  clock >= s[r] + Dur(r)
    OBVIOUS
  <2>1. clock \in Nat /\ granted = 2 * NumOrders /\ BurnersInUse = 0
    BY DEF TypeOK, Done
  <2>2. Burning = {}
    BY <2>1, BurningFinite, FS_EmptySet DEF BurnersInUse
  <2>3. RunsAfter(clock) = {} /\ Cardinality(RunsAfter(clock)) = 0
    BY <2>2, FS_EmptySet DEF RunsAfter
  <2>4. Cardinality(StillCooking(s, 0, granted, clock)) = 0
    BY <2>1, <2>3, StillCookingFinite DEF Early
  <2>5. StillCooking(s, 0, granted, clock) = {}
    BY <2>4, StillCookingFinite, FS_EmptySet
  <2>6. ~(s[r] + Dur(r) + 0 > clock)
    BY <2>1, <2>5, TimingAssumption DEF StillCooking, Requests
  <2>7. s[r] \in Nat /\ Dur(r) \in Nat
    BY CookTimes DEF IsSchedule, Requests, Dur
  <2> QED  BY <2>1, <2>6, <2>7
<1> QED  BY <1>1, <1>2, <1>3

(***************************************************************************)
(* A lower bound, for any number of orders and burners: if before a        *)
(* request's time in the schedule all burners must still be busy with      *)
(* requests made before it, then the last hot dog is not ready before the  *)
(* schedule's end.                                                         *)
(***************************************************************************)
THEOREM NoSooner ==
  ASSUME NEW CONSTANT s, IsSchedule(s), NotBefore(s)
  PROVE  Spec => [](Done => \A r \in Requests : clock >= s[r] + Dur(r))
<1>1. /\ Init => Early(s)
      /\ TypeOK /\ Early(s) /\ [Next]_vars => Early(s)'
      /\ TypeOK /\ Early(s) => (Done => \A r \in Requests : clock >= s[r] + Dur(r))
  BY EarlySteps
<1> QED  BY <1>1, TypeCorrect, PTL DEF Spec

LEMMA GrantLate ==
  ASSUME NEW s, IsSchedule(s), TypeOK, Late(s), Grant
  PROVE  Late(s)'
<1>1. /\ clock \in Nat /\ granted \in Nat /\ MaxLate \in Nat /\ granted + 1 \in Requests
      /\ clock' = clock /\ granted' = granted + 1 /\ s[granted + 1] \in Nat
  BY TimingAssumption DEF TypeOK, Grant, TakeBurner, Requests, IsSchedule
<1>2. Dur(granted + 1) = CookTime(granted) /\ CookTime(granted) \in {10, 15}
  BY <1>1, CookTimes DEF Dur
<1>3. clock <= s[granted + 1]
  BY <1>1 DEF Late
<1>4. \A r \in Requests : r > granted' => clock' <= s[r]
  BY <1>1 DEF Late, Requests
<1>5. ASSUME NEW T \in Nat, T >= clock
      PROVE  Cardinality(MayRunAfter(T)') <= Cardinality(StillCooking(s, MaxLate, granted + 1, T))
  <2>1. Taken[1] = clock + CookTime(granted) + MaxLate
    BY <1>1, <1>2 DEF Taken, Longest
  <2>2. /\ Cardinality(MayRunAfter(T)) \in Nat /\ IsFiniteSet(MayRunAfter(T))
        /\ Cardinality(StillCooking(s, MaxLate, granted, T)) \in Nat
        /\ Cardinality(MayRunAfter(T)) <= Cardinality(StillCooking(s, MaxLate, granted, T))
    BY <1>1, <1>5, BurningFinite, StillCookingFinite DEF Late
  <2>3. Cardinality(StillCooking(s, MaxLate, granted + 1, T)) =
          IF s[granted + 1] + CookTime(granted) + MaxLate > T
            THEN Cardinality(StillCooking(s, MaxLate, granted, T)) + 1
            ELSE Cardinality(StillCooking(s, MaxLate, granted, T))
    BY <1>1, <1>2, StillCookingNext
  <2>4. CASE clock + CookTime(granted) + MaxLate > T
    <3>1. MayRunAfter(T)' = MayRunAfter(T) \cup {Taken} /\ Taken \notin MayRunAfter(T)
      BY <1>1, <1>2, <2>1, <2>4, GrantBurning DEF MayRunAfter
    <3>2. Cardinality(MayRunAfter(T)') = Cardinality(MayRunAfter(T)) + 1
      BY <2>2, <3>1, FS_AddElement
    <3>3. s[granted + 1] + CookTime(granted) + MaxLate > T
      BY <1>1, <1>2, <1>3, <2>4
    <3> QED  BY <2>2, <2>3, <3>2, <3>3
  <2>5. CASE ~(clock + CookTime(granted) + MaxLate > T)
    <3>1. MayRunAfter(T)' = MayRunAfter(T)
      BY <1>1, <1>2, <2>1, <2>5, GrantBurning DEF MayRunAfter
    <3> QED  BY <2>2, <2>3, <3>1
  <2> QED  BY <2>4, <2>5
<1> QED  BY <1>1, <1>4, <1>5 DEF Late

\* Time passes only when all burners are in use, and then none of them is due.
LEMMA TickLate ==
  ASSUME NEW s, IsSchedule(s), NotAfter(s), TypeOK, Late(s), Tick
  PROVE  Late(s)'
<1>1. /\ clock \in Nat /\ granted \in 0..(2 * NumOrders) /\ NumBurners \in Nat /\ NumOrders \in Nat
      /\ clock' = clock + 1 /\ granted' = granted
      /\ granted = 2 * NumOrders \/ BurnersInUse = NumBurners
  BY TimingAssumption DEF TypeOK, Tick
<1>2. \A T : MayRunAfter(T)' = MayRunAfter(T)
  BY TickBurning DEF MayRunAfter
<1>3. ASSUME NEW r \in Requests, r > granted
      PROVE  clock + 1 <= s[r]
  <2>1. granted + 1 \in Requests /\ granted + 1 - 1 = granted /\ BurnersInUse = NumBurners
    BY <1>1, <1>3 DEF Requests
  <2>2. s[granted + 1] \in Nat /\ s[r] \in Nat /\ s[granted + 1] <= s[r] /\ clock <= s[granted + 1]
    BY <1>1, <1>3, <2>1 DEF IsSchedule, Late, Requests
  <2>3. clock # s[granted + 1]
    <3> SUFFICES ASSUME clock = s[granted + 1] PROVE FALSE
      OBVIOUS
    <3>1. MayRunAfter(clock) = Burning
      BY TickBurning DEF MayRunAfter
    <3>2. Cardinality(MayRunAfter(clock)) = NumBurners
      BY <2>1, <3>1 DEF BurnersInUse
    <3>3. Cardinality(MayRunAfter(clock)) <= Cardinality(StillCooking(s, MaxLate, granted, clock))
      BY <1>1 DEF Late
    <3>4. Cardinality(StillCooking(s, MaxLate, granted + 1 - 1, s[granted + 1])) < NumBurners
      BY <1>1, <2>1 DEF NotAfter
    <3>5. Cardinality(StillCooking(s, MaxLate, granted, clock)) < NumBurners
      BY <2>1, <3>4
    <3> QED  BY <1>1, <3>2, <3>3, <3>5, StillCookingFinite
  <2> QED  BY <1>1, <2>2, <2>3
<1> QED  BY <1>1, <1>2, <1>3 DEF Late

LEMMA NextLate ==
  ASSUME NEW s, IsSchedule(s), NotAfter(s), TypeOK, Late(s), [Next]_vars
  PROVE  Late(s)'
<1>1. CASE Grant
  BY <1>1, GrantLate
<1>2. ASSUME NEW t \in Times, Release(t) PROVE Late(s)'
  <2>1. clock' = clock /\ granted' = granted /\ clock \in Nat
    BY <1>2 DEF Release, TypeOK
  <2>2. ASSUME NEW T \in Nat, T >= clock
        PROVE  Cardinality(MayRunAfter(T)') <= Cardinality(MayRunAfter(T))
    <3>1. MayRunAfter(T)' \in SUBSET MayRunAfter(T)
      BY <1>2, ReleaseBurning DEF MayRunAfter
    <3> QED  BY <2>1, <3>1, BurningFinite, FS_Subset
  <2>3. ASSUME NEW T \in Nat, T >= clock
        PROVE  Cardinality(MayRunAfter(T)') <= Cardinality(StillCooking(s, MaxLate, granted, T))
    <3>1. /\ Cardinality(MayRunAfter(T)) \in Nat
          /\ Cardinality(StillCooking(s, MaxLate, granted, T)) \in Nat
          /\ Cardinality(MayRunAfter(T)) <= Cardinality(StillCooking(s, MaxLate, granted, T))
      BY <2>1, <2>3, BurningFinite, StillCookingFinite DEF Late
    <3>2. Cardinality(MayRunAfter(T)') \in Nat
      <4>1. MayRunAfter(T)' \in SUBSET MayRunAfter(T)
        BY <1>2, ReleaseBurning DEF MayRunAfter
      <4> QED  BY <2>1, <4>1, BurningFinite, FS_Subset, FS_CardinalityType
    <3> QED  BY <2>2, <2>3, <3>1, <3>2
  <2> QED  BY <2>1, <2>3 DEF Late
<1>3. CASE Tick
  BY <1>3, TickLate
<1>4. CASE UNCHANGED vars
  BY <1>4 DEF vars, Late, MayRunAfter, Burning
<1> QED  BY <1>1, <1>2, <1>3, <1>4 DEF Next, Finished

LEMMA TickEnd ==
  ASSUME NEW s, IsSchedule(s), NotAfter(s), TypeOK, Late(s), Tick,
         NEW end \in Nat, \A r \in Requests : s[r] + Dur(r) + MaxLate <= end
  PROVE  clock' <= end
<1>1. /\ clock \in Nat /\ granted \in 0..(2 * NumOrders) /\ NumBurners \in Nat \ {0}
      /\ NumOrders \in Nat /\ MaxLate \in Nat
      /\ clock' = clock + 1
      /\ granted = 2 * NumOrders \/ BurnersInUse = NumBurners
  BY TimingAssumption DEF TypeOK, Tick
<1>2. BurnersInUse # 0
  BY <1>1 DEF Tick, Done
<1>3. MayRunAfter(clock) = Burning
  BY TickBurning DEF MayRunAfter
<1>4. /\ Cardinality(MayRunAfter(clock)) <= Cardinality(StillCooking(s, MaxLate, granted, clock))
      /\ Cardinality(MayRunAfter(clock)) \in Nat \ {0}
      /\ Cardinality(StillCooking(s, MaxLate, granted, clock)) \in Nat
  BY <1>1, <1>2, <1>3, BurningFinite, StillCookingFinite DEF Late, BurnersInUse
<1>5. PICK r \in Requests : s[r] + Dur(r) + MaxLate > clock
  <2>1. StillCooking(s, MaxLate, granted, clock) # {}
    BY <1>4, FS_EmptySet
  <2> QED  BY <2>1 DEF StillCooking
<1>6. s[r] \in Nat /\ Dur(r) \in Nat /\ s[r] + Dur(r) + MaxLate <= end
  BY CookTimes DEF IsSchedule, Requests, Dur
<1> QED  BY <1>1, <1>5, <1>6

LEMMA LateSteps ==
  ASSUME NEW s, IsSchedule(s), NotAfter(s),
         NEW end \in Nat, \A r \in Requests : s[r] + Dur(r) + MaxLate <= end
  PROVE  /\ Init => Late(s) /\ clock <= end
         /\ TypeOK /\ Late(s) /\ clock <= end /\ [Next]_vars => Late(s)' /\ (clock <= end)'
<1>1. Init => Late(s) /\ clock <= end
  <2> SUFFICES ASSUME Init PROVE Late(s) /\ clock <= end
    OBVIOUS
  <2>1. clock = 0 /\ \A r \in Requests : s[r] \in Nat
    BY DEF Init, IsSchedule
  <2>2. \A T \in Nat : MayRunAfter(T) = {} /\ Cardinality(MayRunAfter(T)) = 0
    BY InitBurning, FS_EmptySet DEF MayRunAfter
  <2> QED  BY <2>1, <2>2, StillCookingFinite DEF Late
<1>2. TypeOK /\ Late(s) /\ clock <= end /\ [Next]_vars => Late(s)' /\ (clock <= end)'
  <2> SUFFICES ASSUME TypeOK, Late(s), clock <= end, [Next]_vars
               PROVE  clock' <= end
    BY NextLate
  <2>1. CASE Tick
    BY <2>1, TickEnd
  <2>2. CASE clock' = clock
    BY <2>2
  <2> QED  BY <2>1, <2>2 DEF Next, Grant, TakeBurner, Release, Finished, vars
<1> QED  BY <1>1, <1>2

(***************************************************************************)
(* An upper bound, for any number of orders and burners and any lateness:  *)
(* if at each request's time in the schedule a burner must be free again,  *)
(* then the program ends by the time the schedule does.                    *)
(***************************************************************************)
THEOREM NoLater ==
  ASSUME NEW CONSTANT s, IsSchedule(s), NotAfter(s),
         NEW CONSTANT end \in Nat, \A r \in Requests : s[r] + Dur(r) + MaxLate <= end
  PROVE  Spec => [](clock <= end)
<1>1. /\ Init => Late(s) /\ clock <= end
      /\ TypeOK /\ Late(s) /\ clock <= end /\ [Next]_vars => Late(s)' /\ (clock <= end)'
  BY LateSteps
<1> QED  BY <1>1, TypeCorrect, PTL DEF Spec

-----------------------------------------------------------------------------
(***************************************************************************)
(* Schedules for any size: rounds of as many requests as there are         *)
(* burners, as if all of them were breads, or all of them late sausages.   *)
(***************************************************************************)
Round(r) == (r - 1) \div NumBurners
Rounds == Round(2 * NumOrders) + 1
RoundsOf(time) == [r \in Requests |-> time * Round(r)]

LEMMA TimesMonotone ==
  ASSUME NEW a \in Nat, NEW b \in Nat, NEW c \in Nat, a <= b
  PROVE  a * c <= b * c
<1>1. (b - a) * c >= 0
  BY SMT
<1>2. (b - a) * c = b * c - a * c
  BY SMT
<1>3. a * c \in Nat /\ b * c \in Nat
  BY SMT
<1> QED  BY <1>1, <1>2, <1>3

LEMMA RoundBounds ==
  ASSUME NEW n \in Nat
  PROVE  /\ n \div NumBurners \in Nat
         /\ (n \div NumBurners) * NumBurners <= n
         /\ n < (n \div NumBurners) * NumBurners + NumBurners
BY TimingAssumption, SMT

\* A round has begun exactly when its first request has been reached.
LEMMA RoundReached ==
  ASSUME NEW n \in Nat, NEW q \in Nat
  PROVE  n \div NumBurners >= q <=> n >= q * NumBurners
<1> DEFINE m == n \div NumBurners
<1>1. NumBurners \in Nat \ {0}
  BY TimingAssumption
<1>2. m \in Nat /\ m * NumBurners <= n /\ n < m * NumBurners + NumBurners /\ m * NumBurners \in Nat
  BY <1>1, RoundBounds
<1>3. q * NumBurners \in Nat
  BY <1>1
<1> HIDE DEF m
<1>4. ASSUME m >= q PROVE n >= q * NumBurners
  <2>1. q * NumBurners <= m * NumBurners
    BY <1>1, <1>2, <1>4, TimesMonotone
  <2> QED  BY <1>2, <1>3, <2>1
<1>5. ASSUME ~(m >= q) PROVE ~(n >= q * NumBurners)
  <2>1. m + 1 <= q /\ m + 1 \in Nat
    BY <1>2, <1>5
  <2>2. (m + 1) * NumBurners <= q * NumBurners
    BY <1>1, <2>1, TimesMonotone
  <2>3. (m + 1) * NumBurners = m * NumBurners + NumBurners
    BY <1>1, <1>2
  <2> QED  BY <1>1, <1>2, <1>3, <2>2, <2>3
<1> QED  BY <1>4, <1>5 DEF m

LEMMA RoundMonotone ==
  ASSUME NEW q \in Requests, NEW r \in Requests
  PROVE  /\ Round(q) \in Nat
         /\ q <= r => Round(q) <= Round(r)
<1>1. q - 1 \in Nat /\ r - 1 \in Nat /\ NumBurners \in Nat
  BY TimingAssumption DEF Requests
<1>2. /\ Round(q) \in Nat /\ Round(r) \in Nat
      /\ Round(q) * NumBurners <= q - 1 /\ Round(q) * NumBurners \in Nat
  BY <1>1, RoundBounds DEF Round
<1>3. Round(r) >= Round(q) <=> r - 1 >= Round(q) * NumBurners
  BY <1>1, <1>2, RoundReached DEF Round
<1> QED  BY <1>1, <1>2, <1>3 DEF Requests

LEMMA RoundsSchedule ==
  ASSUME NEW time \in Nat
  PROVE  /\ IsSchedule(RoundsOf(time))
         /\ \A r \in Requests : RoundsOf(time)[r] = time * Round(r)
<1>1. \A r \in Requests : RoundsOf(time)[r] = time * Round(r)
  BY DEF RoundsOf
<1>2. \A r \in Requests : time * Round(r) \in Nat
  BY RoundMonotone
<1>3. ASSUME NEW q \in Requests, NEW r \in Requests, q <= r
      PROVE  time * Round(q) <= time * Round(r)
  <2>1. Round(q) \in Nat /\ Round(r) \in Nat /\ Round(q) <= Round(r)
    BY <1>3, RoundMonotone
  <2>2. Round(q) * time <= Round(r) * time
    BY <2>1, TimesMonotone
  <2>3. Round(q) * time = time * Round(q) /\ Round(r) * time = time * Round(r)
    BY <2>1
  <2> QED  BY <2>2, <2>3
<1> QED  BY <1>1, <1>2, <1>3 DEF IsSchedule, RoundsOf

LEMMA DurBounds ==
  ASSUME NEW r \in Requests
  PROVE  Dur(r) \in BreadTime .. SausageTime
BY CookTimes DEF Dur, Requests, BreadTime, SausageTime

\* Until a round may begin, the requests of the last NumBurners are being served.
LEMMA RoundsNotBefore == NotBefore(RoundsOf(BreadTime))
<1> DEFINE s == RoundsOf(BreadTime)
<1> SUFFICES ASSUME NEW r \in Requests, NEW T \in Nat, T < s[r]
             PROVE  Cardinality(StillCooking(s, 0, r - 1, T)) >= NumBurners
  BY DEF NotBefore
<1>1. /\ NumBurners \in Nat \ {0} /\ r \in Nat /\ r - 1 \in Nat /\ Round(r) \in Nat
      /\ \A q \in Requests : s[q] = 10 * Round(q)
  BY TimingAssumption, RoundsSchedule, RoundMonotone DEF Requests, BreadTime
<1>2. Round(r) >= 1 /\ T < 10 * Round(r)
  BY <1>1
<1> HIDE DEF s
<1>3. PICK p \in Nat : Round(r) = p + 1
  <2>1. Round(r) - 1 \in Nat /\ Round(r) = (Round(r) - 1) + 1
    BY <1>1, <1>2
  <2> QED  BY <2>1
<1>4. r - 1 >= p * NumBurners + NumBurners /\ p * NumBurners \in Nat
  <2>1. r - 1 >= (p + 1) * NumBurners
    BY <1>1, <1>3, RoundBounds DEF Round
  <2>2. (p + 1) * NumBurners = p * NumBurners + NumBurners /\ p * NumBurners \in Nat
    BY <1>1
  <2> QED  BY <2>1, <2>2
<1>5. ASSUME NEW q \in (r - NumBurners)..(r - 1)
      PROVE  q \in StillCooking(s, 0, r - 1, T)
  <2>1. q \in Requests /\ q - 1 \in Nat /\ q - 1 >= p * NumBurners
    BY <1>1, <1>4, TimingAssumption DEF Requests
  <2>2. Round(q) >= p /\ Round(q) \in Nat
    BY <2>1, RoundReached, RoundMonotone DEF Round
  <2>3. Dur(q) >= 10 /\ Dur(q) \in Nat
    BY <2>1, DurBounds DEF BreadTime, SausageTime
  <2>4. s[q] + Dur(q) + 0 > T /\ q <= r - 1
    BY <1>1, <1>2, <1>3, <2>1, <2>2, <2>3
  <2> QED  BY <2>1, <2>4 DEF StillCooking
<1>6. Cardinality((r - NumBurners)..(r - 1)) = NumBurners
  BY <1>1, FS_Interval
<1>7. (r - NumBurners)..(r - 1) \in SUBSET StillCooking(s, 0, r - 1, T)
  BY <1>5
<1>8. Cardinality((r - NumBurners)..(r - 1)) <= Cardinality(StillCooking(s, 0, r - 1, T))
  <2>1. IsFiniteSet(StillCooking(s, 0, r - 1, T))
    BY StillCookingFinite
  <2> QED  BY <1>7, <2>1, FS_Subset
<1> QED  BY <1>1, <1>6, <1>8, StillCookingFinite

\* When a round must begin, only requests of the same round can be before it.
LEMMA RoundsNotAfter == NotAfter(RoundsOf(SausageTime + MaxLate))
<1> DEFINE s == RoundsOf(SausageTime + MaxLate)
           late == SausageTime + MaxLate
<1> SUFFICES ASSUME NEW r \in Requests
             PROVE  Cardinality(StillCooking(s, MaxLate, r - 1, s[r])) < NumBurners
  BY DEF NotAfter
<1>1. /\ NumBurners \in Nat \ {0} /\ r \in Nat /\ r - 1 \in Nat /\ Round(r) \in Nat
      /\ late \in Nat /\ MaxLate \in Nat
  BY TimingAssumption, RoundMonotone DEF Requests, SausageTime
<1>2. \A q \in Requests : s[q] = late * Round(q)
  BY <1>1, RoundsSchedule
<1>3. /\ r - 1 < Round(r) * NumBurners + NumBurners
      /\ Round(r) * NumBurners \in Nat /\ r - 1 >= Round(r) * NumBurners
  BY <1>1, RoundBounds DEF Round
<1> DEFINE first == Round(r) * NumBurners + 1
<1> HIDE DEF s
<1>4. ASSUME NEW q \in StillCooking(s, MaxLate, r - 1, s[r])
      PROVE  q \in first..(r - 1)
  <2>1. /\ q \in Requests /\ q <= r - 1 /\ s[q] + Dur(q) + MaxLate > s[r]
        /\ q \in Nat /\ q - 1 \in Nat
    BY DEF StillCooking, Requests
  <2>2. Round(q) \in Nat /\ Dur(q) \in Nat /\ Dur(q) + MaxLate \in Nat /\ Dur(q) + MaxLate <= late
    BY <1>1, <2>1, RoundMonotone, DurBounds DEF BreadTime, SausageTime
  <2>3. Round(q) >= Round(r)
    <3> SUFFICES ASSUME Round(q) + 1 <= Round(r) PROVE FALSE
      BY <1>1, <2>2
    <3>1. (Round(q) + 1) * late <= Round(r) * late
      BY <1>1, <2>2, TimesMonotone
    <3>2. /\ (Round(q) + 1) * late = late * Round(q) + late
          /\ Round(r) * late = late * Round(r)
          /\ late * Round(q) \in Nat /\ late * Round(r) \in Nat
      BY <1>1, <2>2
    <3>3. s[q] = late * Round(q) /\ s[r] = late * Round(r)
      BY <1>2, <2>1
    <3> QED  BY <1>1, <2>1, <2>2, <3>1, <3>2, <3>3
  <2>4. q - 1 >= Round(r) * NumBurners
    BY <1>1, <2>1, <2>3, RoundReached DEF Round
  <2> QED  BY <1>1, <1>3, <2>1, <2>4
<1>5. Cardinality(first..(r - 1)) < NumBurners /\ IsFiniteSet(first..(r - 1))
  <2>1. first \in Int /\ r - 1 \in Int
    BY <1>1, <1>3
  <2>2. /\ IsFiniteSet(first..(r - 1))
        /\ Cardinality(first..(r - 1)) = IF first > r - 1 THEN 0 ELSE r - 1 - first + 1
    BY <2>1, FS_Interval
  <2> QED  BY <1>1, <1>3, <2>1, <2>2
<1>6. StillCooking(s, MaxLate, r - 1, s[r]) \in SUBSET (first..(r - 1))
  BY <1>4
<1>7. Cardinality(StillCooking(s, MaxLate, r - 1, s[r])) <= Cardinality(first..(r - 1))
  BY <1>5, <1>6, FS_Subset
<1>8. Cardinality(first..(r - 1)) \in Nat
  BY <1>5, FS_CardinalityType
<1> QED  BY <1>1, <1>5, <1>7, <1>8, StillCookingFinite

(***************************************************************************)
(* For any number of orders and burners and any lateness, the program      *)
(* takes at least a bread's time and at most a late sausage's for each     *)
(* round of requests (main.cpp:148-153, with other numbers).               *)
(***************************************************************************)
THEOREM AnySize ==
  Spec => []( /\ clock <= (SausageTime + MaxLate) * Rounds
              /\ Done => clock >= BreadTime * Rounds )
<1> DEFINE late == SausageTime + MaxLate
           last == 2 * NumOrders
<1>1. /\ late \in Nat /\ late * Rounds \in Nat /\ BreadTime \in Nat /\ MaxLate \in Nat
      /\ last \in Requests /\ Round(last) \in Nat /\ Rounds \in Nat
  <2>1. last \in Requests /\ late \in Nat /\ BreadTime \in Nat /\ MaxLate \in Nat
    BY TimingAssumption DEF Requests, SausageTime, BreadTime
  <2>2. Round(last) \in Nat
    BY <2>1, RoundMonotone
  <2> QED  BY <2>1, <2>2 DEF Rounds
<1>2. ASSUME NEW r \in Requests
      PROVE  RoundsOf(late)[r] + Dur(r) + MaxLate <= late * Rounds
  <2>1. Round(r) \in Nat /\ Round(r) <= Round(last)
    BY <1>1, RoundMonotone DEF Requests
  <2>2. (Round(r) + 1) * late <= Rounds * late
    BY <1>1, <2>1, TimesMonotone DEF Rounds
  <2>3. (Round(r) + 1) * late = late * Round(r) + late /\ Rounds * late = late * Rounds
    BY <1>1, <2>1
  <2>4. RoundsOf(late)[r] = late * Round(r) /\ late * Round(r) \in Nat
    BY <1>1, <2>1, RoundsSchedule
  <2>5. Dur(r) \in Nat /\ Dur(r) <= SausageTime
    BY DurBounds DEF BreadTime, SausageTime
  <2> QED  BY <1>1, <2>2, <2>3, <2>4, <2>5 DEF SausageTime
<1> DEFINE lower == RoundsOf(BreadTime)
           upper == RoundsOf(late)
<1>3. /\ Init => Late(upper) /\ clock <= late * Rounds
      /\ TypeOK /\ Late(upper) /\ clock <= late * Rounds /\ [Next]_vars
           => Late(upper)' /\ (clock <= late * Rounds)'
  BY <1>1, <1>2, LateSteps, RoundsSchedule, RoundsNotAfter
<1>4. /\ Init => Early(lower)
      /\ TypeOK /\ Early(lower) /\ [Next]_vars => Early(lower)'
      /\ TypeOK /\ Early(lower) => (Done => \A r \in Requests : clock >= lower[r] + Dur(r))
  BY <1>1, EarlySteps, RoundsSchedule, RoundsNotBefore
<1>5. TypeOK /\ Early(lower) => (Done => clock >= BreadTime * Rounds)
  <2> SUFFICES ASSUME TypeOK, clock >= lower[last] + Dur(last)
               PROVE  clock >= BreadTime * Rounds
    BY <1>1, <1>4
  <2>1. lower[last] = 10 * Round(last) /\ BreadTime * Rounds = 10 * Round(last) + 10
    BY <1>1, RoundsSchedule DEF Rounds, BreadTime
  <2>2. Dur(last) >= 10 /\ Dur(last) \in Nat /\ clock \in Nat
    BY <1>1, DurBounds DEF BreadTime, SausageTime, TypeOK
  <2> QED  BY <1>1, <2>1, <2>2
<1> QED  BY <1>3, <1>4, <1>5, TypeCorrect, PTL DEF Spec

-----------------------------------------------------------------------------
(***************************************************************************)
(* main's own numbers.  The schedules are what the cooker does when every  *)
(* timer is on time, and when every timer is one tick late.                *)
(***************************************************************************)
MainsNumbers == NumOrders = 20 /\ NumBurners = 8 /\ MaxLate <= 1

OnTime == [r \in Requests |->
      IF r <= 8 THEN 0 ELSE IF r <= 12 THEN 10 ELSE IF r <= 16 THEN 15
       ELSE IF r <= 18 THEN 20 ELSE IF r <= 22 THEN 25 ELSE IF r <= 25 THEN 30
       ELSE IF r <= 28 THEN 35 ELSE IF r <= 31 THEN 40 ELSE IF r <= 35 THEN 45
       ELSE IF r <= 37 THEN 50 ELSE 55]

TickLater == [r \in Requests |->
      IF r <= 8 THEN 0 ELSE IF r <= 12 THEN 11 ELSE IF r <= 16 THEN 16
       ELSE IF r <= 18 THEN 22 ELSE IF r <= 22 THEN 27 ELSE IF r <= 24 THEN 32
       ELSE IF r <= 25 THEN 33 ELSE IF r <= 28 THEN 38 ELSE IF r <= 31 THEN 43
       ELSE IF r <= 32 THEN 48 ELSE IF r <= 35 THEN 49 ELSE IF r <= 37 THEN 54
       ELSE 59]

LEMMA MainsDur ==
  ASSUME MainsNumbers
  PROVE  /\ Requests = 1..40
         /\ \A r \in Requests : Dur(r) = IF r % 2 = 1 THEN 15 ELSE 10
BY DEF MainsNumbers, Requests, Dur, CookTime, SausageTime, BreadTime

\* A list of different members shows that a set is not smaller than the list.
LEMMA EightBusy ==
  ASSUME MainsNumbers, NEW r \in Requests, NEW T,
         NEW q \in [1..8 -> StillCooking(OnTime, 0, r - 1, T)],
         \A i, j \in 1..8 : i < j => q[i] # q[j]
  PROVE  Cardinality(StillCooking(OnTime, 0, r - 1, T)) >= NumBurners
<1> DEFINE S == StillCooking(OnTime, 0, r - 1, T)
<1>1. q \in Injection(1..8, S)
  <2>1. ASSUME NEW i \in 1..8, NEW j \in 1..8, q[i] = q[j] PROVE i = j
    <3>1. ~(i < j) /\ ~(j < i)
      BY <2>1
    <3> QED  BY <3>1
  <2> QED  BY <2>1 DEF Injection, IsInjective
<1>2. Cardinality(1..8) = 8
  <2>1. \A n \in Nat : Cardinality(1..n) = n
    BY FS_Interval
  <2> QED  BY <2>1
<1>3. Cardinality(1..8) <= Cardinality(S)
  BY <1>1, StillCookingFinite, FS_Injection
<1> QED  BY <1>2, <1>3, StillCookingFinite DEF MainsNumbers

LEMMA OnTimeNotBefore ==
  ASSUME MainsNumbers
  PROVE  IsSchedule(OnTime) /\ NotBefore(OnTime)
<1>1. Requests = 1..40 /\ \A r \in Requests : Dur(r) = IF r % 2 = 1 THEN 15 ELSE 10
  BY MainsDur
<1>2. IsSchedule(OnTime)
  <2>1. OnTime \in [Requests -> Nat]
    BY <1>1 DEF OnTime
  <2>2. \A q, r \in Requests : q <= r => OnTime[q] <= OnTime[r]
    BY <1>1, SMTT(30) DEF OnTime
  <2> QED  BY <2>1, <2>2 DEF IsSchedule
<1>3. ASSUME NEW r \in Requests, NEW T \in Nat, T < OnTime[r]
      PROVE  Cardinality(StillCooking(OnTime, 0, r - 1, T)) >= NumBurners
  <2> DEFINE Busy == StillCooking(OnTime, 0, r - 1, T)
  <2>1. CASE r \in 9..12
    <3>1. T < 10
      BY <1>1, <1>3, <2>1 DEF OnTime
    <3>2. <<1, 2, 3, 4, 5, 6, 7, 8>> \in [1..8 -> Busy]
      BY <1>1, <2>1, <3>1 DEF StillCooking, OnTime
    <3> QED  BY <3>2, EightBusy
  <2>2. CASE r \in 13..16
    <3>1. T < 15
      BY <1>1, <1>3, <2>2 DEF OnTime
    <3>2. <<1, 3, 5, 7, 9, 10, 11, 12>> \in [1..8 -> Busy]
      BY <1>1, <2>2, <3>1 DEF StillCooking, OnTime
    <3> QED  BY <3>2, EightBusy
  <2>3. CASE r \in 17..18
    <3>1. T < 20
      BY <1>1, <1>3, <2>3 DEF OnTime
    <3>2. <<9, 10, 11, 12, 13, 14, 15, 16>> \in [1..8 -> Busy]
      BY <1>1, <2>3, <3>1 DEF StillCooking, OnTime
    <3> QED  BY <3>2, EightBusy
  <2>4. CASE r \in 19..22
    <3>1. T < 25
      BY <1>1, <1>3, <2>4 DEF OnTime
    <3>2. <<9, 11, 13, 14, 15, 16, 17, 18>> \in [1..8 -> Busy]
      BY <1>1, <2>4, <3>1 DEF StillCooking, OnTime
    <3> QED  BY <3>2, EightBusy
  <2>5. CASE r \in 23..25
    <3>1. T < 30
      BY <1>1, <1>3, <2>5 DEF OnTime
    <3>2. <<13, 15, 17, 18, 19, 20, 21, 22>> \in [1..8 -> Busy]
      BY <1>1, <2>5, <3>1 DEF StillCooking, OnTime
    <3> QED  BY <3>2, EightBusy
  <2>6. CASE r \in 26..28
    <3>1. T < 35
      BY <1>1, <1>3, <2>6 DEF OnTime
    <3>2. <<17, 19, 20, 21, 22, 23, 24, 25>> \in [1..8 -> Busy]
      BY <1>1, <2>6, <3>1 DEF StillCooking, OnTime
    <3> QED  BY <3>2, EightBusy
  <2>7. CASE r \in 29..31
    <3>1. T < 40
      BY <1>1, <1>3, <2>7 DEF OnTime
    <3>2. <<19, 21, 23, 24, 25, 26, 27, 28>> \in [1..8 -> Busy]
      BY <1>1, <2>7, <3>1 DEF StillCooking, OnTime
    <3> QED  BY <3>2, EightBusy
  <2>8. CASE r \in 32..35
    <3>1. T < 45
      BY <1>1, <1>3, <2>8 DEF OnTime
    <3>2. <<23, 25, 26, 27, 28, 29, 30, 31>> \in [1..8 -> Busy]
      BY <1>1, <2>8, <3>1 DEF StillCooking, OnTime
    <3> QED  BY <3>2, EightBusy
  <2>9. CASE r \in 36..37
    <3>1. T < 50
      BY <1>1, <1>3, <2>9 DEF OnTime
    <3>2. <<27, 29, 30, 31, 32, 33, 34, 35>> \in [1..8 -> Busy]
      BY <1>1, <2>9, <3>1 DEF StillCooking, OnTime
    <3> QED  BY <3>2, EightBusy
  <2>10. CASE r \in 38..40
    <3>1. T < 55
      BY <1>1, <1>3, <2>10 DEF OnTime
    <3>2. <<29, 31, 32, 33, 34, 35, 36, 37>> \in [1..8 -> Busy]
      BY <1>1, <2>10, <3>1 DEF StillCooking, OnTime
    <3> QED  BY <3>2, EightBusy
  <2>0. r \in 9..40
    BY <1>1, <1>3 DEF OnTime
  <2> QED  BY <2>0, <2>1, <2>2, <2>3, <2>4, <2>5, <2>6, <2>7, <2>8, <2>9, <2>10
<1> QED  BY <1>2, <1>3 DEF NotBefore

\* A list of all members shows that a set is not larger than the list.
LEMMA SevenBusy ==
  ASSUME MainsNumbers, NEW r \in Requests, NEW T,
         NEW q \in [1..7 -> Nat],
         StillCooking(TickLater, MaxLate, r - 1, T) \in SUBSET {q[i] : i \in 1..7}
  PROVE  Cardinality(StillCooking(TickLater, MaxLate, r - 1, T)) < NumBurners
<1> DEFINE all == {q[i] : i \in 1..7}
           S == StillCooking(TickLater, MaxLate, r - 1, T)
<1>1. q \in Surjection(1..7, all)
  BY DEF Surjection
<1> HIDE DEF all
<1>2. ExistsSurjection(1..7, all)
  BY <1>1 DEF ExistsSurjection
<1>3. IsFiniteSet(all) /\ Cardinality(all) <= 7 /\ Cardinality(all) \in Nat
  BY <1>2, FS_NatSurjection, FS_SurjCardinalityBound, FS_CardinalityType
<1>4. Cardinality(S) <= Cardinality(all)
  BY <1>3, FS_Subset DEF all
<1> QED  BY <1>3, <1>4, StillCookingFinite DEF MainsNumbers

LEMMA TickLaterNotAfter ==
  ASSUME MainsNumbers
  PROVE  /\ IsSchedule(TickLater) /\ NotAfter(TickLater)
         /\ \A r \in Requests : TickLater[r] + Dur(r) + MaxLate <= 75
<1>1. /\ Requests = 1..40 /\ \A r \in Requests : Dur(r) = IF r % 2 = 1 THEN 15 ELSE 10
      /\ MaxLate \in 0..1
  BY MainsDur, TimingAssumption DEF MainsNumbers
<1>2. IsSchedule(TickLater)
  <2>1. TickLater \in [Requests -> Nat]
    BY <1>1 DEF TickLater
  <2>2. \A q, r \in Requests : q <= r => TickLater[q] <= TickLater[r]
    BY <1>1, SMTT(30) DEF TickLater
  <2> QED  BY <2>1, <2>2 DEF IsSchedule
<1>3. ASSUME NEW r \in Requests
      PROVE  Cardinality(StillCooking(TickLater, MaxLate, r - 1, TickLater[r])) < NumBurners
  <2> DEFINE Busy(T) == StillCooking(TickLater, MaxLate, r - 1, T)
  <2>1. CASE r \in 1..8
    <3> DEFINE q == <<1, 2, 3, 4, 5, 6, 7>>
    <3>1. TickLater[r] = 0 /\ q \in [1..7 -> Nat]
      BY <1>1, <2>1 DEF TickLater
    <3>2. Busy(0) \in SUBSET {q[i] : i \in 1..7}
      BY <1>1, <2>1 DEF StillCooking, TickLater
    <3> HIDE DEF q
    <3> QED  BY <3>1, <3>2, SevenBusy
  <2>2. CASE r \in 9..12
    <3> DEFINE q == <<1, 3, 5, 7, 9, 10, 11>>
    <3>1. TickLater[r] = 11 /\ q \in [1..7 -> Nat]
      BY <1>1, <2>2 DEF TickLater
    <3>2. Busy(11) \in SUBSET {q[i] : i \in 1..7}
      BY <1>1, <2>2 DEF StillCooking, TickLater
    <3> HIDE DEF q
    <3> QED  BY <3>1, <3>2, SevenBusy
  <2>3. CASE r \in 13..16
    <3> DEFINE q == <<9, 10, 11, 12, 13, 14, 15>>
    <3>1. TickLater[r] = 16 /\ q \in [1..7 -> Nat]
      BY <1>1, <2>3 DEF TickLater
    <3>2. Busy(16) \in SUBSET {q[i] : i \in 1..7}
      BY <1>1, <2>3 DEF StillCooking, TickLater
    <3> HIDE DEF q
    <3> QED  BY <3>1, <3>2, SevenBusy
  <2>4. CASE r \in 17..18
    <3> DEFINE q == <<9, 11, 13, 14, 15, 16, 17>>
    <3>1. TickLater[r] = 22 /\ q \in [1..7 -> Nat]
      BY <1>1, <2>4 DEF TickLater
    <3>2. Busy(22) \in SUBSET {q[i] : i \in 1..7}
      BY <1>1, <2>4 DEF StillCooking, TickLater
    <3> HIDE DEF q
    <3> QED  BY <3>1, <3>2, SevenBusy
  <2>5. CASE r \in 19..22
    <3> DEFINE q == <<13, 15, 17, 18, 19, 20, 21>>
    <3>1. TickLater[r] = 27 /\ q \in [1..7 -> Nat]
      BY <1>1, <2>5 DEF TickLater
    <3>2. Busy(27) \in SUBSET {q[i] : i \in 1..7}
      BY <1>1, <2>5 DEF StillCooking, TickLater
    <3> HIDE DEF q
    <3> QED  BY <3>1, <3>2, SevenBusy
  <2>6. CASE r \in 23..24
    <3> DEFINE q == <<17, 18, 19, 20, 21, 22, 23>>
    <3>1. TickLater[r] = 32 /\ q \in [1..7 -> Nat]
      BY <1>1, <2>6 DEF TickLater
    <3>2. Busy(32) \in SUBSET {q[i] : i \in 1..7}
      BY <1>1, <2>6 DEF StillCooking, TickLater
    <3> HIDE DEF q
    <3> QED  BY <3>1, <3>2, SevenBusy
  <2>7. CASE r \in 25..25
    <3> DEFINE q == <<17, 19, 20, 21, 22, 23, 24>>
    <3>1. TickLater[r] = 33 /\ q \in [1..7 -> Nat]
      BY <1>1, <2>7 DEF TickLater
    <3>2. Busy(33) \in SUBSET {q[i] : i \in 1..7}
      BY <1>1, <2>7 DEF StillCooking, TickLater
    <3> HIDE DEF q
    <3> QED  BY <3>1, <3>2, SevenBusy
  <2>8. CASE r \in 26..28
    <3> DEFINE q == <<19, 21, 23, 24, 25, 26, 27>>
    <3>1. TickLater[r] = 38 /\ q \in [1..7 -> Nat]
      BY <1>1, <2>8 DEF TickLater
    <3>2. Busy(38) \in SUBSET {q[i] : i \in 1..7}
      BY <1>1, <2>8 DEF StillCooking, TickLater
    <3> HIDE DEF q
    <3> QED  BY <3>1, <3>2, SevenBusy
  <2>9. CASE r \in 29..31
    <3> DEFINE q == <<23, 25, 26, 27, 28, 29, 30>>
    <3>1. TickLater[r] = 43 /\ q \in [1..7 -> Nat]
      BY <1>1, <2>9 DEF TickLater
    <3>2. Busy(43) \in SUBSET {q[i] : i \in 1..7}
      BY <1>1, <2>9 DEF StillCooking, TickLater
    <3> HIDE DEF q
    <3> QED  BY <3>1, <3>2, SevenBusy
  <2>10. CASE r \in 32..32
    <3> DEFINE q == <<25, 26, 27, 28, 29, 30, 31>>
    <3>1. TickLater[r] = 48 /\ q \in [1..7 -> Nat]
      BY <1>1, <2>10 DEF TickLater
    <3>2. Busy(48) \in SUBSET {q[i] : i \in 1..7}
      BY <1>1, <2>10 DEF StillCooking, TickLater
    <3> HIDE DEF q
    <3> QED  BY <3>1, <3>2, SevenBusy
  <2>11. CASE r \in 33..35
    <3> DEFINE q == <<27, 29, 30, 31, 32, 33, 34>>
    <3>1. TickLater[r] = 49 /\ q \in [1..7 -> Nat]
      BY <1>1, <2>11 DEF TickLater
    <3>2. Busy(49) \in SUBSET {q[i] : i \in 1..7}
      BY <1>1, <2>11 DEF StillCooking, TickLater
    <3> HIDE DEF q
    <3> QED  BY <3>1, <3>2, SevenBusy
  <2>12. CASE r \in 36..37
    <3> DEFINE q == <<29, 31, 32, 33, 34, 35, 36>>
    <3>1. TickLater[r] = 54 /\ q \in [1..7 -> Nat]
      BY <1>1, <2>12 DEF TickLater
    <3>2. Busy(54) \in SUBSET {q[i] : i \in 1..7}
      BY <1>1, <2>12 DEF StillCooking, TickLater
    <3> HIDE DEF q
    <3> QED  BY <3>1, <3>2, SevenBusy
  <2>13. CASE r \in 38..40
    <3> DEFINE q == <<33, 34, 35, 36, 37, 38, 39>>
    <3>1. TickLater[r] = 59 /\ q \in [1..7 -> Nat]
      BY <1>1, <2>13 DEF TickLater
    <3>2. Busy(59) \in SUBSET {q[i] : i \in 1..7}
      BY <1>1, <2>13 DEF StillCooking, TickLater
    <3> HIDE DEF q
    <3> QED  BY <3>1, <3>2, SevenBusy
  <2> QED  BY <1>1, <2>1, <2>2, <2>3, <2>4, <2>5, <2>6, <2>7, <2>8, <2>9, <2>10, <2>11, <2>12, <2>13
<1>4. \A r \in Requests : TickLater[r] + Dur(r) + MaxLate <= 75
  BY <1>1 DEF TickLater
<1> QED  BY <1>2, <1>3, <1>4 DEF NotAfter

(***************************************************************************)
(* main's own twenty orders on eight burners take at least 7 s, and at     *)
(* most 7.5 s when no timer is handled more than 100 ms late               *)
(* (main.cpp:150-153).                                                     *)
(***************************************************************************)
THEOREM MainsDuration ==
  ASSUME MainsNumbers
  PROVE  Spec => []CookDuration
<1>1. /\ Init => Early(OnTime)
      /\ TypeOK /\ Early(OnTime) /\ [Next]_vars => Early(OnTime)'
      /\ TypeOK /\ Early(OnTime) => (Done => \A r \in Requests : clock >= OnTime[r] + Dur(r))
  BY OnTimeNotBefore, EarlySteps
<1>2. /\ Init => Late(TickLater) /\ clock <= 75
      /\ TypeOK /\ Late(TickLater) /\ clock <= 75 /\ [Next]_vars
           => Late(TickLater)' /\ (clock <= 75)'
  BY TickLaterNotAfter, LateSteps
<1>3. TypeOK /\ Early(OnTime) /\ clock <= 75 => CookDuration
  <2>1. 39 \in Requests /\ OnTime[39] + Dur(39) = 70
    BY MainsDur DEF OnTime
  <2> QED  BY <1>1, <2>1 DEF CookDuration, TypeOK
<1> QED  BY <1>1, <1>2, <1>3, TypeCorrect, PTL DEF Spec
=============================================================================
