---------------------------- MODULE StoreProofs -----------------------------
(***************************************************************************)
(* Proofs about Store, for any finite set of orders, any number of threads *)
(* and any order of make_shared's arguments.                               *)
(*                                                                         *)
(* order_id_ and next_id_ are each incremented by a load and a store.  An  *)
(* increment is as good as an atomic one while no other job is between its *)
(* own load and its last read of the same counter (Serial).  The strand    *)
(* gives that for order_id_ and any number of threads, a single thread     *)
(* gives it for next_id_ too.                                              *)
(***************************************************************************)
EXTENDS Store, FiniteSetTheorems, SequenceTheorems, TLAPS

Size(c) == IF c[1] = "caller" THEN 2 ELSE 3

\* How far each job has come.
Progress ==
  \A c \in Jobs :
    /\ step[c] = "queued" => done[c] = 0
    /\ Running(c) => done[c] < Size(c)
    /\ step[c] = "finished" => done[c] = Size(c)

\* The strand holds orders whose caller is done and whose lambda has not run.
Posted ==
  /\ \A i \in 1..Len(cafe_strand) : step[<<"maker", cafe_strand[i]>>] = "queued"
                                    /\ step[<<"caller", cafe_strand[i]>>] = "finished"
  /\ \A i, j \in 1..Len(cafe_strand) : cafe_strand[i] = cafe_strand[j] => i = j
  /\ \A o \in Orders : step[<<"caller", o>>] # "finished" => step[<<"maker", o>>] = "queued"

OneMaker ==
  \A o, p \in Orders : Running(<<"maker", o>>) /\ Running(<<"maker", p>>) => o = p

\* The two counters, by what is counted.
Kinds == {"order", "ingredient"}
Kind(a) == IF a = "order" THEN "order" ELSE "ingredient"
Value(k) == IF k = "order" THEN order_id ELSE next_id

\* Job c has incremented the counter for a; the order o knows its a.
Stored(c, a) ==
  \E i \in 1..3 : i <= done[c] + (IF step[c] = "read" THEN 1 ELSE 0)
                  /\ i <= Size(c) /\ Program(c)[i] = a
Known(o, a) == \E i \in 1..3 : i <= done[<<"maker", o>>] /\ ArgOrder[i] = a

\* Every increment adds one at most: stores that cross lose some.
Increments == {e \in Jobs \X Ingredients : Stored(e[1], e[2])}
Numbered == {o \in Orders : Stored(<<"maker", o>>, "order")}

Bounded ==
  /\ next_id <= Cardinality(Increments)
  /\ \A c \in Jobs : step[c] = "store" /\ Current(c) # "order"
                       => reg[c] <= Cardinality(Increments)

Types ==
  /\ order_id \in Nat
  /\ next_id \in Nat
  /\ cafe_strand \in Seq(Orders)
  /\ step \in [Jobs -> Steps]
  /\ done \in [Jobs -> 0..3]
  /\ reg \in [Jobs -> Nat]
  /\ ids \in [Orders -> [Arguments -> Nat]]

Base == Types /\ Progress /\ Posted /\ OneMaker /\ Bounded

\* At most one job is at an increment of kind k.
Serial(k) ==
  \A c, d \in Jobs :
    Running(c) /\ Running(d) /\ Kind(Current(c)) = k /\ Kind(Current(d)) = k => c = d

\* The ids of kind k: a store adds one to the counter, and every id is new.
LoadedLast(k) ==
  \A c \in Jobs : step[c] = "store" /\ Kind(Current(c)) = k => reg[c] = Value(k)

ReadsNew(k) ==
  \A c \in Jobs : step[c] = "read" /\ Kind(Current(c)) = k =>
    /\ reg[c] + 1 = Value(k)
    /\ \A o \in Orders, a \in Arguments :
         Known(o, a) /\ Kind(a) = k => ids[o][a] # Value(k)

InRange(k) ==
  \A o \in Orders, a \in Arguments : Known(o, a) /\ Kind(a) = k => ids[o][a] \in 1..Value(k)

Distinct(k) ==
  \A o, p \in Orders, a, b \in Arguments :
    Known(o, a) /\ Known(p, b) /\ Kind(a) = k /\ Kind(b) = k /\ ids[o][a] = ids[p][b]
      => o = p /\ a = b

Numbers(k) == LoadedLast(k) /\ ReadsNew(k) /\ InRange(k) /\ Distinct(k)

\* Numbers are handed out one by one; the last may be on its way.
Dense ==
  /\ order_id = Cardinality(Numbered)
  /\ \A n \in 1..order_id :
       \/ \E o \in Orders : Known(o, "order") /\ ids[o]["order"] = n
       \/ n = order_id /\ \E o \in Orders : step[<<"maker", o>>] = "read"
                                            /\ Current(<<"maker", o>>) = "order"

IInv == Base /\ Numbers("order") /\ Dense

OneRunning == \A c, d \in Jobs : Running(c) /\ Running(d) => c = d

IInvOneThread == Base /\ OneRunning /\ Numbers("ingredient")

-----------------------------------------------------------------------------
(***************************************************************************)
(* What a job does, in turn, is what its Program says.                     *)
(***************************************************************************)
LEMMA ArgOrderLen == ArgOrder \in Seq(Arguments) /\ Len(ArgOrder) = 3
<1>1. ArgOrder \in Seq(Arguments)
  <2>1. \A n \in Nat : \A f \in [1..n -> Arguments] : f \in Seq(Arguments)
    BY SeqDef
  <2>2. 3 \in Nat /\ ArgOrder \in [1..3 -> Arguments]
    BY StoreAssumption
  <2>3. QED
    BY <2>1, <2>2
<1>2. QED
  BY <1>1, LenProperties, StoreAssumption

\* Every argument of make_shared is evaluated.
LEMMA ArgOrderAll == \A a \in Arguments : \E i \in 1..3 : ArgOrder[i] = a
<1>1. /\ ArgOrder[1] \in Arguments /\ ArgOrder[2] \in Arguments /\ ArgOrder[3] \in Arguments
      /\ ArgOrder[1] # ArgOrder[2] /\ ArgOrder[1] # ArgOrder[3] /\ ArgOrder[2] # ArgOrder[3]
  <2>1. 1 \in 1..3 /\ 2 \in 1..3 /\ 3 \in 1..3
    OBVIOUS
  <2>2. QED
    BY <2>1, StoreAssumption
<1>2. QED
  BY <1>1 DEF Arguments

LEMMA JobFacts ==
  /\ \A c \in Jobs : c[1] \in {"caller", "maker"} /\ c[2] \in Orders /\ c = <<c[1], c[2]>>
  /\ \A o \in Orders : <<"caller", o>> \in Jobs /\ <<"maker", o>> \in Jobs
BY DEF Jobs

LEMMA ProgramFacts ==
  ASSUME NEW c \in Jobs
  PROVE  /\ Size(c) \in {2, 3} /\ Len(Program(c)) = Size(c)
         /\ \A i \in 1..Size(c) : Program(c)[i] \in Arguments
         /\ \A i, j \in 1..Size(c) : Program(c)[i] = Program(c)[j] => i = j
         /\ c[1] = "caller" => \A i \in 1..Size(c) : Program(c)[i] # "order"
         /\ c[1] = "maker" => Program(c) = ArgOrder /\ Size(c) = 3
<1>1. CASE c[1] = "caller"
  <2>1. Program(c) = <<"sausage", "bread">> /\ Size(c) = 2
    BY <1>1 DEF Program, Size
  <2>2. \A i \in 1..2 : i = 1 \/ i = 2
    OBVIOUS
  <2>3. QED
    BY <1>1, <2>1, <2>2 DEF Arguments
<1>2. CASE c[1] # "caller"
  <2>1. Program(c) = ArgOrder /\ Size(c) = 3
    BY <1>2 DEF Program, Size
  <2>2. QED
    BY <1>2, <2>1, ArgOrderLen, StoreAssumption
<1>3. QED
  BY <1>1, <1>2

\* What a running job increments, and which counter that is.
LEMMA CurrentFacts ==
  ASSUME Types, Progress, NEW c \in Jobs, Running(c)
  PROVE  /\ done[c] + 1 \in 1..Size(c) /\ done[c] \in Nat
         /\ Current(c) \in Arguments
         /\ c[1] = "caller" => Current(c) # "order"
         /\ Counter(c) = Value(Kind(Current(c)))
         /\ Current(c) # "order" => Current(c) \in Ingredients
<1>1. done[c] \in Nat /\ done[c] < Size(c) /\ Size(c) \in {2, 3}
  BY ProgramFacts DEF Types, Progress
<1>2. done[c] + 1 \in 1..Size(c)
  BY <1>1
<1>3. QED
  BY <1>1, <1>2, ProgramFacts DEF Current, Counter, Value, Kind, Arguments, Ingredients

\* Only the strand's lambda counts orders, and it runs alone.
LEMMA SerialOrders ==
  ASSUME Types, Progress, OneMaker
  PROVE  Serial("order")
<1>1. SUFFICES ASSUME NEW c \in Jobs, NEW d \in Jobs, Running(c), Running(d),
                      Kind(Current(c)) = "order", Kind(Current(d)) = "order"
               PROVE  c = d
  BY DEF Serial
<1>2. c[1] = "maker" /\ d[1] = "maker"
  BY <1>1, CurrentFacts, JobFacts DEF Kind
<1>3. c = <<"maker", c[2]>> /\ d = <<"maker", d[2]>> /\ c[2] \in Orders /\ d[2] \in Orders
  BY <1>2, JobFacts
<1>4. c[2] = d[2]
  BY <1>1, <1>3 DEF OneMaker
<1>5. QED
  BY <1>3, <1>4

\* There are finitely many jobs and increments.
LEMMA Finite ==
  /\ IsFiniteSet(Jobs)
  /\ IsFiniteSet(Increments) /\ Cardinality(Increments) \in Nat
  /\ Cardinality(Increments) <= 4 * Cardinality(Orders)
  /\ IsFiniteSet(Increments')
  /\ IsFiniteSet(Numbered) /\ Cardinality(Numbered) \in Nat
  /\ Cardinality(Numbered) <= Cardinality(Orders)
<1>1. IsFiniteSet({"caller", "maker"}) /\ Cardinality({"caller", "maker"}) = 2
  <2>1. IsFiniteSet({"caller"}) /\ Cardinality({"caller"}) = 1
    BY FS_Singleton
  <2>2. {"caller", "maker"} = {"caller"} \cup {"maker"}
    OBVIOUS
  <2>3. QED
    BY <2>1, <2>2, FS_AddElement
<1>2. IsFiniteSet(Ingredients) /\ Cardinality(Ingredients) = 2
  <2>1. IsFiniteSet({"sausage"}) /\ Cardinality({"sausage"}) = 1
    BY FS_Singleton
  <2>2. Ingredients = {"sausage"} \cup {"bread"}
    BY DEF Ingredients
  <2>3. QED
    BY <2>1, <2>2, FS_AddElement
<1>3. IsFiniteSet(Jobs) /\ Cardinality(Jobs) = 2 * Cardinality(Orders)
  BY <1>1, FS_Product, StoreAssumption DEF Jobs
<1>4. IsFiniteSet(Jobs \X Ingredients) /\ Cardinality(Jobs \X Ingredients) = Cardinality(Jobs) * 2
  BY <1>2, <1>3, FS_Product
<1>5. Cardinality(Orders) \in Nat
  BY FS_CardinalityType, StoreAssumption
<1>6. Increments \in SUBSET (Jobs \X Ingredients) /\ Increments' \in SUBSET (Jobs \X Ingredients)
      /\ Numbered \in SUBSET Orders
  BY DEF Increments, Numbered
<1>7. IsFiniteSet(Increments) /\ Cardinality(Increments) <= Cardinality(Jobs \X Ingredients)
      /\ IsFiniteSet(Increments')
  BY <1>4, <1>6, FS_Subset
<1>8. IsFiniteSet(Numbered) /\ Cardinality(Numbered) <= Cardinality(Orders)
  BY <1>6, FS_Subset, StoreAssumption
<1>9. Cardinality(Increments) \in Nat /\ Cardinality(Numbered) \in Nat
  BY <1>7, <1>8, FS_CardinalityType
<1>10. QED
  BY <1>3, <1>4, <1>5, <1>7, <1>8, <1>9

-----------------------------------------------------------------------------
(***************************************************************************)
(* What the steps of a job do to what is stored and known.                 *)
(***************************************************************************)

\* The other jobs, and what each order was constructed with by them, stay.
JobMoves(c) ==
  /\ step[c] \in {"load", "store", "read"}
  /\ \A d \in Jobs \ {c} :
       step'[d] = step[d] /\ done'[d] = done[d] /\ reg'[d] = reg[d]

\* Where a job's step, its count and its register go.
LEMMA LoadEffect ==
  ASSUME Types, Progress, NEW c \in Jobs, Load(c)
  PROVE  /\ JobMoves(c) /\ Running(c)
         /\ step[c] = "load" /\ step'[c] = "store"
         /\ done' = done /\ reg'[c] = Counter(c)
         /\ step' \in [Jobs -> Steps] /\ reg' \in [Jobs -> Nat]
         /\ UNCHANGED <<order_id, next_id, cafe_strand, ids>>
<1>1. step[c] = "load" /\ Running(c)
  BY DEF Load, Running
<1>2. Counter(c) \in Nat
  BY DEF Types, Counter
<1>3. step' = [step EXCEPT ![c] = "store"] /\ reg' = [reg EXCEPT ![c] = Counter(c)]
      /\ UNCHANGED <<order_id, next_id, cafe_strand, done, ids>>
  BY DEF Load, Goto
<1>4. step' \in [Jobs -> Steps] /\ step'[c] = "store"
      /\ \A d \in Jobs \ {c} : step'[d] = step[d]
  BY <1>3 DEF Types, Steps
<1>5. reg' \in [Jobs -> Nat] /\ reg'[c] = Counter(c)
      /\ \A d \in Jobs \ {c} : reg'[d] = reg[d]
  BY <1>2, <1>3 DEF Types
<1>6. QED
  BY <1>1, <1>3, <1>4, <1>5 DEF JobMoves

LEMMA IncrementEffect ==
  ASSUME Types, Progress, NEW c \in Jobs, Increment(c)
  PROVE  /\ JobMoves(c) /\ Running(c)
         /\ step[c] = "store" /\ step'[c] = "read"
         /\ step' \in [Jobs -> Steps]
         /\ order_id' \in Nat /\ next_id' \in Nat /\ reg[c] \in Nat
         /\ \A k \in Kinds :
              Value(k)' = IF Kind(Current(c)) = k THEN reg[c] + 1 ELSE Value(k)
         /\ UNCHANGED <<cafe_strand, done, reg, ids>>
<1>1. step[c] = "store" /\ Running(c) /\ reg[c] \in Nat
  BY DEF Types, Increment, StoreBack, Running
<1>2. /\ step' = [step EXCEPT ![c] = "read"]
      /\ order_id' = IF Current(c) = "order" THEN reg[c] + 1 ELSE order_id
      /\ next_id' = IF Current(c) = "order" THEN next_id ELSE reg[c] + 1
      /\ UNCHANGED <<cafe_strand, done, reg, ids>>
  BY DEF Increment, StoreBack, Goto
<1>3. step' \in [Jobs -> Steps] /\ step'[c] = "read"
      /\ \A d \in Jobs \ {c} : step'[d] = step[d]
  BY <1>2 DEF Types, Steps
<1>4. order_id' \in Nat /\ next_id' \in Nat
  BY <1>1, <1>2 DEF Types
<1>5. \A k \in Kinds : Value(k)' = IF Kind(Current(c)) = k THEN reg[c] + 1 ELSE Value(k)
  BY <1>2 DEF Kinds, Kind, Value
<1>6. QED
  BY <1>1, <1>2, <1>3, <1>4, <1>5 DEF JobMoves

LEMMA ReadEffect ==
  ASSUME Types, Progress, NEW c \in Jobs, Read(c)
  PROVE  /\ JobMoves(c) /\ Running(c)
         /\ step[c] = "read" /\ done' \in [Jobs -> 0..3] /\ done'[c] = done[c] + 1
         /\ step' \in [Jobs -> Steps]
         /\ step'[c] = IF done[c] + 1 = Size(c) THEN "finished" ELSE "load"
         /\ cafe_strand' = IF done[c] + 1 = Size(c) /\ c[1] = "caller"
                           THEN Append(cafe_strand, c[2]) ELSE cafe_strand
         /\ UNCHANGED <<order_id, next_id, reg>>
<1>1. step[c] = "read" /\ Running(c)
  BY DEF Read, Running
<1>2. done[c] + 1 \in 0..3
  BY <1>1, CurrentFacts, ProgramFacts
<1>3. /\ step' = [step EXCEPT ![c] = IF done[c] + 1 = Size(c) THEN "finished" ELSE "load"]
      /\ done' = [done EXCEPT ![c] = done[c] + 1]
      /\ cafe_strand' = IF done[c] + 1 = Size(c) /\ c[1] = "caller"
                        THEN Append(cafe_strand, c[2]) ELSE cafe_strand
      /\ UNCHANGED <<order_id, next_id, reg>>
  BY ProgramFacts DEF Types, Read, Goto
<1>4. /\ step' \in [Jobs -> Steps]
      /\ step'[c] = IF done[c] + 1 = Size(c) THEN "finished" ELSE "load"
      /\ \A d \in Jobs \ {c} : step'[d] = step[d]
  BY <1>3 DEF Types, Steps
<1>5. done' \in [Jobs -> 0..3] /\ done'[c] = done[c] + 1
      /\ \A d \in Jobs \ {c} : done'[d] = done[d]
  BY <1>2, <1>3 DEF Types
<1>6. QED
  BY <1>1, <1>3, <1>4, <1>5 DEF JobMoves

\* The ids of the orders after a job has read its counter.
LEMMA IdsAfterRead ==
  ASSUME Types, Progress, NEW c \in Jobs, Read(c)
  PROVE  /\ ids' \in [Orders -> [Arguments -> Nat]]
         /\ c[1] = "caller" => ids' = ids
         /\ c[1] = "maker" =>
              /\ ids'[c[2]][Current(c)] \in Outcomes(c)
              /\ \A o \in Orders, a \in Arguments :
                   o # c[2] \/ a # Current(c) => ids'[o][a] = ids[o][a]
<1>1. step[c] = "read" /\ Running(c) /\ ids \in [Orders -> [Arguments -> Nat]]
  BY DEF Types, Read, Running
<1>2. CASE c[1] = "maker"
  <2>1. PICK v \in Outcomes(c) : ids' = [ids EXCEPT ![c[2]][Current(c)] = v]
    BY <1>2 DEF Read
  <2>2. v \in Nat
    <3>1. reg[c] \in Nat /\ Counter(c) \in Nat
      BY DEF Types, Counter
    <3>2. QED
      BY <2>1, <3>1 DEF Outcomes
  <2>3. c[2] \in Orders /\ Current(c) \in Arguments
    BY <1>1, CurrentFacts, JobFacts
  <2>4. ids[c[2]] \in [Arguments -> Nat]
    BY <1>1, <2>3
  <2> DEFINE row == [ids[c[2]] EXCEPT ![Current(c)] = v]
  <2>5. row \in [Arguments -> Nat] /\ row[Current(c)] = v
        /\ \A a \in Arguments : a # Current(c) => row[a] = ids[c[2]][a]
    BY <2>2, <2>3, <2>4
  <2>6. ids' = [ids EXCEPT ![c[2]] = row]
    BY <2>1
  <2> HIDE DEF row
  <2>7. ids' \in [Orders -> [Arguments -> Nat]] /\ ids'[c[2]] = row
        /\ \A o \in Orders : o # c[2] => ids'[o] = ids[o]
    BY <1>1, <2>3, <2>5, <2>6
  <2>8. QED
    BY <1>2, <2>1, <2>5, <2>7
<1>3. CASE c[1] # "maker"
  BY <1>1, <1>3 DEF Read
<1>4. QED
  BY <1>2, <1>3

\* A job that has not moved has stored what it had.
LEMMA StoredKept ==
  ASSUME NEW d, step'[d] = step[d], done'[d] = done[d], NEW a
  PROVE  Stored(d, a)' <=> Stored(d, a)
BY DEF Stored

\* Loading and reading store nothing; an increment stores what it is for.
LEMMA StoredAfter ==
  ASSUME Types, Progress, NEW c \in Jobs, NEW a \in Arguments
  PROVE  /\ Load(c) => (Stored(c, a)' <=> Stored(c, a))
         /\ Read(c) => (Stored(c, a)' <=> Stored(c, a))
         /\ Increment(c) => (Stored(c, a)' <=> Stored(c, a) \/ a = Current(c))
         /\ Increment(c) => ~Stored(c, Current(c))
<1>1. CASE Load(c)
  BY <1>1, LoadEffect DEF Stored, Increment, StoreBack, Read
<1>2. CASE Read(c)
  <2>1. step[c] = "read" /\ done'[c] = done[c] + 1
        /\ step'[c] = IF done[c] + 1 = Size(c) THEN "finished" ELSE "load"
    BY <1>2, ReadEffect
  <2>2. step'[c] # "read"
    BY <2>1
  <2>3. done[c] \in Nat
    <3>1. done[c] \in 0..3
      BY DEF Types
    <3>2. QED
      BY <3>1
  <2>4. QED
    BY <1>2, <2>1, <2>2, <2>3 DEF Stored, Load, Increment, StoreBack
<1>3. CASE Increment(c)
  <2>1. step[c] = "store" /\ done'[c] = done[c] /\ step'[c] = "read" /\ Running(c)
    BY <1>3, IncrementEffect
  <2>2. done[c] + 1 \in 1..Size(c) /\ done[c] \in Nat /\ Size(c) \in {2, 3}
    BY <2>1, CurrentFacts, ProgramFacts
  <2>3. Current(c) = Program(c)[done[c] + 1]
    BY DEF Current
  <2>4. Stored(c, a) <=> \E i \in 1..3 : i <= done[c] /\ i <= Size(c) /\ Program(c)[i] = a
    BY <2>1, <2>2 DEF Stored
  <2>5. Stored(c, a)' <=> \E i \in 1..3 : i <= done[c] + 1 /\ i <= Size(c) /\ Program(c)[i] = a
    BY <2>1, <2>2 DEF Stored
  <2>6. Stored(c, a)' <=> Stored(c, a) \/ a = Current(c)
    BY <2>2, <2>3, <2>4, <2>5
  <2>7. ~Stored(c, Current(c))
    <3>1. \A i \in 1..Size(c) : i <= done[c] => Program(c)[i] # Program(c)[done[c] + 1]
      BY <2>2, ProgramFacts
    <3>2. QED
      BY <2>1, <2>2, <2>3, <3>1 DEF Stored
  <2>8. QED
    BY <2>1, <2>6, <2>7 DEF Load, Read
<1>4. QED
  BY <1>1, <1>2, <1>3

\* An order that no read touches knows what it knew.
LEMMA KnownKept ==
  ASSUME NEW o, done'[<<"maker", o>>] = done[<<"maker", o>>], NEW a
  PROVE  Known(o, a)' <=> Known(o, a)
BY DEF Known

\* The lambda's read lets its order know one more.
LEMMA KnownAfter ==
  ASSUME Types, Progress, NEW c \in Jobs, c[1] = "maker", Read(c), NEW a \in Arguments
  PROVE  /\ Known(c[2], a)' <=> Known(c[2], a) \/ a = Current(c)
         /\ ~Known(c[2], Current(c))
<1>1. c = <<"maker", c[2]>> /\ Program(c) = ArgOrder /\ Size(c) = 3
  BY JobFacts, ProgramFacts
<1>2. step[c] = "read" /\ done'[c] = done[c] + 1 /\ Running(c)
  BY ReadEffect
<1>3. done[c] + 1 \in 1..3 /\ done[c] \in Nat
  BY <1>1, <1>2, CurrentFacts
<1>4. Current(c) = ArgOrder[done[c] + 1]
  BY <1>1 DEF Current
<1>5. \A b : Known(c[2], b) <=> \E i \in 1..3 : i <= done[c] /\ ArgOrder[i] = b
  BY <1>1 DEF Known
<1>6. Known(c[2], a)' <=> \E i \in 1..3 : i <= done[c] + 1 /\ ArgOrder[i] = a
  BY <1>1, <1>2 DEF Known
<1>7. Known(c[2], a)' <=> Known(c[2], a) \/ a = Current(c)
  BY <1>3, <1>4, <1>5, <1>6
<1>8. \A i \in 1..3 : i <= done[c] => ArgOrder[i] # ArgOrder[done[c] + 1]
  BY <1>3, StoreAssumption
<1>9. QED
  BY <1>3, <1>4, <1>5, <1>7, <1>8

\* No other order learns anything from the step of a job.
LEMMA KnownElsewhere ==
  ASSUME Types, Progress, NEW c \in Jobs, Load(c) \/ Increment(c) \/ Read(c),
         NEW o \in Orders, c # <<"maker", o>> \/ ~Read(c), NEW a
  PROVE  Known(o, a)' <=> Known(o, a)
<1>1. <<"maker", o>> \in Jobs
  BY JobFacts
<1>2. done'[<<"maker", o>>] = done[<<"maker", o>>]
  BY <1>1, LoadEffect, IncrementEffect, ReadEffect DEF JobMoves
<1>3. QED
  BY <1>2, KnownKept

-----------------------------------------------------------------------------
(***************************************************************************)
(* The part of the invariant that holds whatever runs at the same time.    *)
(***************************************************************************)
LEMMA InitBase == Init => Base
<1>1. SUFFICES ASSUME Init PROVE Base
  OBVIOUS
<1>2. <<>> \in Seq(Orders) /\ Len(<<>>) = 0
  BY EmptySeq
<1>3. Types
  BY <1>1, <1>2 DEF Init, Types, Steps
<1>4. \A c \in Jobs : step[c] = "queued" /\ done[c] = 0
  BY <1>1 DEF Init
<1>5. Progress /\ OneMaker
  BY <1>4, JobFacts DEF Progress, OneMaker, Running
<1>6. Posted
  BY <1>1, <1>2, <1>4, JobFacts DEF Init, Posted
<1>7. Bounded
  BY <1>1, <1>4, Finite DEF Init, Bounded
<1>8. QED
  BY <1>3, <1>5, <1>6, <1>7 DEF Base

\* What is in the strand is an order.
LEMMA StrandOrders ==
  ASSUME Types
  PROVE  Len(cafe_strand) \in Nat /\ \A i \in 1..Len(cafe_strand) : cafe_strand[i] \in Orders
BY ElementOfSeq, LenProperties DEF Types

\* A job's step on its own keeps progress, the strand and the lone lambda.
LEMMA JobKeeps ==
  ASSUME Base, NEW c \in Jobs, JobMoves(c),
         Running(c)', done'[c] = done[c], cafe_strand' = cafe_strand
  PROVE  Progress' /\ Posted' /\ OneMaker'
<1>1. Running(c) /\ done[c] < Size(c)
  BY DEF Base, Progress, JobMoves, Running
<1>2. Progress'
  <2>1. SUFFICES ASSUME NEW d \in Jobs
                 PROVE  /\ step'[d] = "queued" => done'[d] = 0
                        /\ Running(d)' => done'[d] < Size(d)
                        /\ step'[d] = "finished" => done'[d] = Size(d)
    BY DEF Progress, Size
  <2>2. CASE d = c
    BY <1>1, <2>2 DEF Running
  <2>3. CASE d # c
    BY <2>3 DEF Base, Progress, JobMoves, Running
  <2>4. QED
    BY <2>2, <2>3
<1>3. \A d \in Jobs : /\ step[d] = "queued" <=> step'[d] = "queued"
                      /\ step[d] = "finished" <=> step'[d] = "finished"
                      /\ Running(d)' <=> Running(d)
  BY <1>1 DEF JobMoves, Running
<1>4. Posted'
  BY <1>3, StrandOrders, JobFacts DEF Base, Posted
<1>5. OneMaker'
  BY <1>3, JobFacts DEF Base, OneMaker
<1>6. QED
  BY <1>2, <1>4, <1>5

LEMMA LoadBase ==
  ASSUME Base, NEW c \in Jobs, Load(c)
  PROVE  Base'
<1>1. /\ Types /\ Progress /\ Bounded /\ JobMoves(c) /\ Running(c)
      /\ step[c] = "load" /\ step'[c] = "store"
      /\ done' = done /\ reg'[c] = Counter(c)
      /\ step' \in [Jobs -> Steps] /\ reg' \in [Jobs -> Nat]
      /\ UNCHANGED <<order_id, next_id, cafe_strand, ids>>
  BY LoadEffect DEF Base
<1>2. Types'
  BY <1>1 DEF Types
<1>3. Progress' /\ Posted' /\ OneMaker'
  BY <1>1, JobKeeps DEF Running
<1>4. Increments' = Increments
  <2>1. \A d \in Jobs, a \in Ingredients : Stored(d, a)' <=> Stored(d, a)
    BY <1>1, StoredKept, StoredAfter DEF JobMoves, Ingredients, Arguments
  <2>2. QED
    BY <2>1 DEF Increments
<1>5. Bounded'
  <2>1. \A d \in Jobs : Current(d)' = Current(d)
    BY <1>1 DEF Current, Program
  <2>2. Current(c) # "order" => reg'[c] = next_id
    BY <1>1 DEF Counter
  <2>3. \A d \in Jobs \ {c} : step'[d] = step[d] /\ reg'[d] = reg[d]
    BY <1>1 DEF JobMoves
  <2>4. QED
    BY <1>1, <1>4, <2>1, <2>2, <2>3 DEF Bounded
<1>6. QED
  BY <1>2, <1>3, <1>5 DEF Base

LEMMA IncrementBase ==
  ASSUME Base, NEW c \in Jobs, Increment(c)
  PROVE  Base'
<1>1. /\ Types /\ Progress /\ Bounded /\ JobMoves(c) /\ Running(c)
      /\ step[c] = "store" /\ step'[c] = "read"
      /\ step' \in [Jobs -> Steps]
      /\ order_id' \in Nat /\ next_id' \in Nat /\ reg[c] \in Nat
      /\ \A k \in Kinds : Value(k)' = IF Kind(Current(c)) = k THEN reg[c] + 1 ELSE Value(k)
      /\ UNCHANGED <<cafe_strand, done, reg, ids>>
  BY IncrementEffect DEF Base
<1>2. Types'
  BY <1>1 DEF Types
<1>3. Progress' /\ Posted' /\ OneMaker'
  BY <1>1, JobKeeps DEF Running
<1>4. \A d \in Jobs : Current(d)' = Current(d)
  BY <1>1 DEF Current, Program
<1>5. \A d \in Jobs \ {c} : step'[d] = step[d] /\ done'[d] = done[d] /\ reg'[d] = reg[d]
  BY <1>1 DEF JobMoves
<1>6. next_id' = IF Current(c) = "order" THEN next_id ELSE reg[c] + 1
  BY DEF Increment, StoreBack
<1>7. CASE Current(c) = "order"
  <2>1. Increments' = Increments
    <3>1. \A d \in Jobs, a \in Ingredients : Stored(d, a)' <=> Stored(d, a)
      BY <1>1, <1>5, <1>7, StoredKept, StoredAfter DEF Ingredients, Arguments
    <3>2. QED
      BY <3>1 DEF Increments
  <2>2. Bounded'
    BY <1>1, <1>4, <1>5, <1>6, <1>7, <2>1 DEF Bounded
  <2>3. QED
    BY <1>2, <1>3, <2>2 DEF Base
<1>8. CASE Current(c) # "order"
  <2>1. Current(c) \in Ingredients
    BY <1>1, <1>8, CurrentFacts
  <2>2. Increments' = Increments \cup {<<c, Current(c)>>} /\ <<c, Current(c)>> \notin Increments
    <3>1. \A d \in Jobs, a \in Ingredients :
            Stored(d, a)' <=> Stored(d, a) \/ (d = c /\ a = Current(c))
      BY <1>1, <1>5, StoredKept, StoredAfter DEF Ingredients, Arguments
    <3>2. ~Stored(c, Current(c))
      BY <1>1, <2>1, StoredAfter DEF Ingredients, Arguments
    <3>3. QED
      BY <2>1, <3>1, <3>2 DEF Increments
  <2>3. Cardinality(Increments') = Cardinality(Increments) + 1 /\ Cardinality(Increments) \in Nat
    BY <2>2, Finite, FS_AddElement
  <2>4. next_id' <= Cardinality(Increments')
    BY <1>1, <1>6, <1>8, <2>3 DEF Bounded
  <2>5. ASSUME NEW d \in Jobs, step'[d] = "store", Current(d)' # "order"
        PROVE  reg'[d] <= Cardinality(Increments')
    <3>1. step[d] = "store" /\ Current(d) # "order" /\ reg'[d] = reg[d] /\ reg[d] \in Nat
      BY <1>1, <1>4, <1>5, <2>5 DEF Types
    <3>2. reg[d] <= Cardinality(Increments)
      BY <1>1, <3>1 DEF Bounded
    <3>3. QED
      BY <2>3, <3>1, <3>2
  <2>6. QED
    BY <1>2, <1>3, <2>4, <2>5 DEF Base, Bounded
<1>9. QED
  BY <1>7, <1>8

LEMMA ReadBase ==
  ASSUME Base, NEW c \in Jobs, Read(c)
  PROVE  Base'
<1> DEFINE last == done[c] + 1 = Size(c)
<1>1. /\ Types /\ Progress /\ Posted /\ OneMaker /\ Bounded /\ JobMoves(c) /\ Running(c)
      /\ step[c] = "read" /\ done' \in [Jobs -> 0..3] /\ done'[c] = done[c] + 1
      /\ step' \in [Jobs -> Steps]
      /\ step'[c] = IF last THEN "finished" ELSE "load"
      /\ cafe_strand' = IF last /\ c[1] = "caller" THEN Append(cafe_strand, c[2]) ELSE cafe_strand
      /\ UNCHANGED <<order_id, next_id, reg>>
  BY ReadEffect DEF Base
<1>2. ids' \in [Orders -> [Arguments -> Nat]]
  BY <1>1, IdsAfterRead
<1>3. c[2] \in Orders /\ c = <<c[1], c[2]>> /\ c[1] \in {"caller", "maker"}
  BY JobFacts
<1>4. Len(cafe_strand) \in Nat /\ \A i \in 1..Len(cafe_strand) : cafe_strand[i] \in Orders
  BY <1>1, StrandOrders
<1>5. done[c] + 1 \in 1..Size(c)
  BY <1>1, CurrentFacts
<1>6. \A d \in Jobs \ {c} : step'[d] = step[d] /\ done'[d] = done[d]
  BY <1>1 DEF JobMoves
<1>7. step'[c] # "queued" /\ step'[c] # "store" /\ step'[c] # "read"
      /\ (last => step'[c] = "finished") /\ (~last => step'[c] = "load")
  BY <1>1
<1> HIDE DEF last
<1>8. Types'
  <2>1. cafe_strand' \in Seq(Orders)
    BY <1>1, <1>3, AppendProperties DEF Types
  <2>2. QED
    BY <1>1, <1>2, <2>1 DEF Types
<1>9. Progress'
  <2>1. SUFFICES ASSUME NEW d \in Jobs
                 PROVE  /\ step'[d] = "queued" => done'[d] = 0
                        /\ Running(d)' => done'[d] < Size(d)
                        /\ step'[d] = "finished" => done'[d] = Size(d)
    BY DEF Progress, Size
  <2>2. CASE d = c
    <3>1. Size(c) \in {2, 3}
      BY ProgramFacts
    <3>2. QED
      BY <1>1, <1>5, <1>7, <2>2, <3>1 DEF Running, last
  <2>3. CASE d # c
    BY <1>1, <1>6, <2>3 DEF Progress, Running
  <2>4. QED
    BY <2>2, <2>3
<1>10. OneMaker'
  <2>1. \A d \in Jobs : Running(d)' => Running(d)
    BY <1>1, <1>6 DEF Running
  <2>2. QED
    BY <1>1, <2>1, JobFacts DEF OneMaker
<1>11. ASSUME c[1] = "maker" PROVE Posted'
  <2>1. cafe_strand' = cafe_strand /\ c = <<"maker", c[2]>>
    BY <1>1, <1>3, <1>11
  <2>2. step[<<"caller", c[2]>>] = "finished"
    BY <1>1, <1>3, <2>1 DEF Posted
  <2>3. \A o \in Orders : step'[<<"caller", o>>] = step[<<"caller", o>>]
    BY <1>6, <2>1, JobFacts
  <2>4. \A o \in Orders : o # c[2] => step'[<<"maker", o>>] = step[<<"maker", o>>]
    <3>1. \A o \in Orders : o # c[2] => <<"maker", o>> # c
      OBVIOUS
    <3>2. QED
      BY <1>6, <3>1, JobFacts
  <2>5. \A i \in 1..Len(cafe_strand) : cafe_strand[i] # c[2]
    BY <1>1, <2>1 DEF Posted
  <2>6. Posted'
    BY <1>1, <1>4, <2>1, <2>2, <2>3, <2>4, <2>5 DEF Posted
  <2>7. QED
    BY <2>6
<1>12. ASSUME c[1] = "caller" PROVE Posted'
  <2>1. c = <<"caller", c[2]>>
    BY <1>3, <1>12
  <2>2. step[<<"maker", c[2]>>] = "queued"
    BY <1>1, <1>3, <2>1 DEF Posted
  <2>3. \A o \in Orders : step'[<<"maker", o>>] = step[<<"maker", o>>]
    BY <1>6, <2>1, JobFacts
  <2>4. \A o \in Orders : o # c[2] => step'[<<"caller", o>>] = step[<<"caller", o>>]
    <3>1. \A o \in Orders : o # c[2] => <<"caller", o>> # c
      OBVIOUS
    <3>2. QED
      BY <1>6, <3>1, JobFacts
  <2>5. \A i \in 1..Len(cafe_strand) : cafe_strand[i] # c[2]
    BY <1>1, <2>1 DEF Posted
  <2>6. CASE last
    <3>1. /\ cafe_strand' = Append(cafe_strand, c[2])
          /\ Len(cafe_strand') = Len(cafe_strand) + 1
          /\ \A i \in 1..Len(cafe_strand) : cafe_strand'[i] = cafe_strand[i]
          /\ cafe_strand'[Len(cafe_strand) + 1] = c[2]
      BY <1>1, <1>3, <1>12, <2>6, AppendProperties DEF Types
    <3>2. \A i \in 1..Len(cafe_strand') : i \in 1..Len(cafe_strand) \/ i = Len(cafe_strand) + 1
      BY <1>4, <3>1
    <3>3. step'[<<"caller", c[2]>>] = "finished"
      BY <1>7, <2>1, <2>6
    <3>4. ASSUME NEW i \in 1..Len(cafe_strand')
          PROVE  /\ step'[<<"maker", cafe_strand'[i]>>] = "queued"
                 /\ step'[<<"caller", cafe_strand'[i]>>] = "finished"
      <4>1. CASE i \in 1..Len(cafe_strand)
        <5>1. /\ cafe_strand'[i] = cafe_strand[i] /\ cafe_strand[i] \in Orders \ {c[2]}
              /\ step[<<"maker", cafe_strand[i]>>] = "queued"
              /\ step[<<"caller", cafe_strand[i]>>] = "finished"
          BY <1>1, <1>4, <2>5, <3>1, <4>1 DEF Posted
        <5>2. QED
          BY <2>3, <2>4, <5>1
      <4>2. CASE i = Len(cafe_strand) + 1
        BY <1>3, <2>2, <2>3, <3>1, <3>3, <4>2
      <4>3. QED
        BY <3>2, <4>1, <4>2
    <3>5. \A i, j \in 1..Len(cafe_strand') : cafe_strand'[i] = cafe_strand'[j] => i = j
      BY <1>1, <2>5, <3>1, <3>2 DEF Posted
    <3>6. \A o \in Orders : step'[<<"caller", o>>] # "finished" => step'[<<"maker", o>>] = "queued"
      BY <1>1, <2>2, <2>3, <2>4 DEF Posted
    <3>7. QED
      BY <3>4, <3>5, <3>6 DEF Posted
  <2>7. CASE ~last
    <3>1. cafe_strand' = cafe_strand
      BY <1>1, <2>7
    <3>2. QED
      BY <1>1, <1>4, <2>2, <2>3, <2>4, <2>5, <3>1 DEF Posted
  <2>8. QED
    BY <2>6, <2>7
<1>13. Bounded'
  <2>1. Increments' = Increments
    <3>1. \A d \in Jobs, a \in Ingredients : Stored(d, a)' <=> Stored(d, a)
      BY <1>1, <1>6, StoredKept, StoredAfter DEF Ingredients, Arguments
    <3>2. QED
      BY <3>1 DEF Increments
  <2>2. \A d \in Jobs \ {c} : Current(d)' = Current(d)
    BY <1>6 DEF Current, Program
  <2>3. QED
    BY <1>1, <1>6, <1>7, <2>1, <2>2 DEF Bounded
<1>14. QED
  BY <1>3, <1>8, <1>9, <1>10, <1>11, <1>12, <1>13 DEF Base

\* OrderHotDog is called, or the strand starts the lambda at its head.
Begins(c) ==
  /\ step[c] = "queued"
  /\ step' = [step EXCEPT ![c] = "load"]
  /\ UNCHANGED <<order_id, next_id, done, reg, ids>>

LEMMA BeginsEffect ==
  ASSUME Base, NEW c \in Jobs, Begins(c)
  PROVE  /\ step' \in [Jobs -> Steps] /\ step'[c] = "load" /\ done[c] = 0
         /\ \A d \in Jobs \ {c} : step'[d] = step[d]
         /\ \A d \in Jobs : Current(d)' = Current(d)
         /\ \A d \in Jobs : \A a : Stored(d, a)' <=> Stored(d, a)
         /\ \A o \in Orders : \A a : Known(o, a)' <=> Known(o, a)
         /\ Progress' /\ Bounded'
<1>1. Types /\ Progress /\ Bounded /\ step[c] = "queued" /\ done[c] = 0
  BY DEF Base, Begins, Progress
<1>2. /\ step' \in [Jobs -> Steps] /\ step'[c] = "load"
      /\ \A d \in Jobs \ {c} : step'[d] = step[d]
  BY DEF Base, Types, Steps, Begins
<1>3. done' = done /\ reg' = reg /\ next_id' = next_id
  BY DEF Begins
<1>4. \A d \in Jobs : Current(d)' = Current(d)
  BY <1>3 DEF Current, Program
<1>5. \A d \in Jobs : \A a : Stored(d, a)' <=> Stored(d, a)
  <2>1. SUFFICES ASSUME NEW d \in Jobs, NEW a PROVE Stored(d, a)' <=> Stored(d, a)
    OBVIOUS
  <2>2. step'[d] = "read" <=> step[d] = "read"
    BY <1>1, <1>2
  <2>3. QED
    BY <1>3, <2>2 DEF Stored
<1>6. \A o \in Orders : \A a : Known(o, a)' <=> Known(o, a)
  BY <1>3 DEF Known
<1>7. Progress'
  <2>1. SUFFICES ASSUME NEW d \in Jobs
                 PROVE  /\ step'[d] = "queued" => done'[d] = 0
                        /\ Running(d)' => done'[d] < Size(d)
                        /\ step'[d] = "finished" => done'[d] = Size(d)
    BY DEF Progress, Size
  <2>2. Size(d) \in {2, 3}
    BY ProgramFacts
  <2>3. CASE d = c
    BY <1>1, <1>2, <1>3, <2>2, <2>3 DEF Running
  <2>4. CASE d # c
    BY <1>1, <1>2, <1>3, <2>4 DEF Progress, Running
  <2>5. QED
    BY <2>3, <2>4
<1>8. Bounded'
  <2>1. Increments' = Increments
    BY <1>5 DEF Increments
  <2>2. \A d \in Jobs : step'[d] = "store" => step[d] = "store"
    BY <1>1, <1>2
  <2>3. QED
    BY <1>1, <1>3, <1>4, <2>1, <2>2 DEF Bounded
<1>9. QED
  BY <1>1, <1>2, <1>4, <1>5, <1>6, <1>7, <1>8

LEMMA CallBase ==
  ASSUME Base, NEW o \in Orders, Call(o)
  PROVE  Base' /\ Begins(<<"caller", o>>)
<1> DEFINE c == <<"caller", o>>
<1>1. Begins(c) /\ cafe_strand' = cafe_strand /\ c \in Jobs
  BY JobFacts DEF Call, Begins, Goto
<1> HIDE DEF c
<1>2. /\ step' \in [Jobs -> Steps] /\ step'[c] = "load"
      /\ \A d \in Jobs \ {c} : step'[d] = step[d]
      /\ Progress' /\ Bounded'
  BY <1>1, BeginsEffect
<1>3. Types'
  BY <1>1, <1>2 DEF Base, Types, Begins
<1>4. \A p \in Orders : step'[<<"maker", p>>] = step[<<"maker", p>>]
                        /\ (p # o => step'[<<"caller", p>>] = step[<<"caller", p>>])
  BY <1>2, JobFacts DEF c
<1>5. step[<<"caller", o>>] = "queued" /\ step'[<<"caller", o>>] = "load"
  BY <1>1, <1>2 DEF Begins, c
<1>6. Posted'
  <2>1. \A i \in 1..Len(cafe_strand) : cafe_strand[i] # o
    BY <1>5 DEF Base, Posted
  <2>2. step[<<"maker", o>>] = "queued"
    BY <1>5 DEF Base, Posted
  <2>3. QED
    BY <1>1, <1>4, <1>5, <2>1, <2>2, StrandOrders DEF Base, Posted
<1>7. OneMaker'
  BY <1>4 DEF Base, OneMaker, Running
<1>8. QED
  BY <1>1, <1>2, <1>3, <1>6, <1>7 DEF Base, c

LEMMA StartBase ==
  ASSUME Base, NEW o \in Orders, StartMaking(o)
  PROVE  Base' /\ Begins(<<"maker", o>>)
<1> DEFINE c == <<"maker", o>>
<1>1. /\ Types /\ Posted /\ cafe_strand \in Seq(Orders) /\ cafe_strand # <<>>
      /\ o = Head(cafe_strand) /\ cafe_strand' = Tail(cafe_strand)
      /\ step' = [step EXCEPT ![c] = "load"]
      /\ UNCHANGED <<order_id, next_id, done, reg, ids>>
      /\ \A p \in Orders : ~Running(<<"maker", p>>)
  BY DEF Base, Types, StartMaking, Goto
<1>2. /\ Len(cafe_strand) \in Nat \ {0} /\ o = cafe_strand[1] /\ cafe_strand' \in Seq(Orders)
      /\ Len(cafe_strand') = Len(cafe_strand) - 1
      /\ \A i \in 1..Len(cafe_strand') : cafe_strand'[i] = cafe_strand[i + 1]
  <2>1. Len(cafe_strand) \in Nat \ {0}
    BY <1>1, EmptySeq, LenProperties
  <2>2. QED
    BY <1>1, <2>1, HeadTailProperties
<1>3. step[c] = "queued" /\ step[<<"caller", o>>] = "finished" /\ c \in Jobs
  BY <1>1, <1>2, JobFacts DEF Posted
<1>4. Begins(c)
  BY <1>1, <1>3 DEF Begins
<1> HIDE DEF c
<1>5. /\ step' \in [Jobs -> Steps] /\ step'[c] = "load"
      /\ \A d \in Jobs \ {c} : step'[d] = step[d]
      /\ Progress' /\ Bounded'
  BY <1>3, <1>4, BeginsEffect
<1>6. Types'
  BY <1>1, <1>2, <1>5 DEF Types
<1>7. \A p \in Orders : step'[<<"caller", p>>] = step[<<"caller", p>>]
                        /\ (p # o => step'[<<"maker", p>>] = step[<<"maker", p>>])
  BY <1>5, JobFacts DEF c
<1>8. Posted'
  <2>1. \A i \in 1..Len(cafe_strand') : i + 1 \in 1..Len(cafe_strand) /\ cafe_strand'[i] # o
                                        /\ cafe_strand'[i] \in Orders
    BY <1>1, <1>2, StrandOrders DEF Posted
  <2>2. ASSUME NEW i \in 1..Len(cafe_strand')
        PROVE  /\ step'[<<"maker", cafe_strand'[i]>>] = "queued"
               /\ step'[<<"caller", cafe_strand'[i]>>] = "finished"
    <3>1. step[<<"maker", cafe_strand[i + 1]>>] = "queued"
          /\ step[<<"caller", cafe_strand[i + 1]>>] = "finished"
      BY <1>1, <2>1 DEF Posted
    <3>2. QED
      BY <1>2, <1>7, <2>1, <3>1
  <2>3. \A i, j \in 1..Len(cafe_strand') : cafe_strand'[i] = cafe_strand'[j] => i = j
    BY <1>1, <1>2, <2>1 DEF Posted
  <2>4. \A p \in Orders : step'[<<"caller", p>>] # "finished" => step'[<<"maker", p>>] = "queued"
    BY <1>1, <1>3, <1>7 DEF Posted
  <2>5. QED
    BY <2>2, <2>3, <2>4 DEF Posted
<1>9. OneMaker'
  BY <1>1, <1>7 DEF OneMaker, Running
<1>10. QED
  BY <1>4, <1>5, <1>6, <1>8, <1>9 DEF Base, c

-----------------------------------------------------------------------------
(***************************************************************************)
(* While one job at a time is at a counter of kind k its ids are distinct. *)
(***************************************************************************)
LEMMA InitNumbers ==
  ASSUME Init, NEW k
  PROVE  Numbers(k)
<1>1. \A c \in Jobs : step[c] = "queued"
  BY DEF Init
<1>2. \A o \in Orders : \A a : ~Known(o, a)
  <2>1. \A o \in Orders : done[<<"maker", o>>] = 0
    BY JobFacts DEF Init
  <2>2. QED
    BY <2>1 DEF Known
<1>3. QED
  BY <1>1, <1>2 DEF Numbers, LoadedLast, ReadsNew, InRange, Distinct

LEMMA LoadNumbers ==
  ASSUME Base, NEW k \in Kinds, Numbers(k), NEW c \in Jobs, Load(c)
  PROVE  Numbers(k)'
<1>1. /\ Types /\ Progress /\ JobMoves(c) /\ Running(c)
      /\ step[c] = "load" /\ step'[c] = "store"
      /\ done' = done /\ reg'[c] = Counter(c)
      /\ UNCHANGED <<order_id, next_id, cafe_strand, ids>>
  BY LoadEffect DEF Base
<1>2. \A d \in Jobs : Current(d)' = Current(d)
  BY <1>1 DEF Current, Program
<1>3. \A o \in Orders : \A a : Known(o, a)' <=> Known(o, a)
  BY <1>1, KnownElsewhere DEF Load, Read
<1>4. Value(k)' = Value(k)
  BY <1>1 DEF Value
<1>5. Counter(c) = Value(Kind(Current(c)))
  BY <1>1, CurrentFacts
<1>6. \A d \in Jobs \ {c} : step'[d] = step[d] /\ reg'[d] = reg[d]
  BY <1>1 DEF JobMoves
<1>7. LoadedLast(k)'
  BY <1>1, <1>2, <1>4, <1>5, <1>6 DEF Numbers, LoadedLast
<1>8. ReadsNew(k)'
  BY <1>1, <1>2, <1>3, <1>4, <1>6 DEF Numbers, ReadsNew
<1>9. InRange(k)' /\ Distinct(k)'
  BY <1>1, <1>3, <1>4 DEF Numbers, InRange, Distinct
<1>10. QED
  BY <1>7, <1>8, <1>9 DEF Numbers

LEMMA IncrementNumbers ==
  ASSUME Base, NEW k \in Kinds, Serial(k), Numbers(k), NEW c \in Jobs, Increment(c)
  PROVE  Numbers(k)'
<1>1. /\ Types /\ Progress /\ JobMoves(c) /\ Running(c)
      /\ step[c] = "store" /\ step'[c] = "read" /\ reg[c] \in Nat
      /\ Value(k)' = IF Kind(Current(c)) = k THEN reg[c] + 1 ELSE Value(k)
      /\ UNCHANGED <<cafe_strand, done, reg, ids>>
  BY IncrementEffect DEF Base
<1>2. \A d \in Jobs : Current(d)' = Current(d)
  BY <1>1 DEF Current, Program
<1>3. \A o \in Orders : \A a : Known(o, a)' <=> Known(o, a)
  BY <1>1, KnownElsewhere DEF Increment, StoreBack, Read
<1>4. \A d \in Jobs \ {c} : step'[d] = step[d]
  BY <1>1 DEF JobMoves
<1>5. CASE Kind(Current(c)) = k
  <2>1. reg[c] = Value(k) /\ Value(k)' = Value(k) + 1 /\ Value(k) \in Nat
    BY <1>1, <1>5 DEF Numbers, LoadedLast
  <2>2. \A d \in Jobs : Kind(Current(d)) = k /\ step'[d] \in {"store", "read"} => d = c
    BY <1>1, <1>4, <1>5 DEF Serial, Running
  <2>3. LoadedLast(k)'
    BY <1>1, <1>2, <2>2 DEF LoadedLast
  <2>4. \A o \in Orders, a \in Arguments :
          Known(o, a)' /\ Kind(a) = k => ids'[o][a] \in 1..Value(k)
    BY <1>1, <1>3 DEF Numbers, InRange
  <2>5. InRange(k)'
    BY <2>1, <2>4 DEF InRange
  <2>6. ReadsNew(k)'
    BY <1>1, <1>2, <2>1, <2>2, <2>4 DEF ReadsNew
  <2>7. Distinct(k)'
    BY <1>1, <1>3 DEF Numbers, Distinct
  <2>8. QED
    BY <2>3, <2>5, <2>6, <2>7 DEF Numbers
<1>6. CASE Kind(Current(c)) # k
  <2>1. Value(k)' = Value(k)
    BY <1>1, <1>6
  <2>2. LoadedLast(k)' /\ ReadsNew(k)'
    BY <1>1, <1>2, <1>3, <1>4, <1>6, <2>1 DEF Numbers, LoadedLast, ReadsNew
  <2>3. InRange(k)' /\ Distinct(k)'
    BY <1>1, <1>3, <2>1 DEF Numbers, InRange, Distinct
  <2>4. QED
    BY <2>2, <2>3 DEF Numbers
<1>7. QED
  BY <1>5, <1>6

LEMMA ReadNumbers ==
  ASSUME Base, NEW k \in Kinds, Serial(k), Numbers(k), NEW c \in Jobs, Read(c)
  PROVE  Numbers(k)'
<1> DEFINE o == c[2]
           x == Current(c)
<1>1. /\ Types /\ Progress /\ JobMoves(c) /\ Running(c) /\ step[c] = "read"
      /\ step'[c] = IF done[c] + 1 = Size(c) THEN "finished" ELSE "load"
      /\ UNCHANGED <<order_id, next_id, reg>>
  BY ReadEffect DEF Base
<1>2. step'[c] # "store" /\ step'[c] # "read"
  BY <1>1
<1>3. \A d \in Jobs \ {c} : step'[d] = step[d] /\ Current(d)' = Current(d)
  BY <1>1 DEF JobMoves, Current, Program
<1>4. Value(k)' = Value(k)
  BY <1>1 DEF Value
<1>5. c[1] \in {"caller", "maker"} /\ o \in Orders /\ c = <<c[1], o>>
  BY JobFacts
<1>6. x \in Arguments /\ (c[1] = "caller" => x # "order") /\ Counter(c) = Value(Kind(x))
  BY <1>1, CurrentFacts
<1>7. \A p \in Orders : p # o => <<"maker", p>> # c
  BY <1>5
<1>8. \A p \in Orders : p # o => \A a : Known(p, a)' <=> Known(p, a)
  BY <1>1, <1>7, KnownElsewhere
<1> HIDE DEF o, x
<1>9. LoadedLast(k)'
  BY <1>1, <1>2, <1>3, <1>4 DEF Numbers, LoadedLast
<1>10. CASE c[1] = "caller"
  <2>1. ids' = ids
    BY <1>1, <1>10, IdsAfterRead
  <2>2. \A p \in Orders : \A a : Known(p, a)' <=> Known(p, a)
    <3>1. \A p \in Orders : <<"maker", p>> # c
      BY <1>10
    <3>2. QED
      BY <1>1, <3>1, KnownElsewhere
  <2>3. ReadsNew(k)'
    BY <1>1, <1>2, <1>3, <1>4, <2>1, <2>2 DEF Numbers, ReadsNew
  <2>4. InRange(k)' /\ Distinct(k)'
    BY <1>4, <2>1, <2>2 DEF Numbers, InRange, Distinct
  <2>5. QED
    BY <1>9, <2>3, <2>4 DEF Numbers
<1>11. CASE c[1] = "maker"
  <2>1. /\ ids'[o][x] \in Outcomes(c)
        /\ \A p \in Orders, a \in Arguments : p # o \/ a # x => ids'[p][a] = ids[p][a]
    BY <1>1, <1>11, IdsAfterRead DEF o, x
  <2>2. /\ \A a \in Arguments : Known(o, a)' <=> Known(o, a) \/ a = x
        /\ ~Known(o, x)
    BY <1>1, <1>6, <1>11, KnownAfter DEF o, x
  <2>3. CASE Kind(x) = k
    <3>1. reg[c] + 1 = Value(k)
          /\ \A p \in Orders, a \in Arguments : Known(p, a) /\ Kind(a) = k => ids[p][a] # Value(k)
      BY <1>1, <2>3 DEF Numbers, ReadsNew, x
    <3>2. ids'[o][x] = Value(k)
      BY <1>6, <2>1, <2>3, <3>1 DEF Outcomes
    <3>3. Value(k) \in Nat /\ Value(k) >= 1
      <4>1. reg[c] \in Nat
        BY <1>1 DEF Types
      <4>2. QED
        BY <3>1, <4>1
    <3>4. \A d \in Jobs \ {c} : step[d] = "read" => Kind(Current(d)) # k
      BY <1>1, <2>3 DEF Serial, Running, x
    <3>5. ReadsNew(k)'
      BY <1>2, <1>3, <3>4 DEF ReadsNew
    <3>6. \A p \in Orders, a \in Arguments : Known(p, a)' =>
            (p = o /\ a = x) \/ (Known(p, a) /\ ids'[p][a] = ids[p][a])
      BY <1>8, <2>1, <2>2
    <3>7. InRange(k)'
      BY <1>4, <3>2, <3>3, <3>6 DEF Numbers, InRange
    <3>8. Distinct(k)'
      BY <3>1, <3>2, <3>6 DEF Numbers, Distinct
    <3>9. QED
      BY <1>9, <3>5, <3>7, <3>8 DEF Numbers
  <2>4. CASE Kind(x) # k
    <3>1. \A p \in Orders, a \in Arguments : Kind(a) = k =>
            (Known(p, a)' <=> Known(p, a)) /\ ids'[p][a] = ids[p][a]
      BY <1>8, <2>1, <2>2, <2>4
    <3>2. ReadsNew(k)'
      BY <1>1, <1>2, <1>3, <1>4, <3>1 DEF Numbers, ReadsNew
    <3>3. InRange(k)' /\ Distinct(k)'
      BY <1>4, <3>1 DEF Numbers, InRange, Distinct
    <3>4. QED
      BY <1>9, <3>2, <3>3 DEF Numbers
  <2>5. QED
    BY <2>3, <2>4
<1>12. QED
  BY <1>5, <1>10, <1>11

LEMMA BeginsNumbers ==
  ASSUME Base, NEW k \in Kinds, Numbers(k), NEW c \in Jobs, Begins(c)
  PROVE  Numbers(k)'
<1>1. /\ step'[c] = "load"
      /\ \A d \in Jobs \ {c} : step'[d] = step[d]
      /\ \A d \in Jobs : Current(d)' = Current(d)
      /\ \A o \in Orders : \A a : Known(o, a)' <=> Known(o, a)
  BY BeginsEffect
<1>2. Value(k)' = Value(k) /\ ids' = ids /\ reg' = reg
  BY DEF Begins, Value
<1>3. \A d \in Jobs : step'[d] \in {"store", "read"} => step'[d] = step[d]
  BY <1>1
<1>4. LoadedLast(k)' /\ ReadsNew(k)'
  BY <1>1, <1>2, <1>3 DEF Numbers, LoadedLast, ReadsNew
<1>5. InRange(k)' /\ Distinct(k)'
  BY <1>1, <1>2 DEF Numbers, InRange, Distinct
<1>6. QED
  BY <1>4, <1>5 DEF Numbers

-----------------------------------------------------------------------------
(***************************************************************************)
(* order_id_ counts the lambdas that have incremented it, and the numbers  *)
(* below it have been given out.                                           *)
(***************************************************************************)
LEMMA DenseKept ==
  ASSUME Base, Numbers("order"), Dense, NEW c \in Jobs, Load(c) \/ Increment(c) \/ Read(c),
         ~(Increment(c) /\ Current(c) = "order"), ~(Read(c) /\ Current(c) = "order")
  PROVE  Dense'
<1>1. /\ Types /\ Progress /\ JobMoves(c) /\ Running(c) /\ order_id' = order_id
  BY LoadEffect, IncrementEffect, ReadEffect DEF Base, Load, Increment, StoreBack, Read
<1>2. Numbered' = Numbered
  <2>1. \A d \in Jobs : Stored(d, "order")' <=> Stored(d, "order")
    BY <1>1, StoredKept, StoredAfter DEF JobMoves, Arguments
  <2>2. QED
    BY <2>1, JobFacts DEF Numbered
<1>3. ASSUME NEW o \in Orders, Known(o, "order")
      PROVE  Known(o, "order")' /\ ids'[o]["order"] = ids[o]["order"]
  <2>1. "order" \in Arguments
    BY DEF Arguments
  <2>2. CASE Read(c)
    <3>1. Current(c) # "order"
      BY <2>2
    <3>2. CASE c[1] = "maker" /\ o = c[2]
      BY <1>1, <1>3, <2>1, <2>2, <3>1, <3>2, KnownAfter, IdsAfterRead
    <3>3. CASE c[1] = "maker" /\ o # c[2]
      <4>1. c # <<"maker", o>>
        BY <3>3
      <4>2. QED
        BY <1>1, <1>3, <2>1, <2>2, <3>1, <3>3, <4>1, KnownElsewhere, IdsAfterRead
    <3>4. CASE c[1] = "caller"
      <4>1. c # <<"maker", o>>
        BY <3>4
      <4>2. QED
        BY <1>1, <1>3, <2>2, <3>4, <4>1, KnownElsewhere, IdsAfterRead
    <3>5. QED
      BY <3>2, <3>3, <3>4, JobFacts
  <2>3. CASE ~Read(c)
    <3>1. ids' = ids
      BY <2>3 DEF Load, Increment, StoreBack
    <3>2. QED
      BY <1>1, <1>3, <2>3, <3>1, KnownElsewhere
  <2>4. QED
    BY <2>2, <2>3
<1>4. ASSUME NEW o \in Orders, step[<<"maker", o>>] = "read", Current(<<"maker", o>>) = "order"
      PROVE  step'[<<"maker", o>>] = "read" /\ Current(<<"maker", o>>)' = "order"
  <2>1. <<"maker", o>> \in Jobs
    BY JobFacts
  <2>2. <<"maker", o>> # c
    BY <1>4 DEF Load, Increment, StoreBack
  <2>3. QED
    BY <1>1, <1>4, <2>1, <2>2 DEF JobMoves, Current, Program
<1>5. QED
  BY <1>1, <1>2, <1>3, <1>4 DEF Dense

LEMMA DenseIncrement ==
  ASSUME Base, Numbers("order"), Dense, NEW c \in Jobs, Increment(c), Current(c) = "order"
  PROVE  Dense'
<1>1. /\ Types /\ Progress /\ OneMaker /\ JobMoves(c) /\ Running(c)
      /\ step[c] = "store" /\ step'[c] = "read" /\ done' = done /\ ids' = ids
  BY IncrementEffect DEF Base
<1>2. c = <<"maker", c[2]>> /\ c[2] \in Orders
  BY <1>1, CurrentFacts, JobFacts
<1>3. order_id' = order_id + 1 /\ order_id \in Nat
  <2>1. reg[c] = order_id
    BY <1>1 DEF Numbers, LoadedLast, Value, Kind
  <2>2. QED
    BY <1>1, <2>1 DEF Increment, StoreBack, Types
<1>4. Numbered' = Numbered \cup {c[2]} /\ c[2] \notin Numbered
  <2>1. \A d \in Jobs : Stored(d, "order")' <=> Stored(d, "order") \/ d = c
    BY <1>1, StoredKept, StoredAfter DEF JobMoves, Arguments
  <2>2. ~Stored(c, "order")
    BY <1>1, StoredAfter DEF Arguments
  <2>3. \A o \in Orders : <<"maker", o>> = c <=> o = c[2]
    BY <1>2
  <2>4. QED
    BY <1>2, <2>1, <2>2, <2>3, JobFacts DEF Numbered
<1>5. order_id' = Cardinality(Numbered')
  BY <1>3, <1>4, Finite, FS_AddElement DEF Dense
<1>6. \A o \in Orders : Known(o, "order")' <=> Known(o, "order")
  BY <1>1 DEF Known
<1>7. \A o \in Orders : step[<<"maker", o>>] # "read"
  <2>1. SUFFICES ASSUME NEW o \in Orders, step[<<"maker", o>>] = "read" PROVE FALSE
    OBVIOUS
  <2>2. Running(<<"maker", o>>) /\ Running(<<"maker", c[2]>>)
    BY <1>1, <1>2, <2>1 DEF Running
  <2>3. o = c[2]
    BY <1>1, <1>2, <2>2 DEF OneMaker
  <2>4. QED
    BY <1>1, <1>2, <2>1, <2>3
<1>8. ASSUME NEW n \in 1..order_id'
      PROVE  \/ \E o \in Orders : Known(o, "order")' /\ ids'[o]["order"] = n
             \/ n = order_id' /\ \E o \in Orders : step'[<<"maker", o>>] = "read"
                                                   /\ Current(<<"maker", o>>)' = "order"
  <2>1. CASE n = order_id'
    <3>1. step'[<<"maker", c[2]>>] = "read" /\ Current(<<"maker", c[2]>>)' = "order"
      BY <1>1, <1>2 DEF Current, Program
    <3>2. QED
      BY <1>2, <2>1, <3>1
  <2>2. CASE n # order_id'
    <3>1. n \in 1..order_id
      BY <1>3, <2>2
    <3>2. PICK o \in Orders : Known(o, "order") /\ ids[o]["order"] = n
      BY <1>7, <3>1 DEF Dense
    <3>3. QED
      BY <1>1, <1>6, <3>2
  <2>3. QED
    BY <2>1, <2>2
<1>9. QED
  BY <1>5, <1>8 DEF Dense

LEMMA DenseRead ==
  ASSUME Base, Numbers("order"), Dense, NEW c \in Jobs, Read(c), Current(c) = "order"
  PROVE  Dense'
<1>1. /\ Types /\ Progress /\ OneMaker /\ JobMoves(c) /\ Running(c)
      /\ step[c] = "read" /\ order_id' = order_id
  BY ReadEffect DEF Base
<1>2. c = <<"maker", c[2]>> /\ c[2] \in Orders /\ c[1] = "maker" /\ "order" \in Arguments
  BY <1>1, CurrentFacts, JobFacts DEF Arguments
<1>3. Numbered' = Numbered
  <2>1. \A d \in Jobs : Stored(d, "order")' <=> Stored(d, "order")
    BY <1>1, StoredKept, StoredAfter DEF JobMoves, Arguments
  <2>2. QED
    BY <2>1, JobFacts DEF Numbered
<1>4. ids'[c[2]]["order"] = order_id
  <2>1. ids'[c[2]]["order"] \in {reg[c] + 1, Counter(c)}
    BY <1>1, <1>2, IdsAfterRead DEF Outcomes
  <2>2. reg[c] + 1 = order_id
    BY <1>1 DEF Numbers, ReadsNew, Value, Kind
  <2>3. QED
    BY <2>1, <2>2 DEF Counter
<1>5. Known(c[2], "order")'
  BY <1>1, <1>2, KnownAfter
<1>6. \A o \in Orders : Known(o, "order") => Known(o, "order")' /\ ids'[o]["order"] = ids[o]["order"]
  <2>1. SUFFICES ASSUME NEW o \in Orders, Known(o, "order")
                 PROVE  Known(o, "order")' /\ ids'[o]["order"] = ids[o]["order"]
    OBVIOUS
  <2>2. o # c[2]
    BY <1>1, <1>2, <2>1, KnownAfter
  <2>3. c # <<"maker", o>>
    BY <2>2
  <2>4. QED
    BY <1>1, <1>2, <2>1, <2>2, <2>3, KnownElsewhere, IdsAfterRead
<1>7. ASSUME NEW n \in 1..order_id'
      PROVE  \E o \in Orders : Known(o, "order")' /\ ids'[o]["order"] = n
  <2>1. CASE n = order_id
    BY <1>2, <1>4, <1>5, <2>1
  <2>2. CASE n # order_id
    <3>1. PICK o \in Orders : Known(o, "order") /\ ids[o]["order"] = n
      BY <1>1, <1>7, <2>2 DEF Dense
    <3>2. QED
      BY <1>6, <3>1
  <2>3. QED
    BY <2>1, <2>2
<1>8. QED
  BY <1>1, <1>3, <1>7 DEF Dense

LEMMA DenseBegins ==
  ASSUME Base, Dense, NEW c \in Jobs, Begins(c)
  PROVE  Dense'
<1>1. /\ step[c] = "queued" /\ order_id' = order_id /\ ids' = ids
      /\ \A d \in Jobs \ {c} : step'[d] = step[d]
      /\ \A d \in Jobs : Current(d)' = Current(d)
      /\ \A d \in Jobs : \A a : Stored(d, a)' <=> Stored(d, a)
      /\ \A o \in Orders : \A a : Known(o, a)' <=> Known(o, a)
  BY BeginsEffect DEF Begins
<1>2. Numbered' = Numbered
  BY <1>1, JobFacts DEF Numbered
<1>3. \A o \in Orders : step[<<"maker", o>>] = "read" => step'[<<"maker", o>>] = "read"
  BY <1>1, JobFacts
<1>4. QED
  BY <1>1, <1>2, <1>3, JobFacts, ZenonT(30) DEF Dense

-----------------------------------------------------------------------------
\* Every step is of one of these forms.
LEMMA NextCases ==
  ASSUME Base, Next
  PROVE  \E c \in Jobs : Begins(c) \/ Load(c) \/ Increment(c) \/ Read(c)
BY CallBase, StartBase, JobFacts DEF Next

LEMMA BaseKept ==
  ASSUME Base, Next
  PROVE  Base'
BY CallBase, StartBase, LoadBase, IncrementBase, ReadBase DEF Next

LEMMA NumbersKept ==
  ASSUME Base, NEW k \in Kinds, Serial(k), Numbers(k), Next
  PROVE  Numbers(k)'
BY NextCases, BeginsNumbers, LoadNumbers, IncrementNumbers, ReadNumbers

LEMMA AllStutter ==
  ASSUME UNCHANGED vars
  PROVE  /\ Base => Base'
         /\ Dense => Dense'
         /\ \A k : Numbers(k) => Numbers(k)'
         /\ OneRunning => OneRunning'
<1>1. UNCHANGED <<order_id, next_id, cafe_strand, step, done, reg, ids>>
  BY DEF vars
<1>2. /\ \A c \in Jobs : (Current(c)' = Current(c)) /\ (Running(c)' <=> Running(c))
      /\ \A c, a : Stored(c, a)' <=> Stored(c, a)
      /\ \A o, a : Known(o, a)' <=> Known(o, a)
      /\ \A k : Value(k)' = Value(k)
  BY <1>1 DEF Current, Program, Running, Stored, Known, Value
<1>3. Increments' = Increments /\ Numbered' = Numbered
  BY <1>2 DEF Increments, Numbered
<1>4. Base => Base'
  <2>1. Types => Types'
    BY <1>1 DEF Types
  <2>2. (Progress => Progress') /\ (OneMaker => OneMaker')
    BY <1>1, <1>2, JobFacts DEF Progress, OneMaker, Size
  <2>3. Posted => Posted'
    BY <1>1 DEF Posted
  <2>4. Bounded => Bounded'
    BY <1>1, <1>2, <1>3 DEF Bounded
  <2>5. QED
    BY <2>1, <2>2, <2>3, <2>4 DEF Base
<1>5. Dense => Dense'
  BY <1>1, <1>2, <1>3, JobFacts DEF Dense
<1>6. ASSUME NEW k, Numbers(k) PROVE Numbers(k)'
  <2>1. LoadedLast(k)' /\ ReadsNew(k)'
    BY <1>1, <1>2, <1>6 DEF Numbers, LoadedLast, ReadsNew
  <2>2. InRange(k)' /\ Distinct(k)'
    BY <1>1, <1>2, <1>6 DEF Numbers, InRange, Distinct
  <2>3. QED
    BY <2>1, <2>2 DEF Numbers
<1>7. OneRunning => OneRunning'
  BY <1>2 DEF OneRunning
<1>8. QED
  BY <1>4, <1>5, <1>6, <1>7

\* The inductive invariant holds for every number of threads.
THEOREM Invariant == Spec => []IInv
<1>1. Init => IInv
  <2>1. SUFFICES ASSUME Init PROVE IInv
    OBVIOUS
  <2>2. Base /\ Numbers("order")
    BY <2>1, InitBase, InitNumbers
  <2>3. Numbered = {}
    <3>1. \A o \in Orders : step[<<"maker", o>>] = "queued" /\ done[<<"maker", o>>] = 0
      BY <2>1, JobFacts DEF Init
    <3>2. QED
      BY <3>1 DEF Numbered, Stored
  <2>4. Dense
    BY <2>1, <2>3, FS_EmptySet DEF Init, Dense
  <2>5. QED
    BY <2>2, <2>4 DEF IInv
<1>2. IInv /\ [Next]_vars => IInv'
  <2>1. SUFFICES ASSUME IInv, [Next]_vars PROVE IInv'
    OBVIOUS
  <2>2. CASE Next
    <3>1. Base /\ Numbers("order") /\ Dense /\ Serial("order") /\ "order" \in Kinds
      BY <2>1, SerialOrders DEF IInv, Base, Kinds
    <3>2. Base' /\ Numbers("order")'
      BY <2>2, <3>1, BaseKept, NumbersKept
    <3>3. Dense'
      BY <2>2, <3>1, NextCases, DenseBegins, DenseKept, DenseIncrement, DenseRead
    <3>4. QED
      BY <3>2, <3>3 DEF IInv
  <2>3. CASE UNCHANGED vars
    BY <2>1, <2>3, AllStutter DEF IInv
  <2>4. QED
    BY <2>1, <2>2, <2>3
<1>3. QED
  BY <1>1, <1>2, PTL DEF Spec

\* The lambda of a finished order has given it everything.
LEMMA MadeKnown ==
  ASSUME Base, NEW o \in Made, NEW a \in Arguments
  PROVE  Known(o, a)
<1>1. o \in Orders /\ <<"maker", o>> \in Jobs /\ step[<<"maker", o>>] = "finished"
  BY JobFacts DEF Made
<1>2. done[<<"maker", o>>] = 3
  BY <1>1 DEF Base, Progress, Size
<1>3. QED
  BY <1>2, ArgOrderAll DEF Known

(***************************************************************************)
(* Types, with the bounds of the counters: next_id_ may lose increments    *)
(* and never gains one, order_id_ has one for every order at most.         *)
(***************************************************************************)
THEOREM TypeCorrect == Spec => []TypeOK
<1>1. IInv => TypeOK
  <2>1. SUFFICES ASSUME IInv PROVE TypeOK
    OBVIOUS
  <2>2. Types /\ Bounded /\ Dense
    BY <2>1 DEF IInv, Base
  <2>3. Cardinality(Orders) \in Nat
    BY FS_CardinalityType, StoreAssumption
  <2>4. order_id \in 0..Cardinality(Orders)
    BY <2>2, <2>3, Finite DEF Types, Dense
  <2>5. next_id \in 0..4 * Cardinality(Orders)
    BY <2>2, <2>3, Finite DEF Types, Bounded
  <2>6. QED
    BY <2>2, <2>4, <2>5 DEF Types, TypeOK
<1>2. QED
  BY <1>1, Invariant, PTL

\* No two orders get the same number, however many threads call OrderHotDog.
THEOREM OrderNumbersUnique == Spec => []HotDogIdsUnique
<1>1. IInv => HotDogIdsUnique
  <2>1. SUFFICES ASSUME IInv, NEW o \in Made, NEW p \in Made,
                        ids[o]["order"] = ids[p]["order"]
                 PROVE  o = p
    BY DEF HotDogIdsUnique
  <2>2. o \in Orders /\ p \in Orders /\ "order" \in Arguments
    BY DEF Made, Arguments
  <2>3. Known(o, "order") /\ Known(p, "order")
    BY <2>1, <2>2, MadeKnown DEF IInv
  <2>4. QED
    BY <2>1, <2>2, <2>3 DEF IInv, Numbers, Distinct, Kind
<1>2. QED
  BY <1>1, Invariant, PTL

\* Between two lambdas the orders made are numbered from one, without a gap.
THEOREM NumbersDense == Spec => []OrdersNumberedDensely
<1>1. IInv => OrdersNumberedDensely
  <2>1. SUFFICES ASSUME IInv, \A o \in Orders : ~Running(<<"maker", o>>)
                 PROVE  /\ order_id = Cardinality(Made)
                        /\ {ids[o]["order"] : o \in Made} = 1..order_id
    BY DEF OrdersNumberedDensely
  <2>2. Base /\ Dense /\ Numbers("order") /\ "order" \in Arguments
    BY <2>1 DEF IInv, Arguments
  <2>3. ASSUME NEW o \in Orders
        PROVE  /\ o \in Made <=> Stored(<<"maker", o>>, "order")
               /\ o \in Made <=> Known(o, "order")
    <3>1. <<"maker", o>> \in Jobs /\ ~Running(<<"maker", o>>)
      BY <2>1, JobFacts
    <3>2. CASE o \in Made
      <4>1. Known(o, "order")
        BY <2>2, <3>2, MadeKnown
      <4>2. step[<<"maker", o>>] = "finished" /\ done[<<"maker", o>>] = 3
        BY <2>2, <3>1, <3>2 DEF Made, Base, Progress, Size
      <4>3. Stored(<<"maker", o>>, "order")
        BY <4>1, <4>2 DEF Known, Stored, Size, Program
      <4>4. QED
        BY <3>2, <4>1, <4>3
    <3>3. CASE o \notin Made
      <4>1. step[<<"maker", o>>] = "queued"
        BY <2>2, <3>1, <3>3 DEF Made, Base, Types, Steps, Running
      <4>2. done[<<"maker", o>>] = 0
        BY <2>2, <3>1, <4>1 DEF Base, Progress
      <4>3. QED
        BY <3>3, <4>1, <4>2 DEF Known, Stored
    <3>4. QED
      BY <3>2, <3>3
  <2>4. Numbered = Made
    BY <2>3 DEF Numbered, Made
  <2>5. \A o \in Orders : step[<<"maker", o>>] # "read"
    BY <2>1 DEF Running
  <2>6. ASSUME NEW n \in 1..order_id PROVE \E o \in Made : ids[o]["order"] = n
    BY <2>2, <2>3, <2>5 DEF Dense
  <2>7. ASSUME NEW o \in Made PROVE ids[o]["order"] \in 1..order_id
    <3>1. o \in Orders /\ Known(o, "order")
      BY <2>2, MadeKnown DEF Made
    <3>2. QED
      BY <2>2, <3>1 DEF Numbers, InRange, Kind, Value
  <2>8. order_id = Cardinality(Made)
    BY <2>2, <2>4 DEF Dense
  <2>9. QED
    BY <2>6, <2>7, <2>8
<1>2. QED
  BY <1>1, Invariant, PTL

(***************************************************************************)
(* A program that runs the cafeteria on one thread, callers included, has  *)
(* the ids the store promises: the race is between threads only.           *)
(***************************************************************************)
THEOREM OneThreadIdsUnique ==
  ASSUME NumThreads = 1
  PROVE  Spec => []IngredientIdsUnique
<1>1. Init => IInvOneThread
  BY InitBase, InitNumbers DEF IInvOneThread, OneRunning, Init, Running
<1>2. IInvOneThread /\ [Next]_vars => IInvOneThread'
  <2>1. SUFFICES ASSUME IInvOneThread, [Next]_vars PROVE IInvOneThread'
    OBVIOUS
  <2>2. CASE Next
    <3>1. Base /\ OneRunning /\ Numbers("ingredient") /\ "ingredient" \in Kinds
      BY <2>1 DEF IInvOneThread, Kinds
    <3>2. Serial("ingredient")
      BY <3>1 DEF OneRunning, Serial
    <3>3. Base' /\ Numbers("ingredient")'
      BY <2>2, <3>1, <3>2, BaseKept, NumbersKept
    <3>4. OneRunning'
      <4>1. CASE FreeThread /\ \E c \in Jobs : Begins(c)
        <5>1. PICK c \in Jobs : Begins(c)
          BY <4>1
        <5>2. {d \in Jobs : Running(d)} = {}
          <6>1. IsFiniteSet({d \in Jobs : Running(d)})
            BY Finite, FS_Subset
          <6>2. Cardinality({d \in Jobs : Running(d)}) \in Nat
            BY <6>1, FS_CardinalityType
          <6>3. Cardinality({d \in Jobs : Running(d)}) = 0
            BY <4>1, <6>2 DEF FreeThread
          <6>4. QED
            BY <6>1, <6>3, FS_EmptySet
        <5>3. \A d \in Jobs \ {c} : step'[d] = step[d]
          BY <3>1, <5>1, BeginsEffect
        <5>4. QED
          BY <5>2, <5>3 DEF OneRunning, Running
      <4>2. CASE \E c \in Jobs : Load(c) \/ Increment(c) \/ Read(c)
        <5>1. PICK c \in Jobs : Load(c) \/ Increment(c) \/ Read(c)
          BY <4>2
        <5>2. JobMoves(c) /\ Running(c)
          BY <3>1, <5>1, LoadEffect, IncrementEffect, ReadEffect DEF Base
        <5>3. \A d \in Jobs : Running(d)' => Running(d)
          BY <5>2 DEF JobMoves, Running
        <5>4. QED
          BY <3>1, <5>3 DEF OneRunning
      <4>3. QED
        BY <2>2, <3>1, <4>1, <4>2, CallBase, StartBase, JobFacts DEF Next, Call, StartMaking
    <3>5. QED
      BY <3>3, <3>4 DEF IInvOneThread
  <2>3. CASE UNCHANGED vars
    BY <2>1, <2>3, AllStutter DEF IInvOneThread
  <2>4. QED
    BY <2>1, <2>2, <2>3
<1>3. IInvOneThread => IngredientIdsUnique
  <2>1. SUFFICES ASSUME IInvOneThread, NEW o \in Made, NEW p \in Made,
                        NEW a \in Ingredients, NEW b \in Ingredients, ids[o][a] = ids[p][b]
                 PROVE  o = p /\ a = b
    BY DEF IngredientIdsUnique
  <2>2. o \in Orders /\ p \in Orders /\ a \in Arguments /\ b \in Arguments
        /\ Kind(a) = "ingredient" /\ Kind(b) = "ingredient"
    BY DEF Made, Arguments, Ingredients, Kind
  <2>3. Known(o, a) /\ Known(p, b)
    BY <2>1, <2>2, MadeKnown DEF IInvOneThread
  <2>4. QED
    BY <2>1, <2>2, <2>3 DEF IInvOneThread, Numbers, Distinct
<1>4. QED
  BY <1>1, <1>2, <1>3, PTL DEF Spec
=============================================================================
