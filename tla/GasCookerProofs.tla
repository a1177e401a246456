-------------------------- MODULE GasCookerProofs ---------------------------
(***************************************************************************)
(* Proofs about GasCooker, for any finite set of users and any positive    *)
(* number of burners.                                                      *)
(*                                                                         *)
(* None of the invariants the runs check is inductive alone.  That         *)
(* burners_in_use_ equals the number of holders survives a release only if *)
(* the released user is a holder, which OneLambdaPerUser says; that a      *)
(* hand-over posts a user that waits needs the same conjunct for the       *)
(* deque.  IInv is their conjunction.                                      *)
(***************************************************************************)
EXTENDS GasCooker, FiniteSetTheorems, SequenceTheorems, TLAPS

IInv ==
  /\ TypeOK
  /\ OneLambdaPerUser
  /\ BurnersAccounted
  /\ NoLostRequest

-----------------------------------------------------------------------------
(***************************************************************************)
(* Sequences and finite sets, in the form the steps below use them.        *)
(***************************************************************************)

\* Appending keeps every index and adds one.
LEMMA AppendFacts ==
  ASSUME NEW S, NEW s \in Seq(S), NEW e \in S
  PROVE  /\ Append(s, e) \in Seq(S)
         /\ Len(s) \in Nat
         /\ Len(Append(s, e)) = Len(s) + 1
         /\ \A i \in 1..Len(s) : Append(s, e)[i] = s[i]
         /\ Append(s, e)[Len(s) + 1] = e
BY AppendProperties, LenProperties

\* Taking the head shifts every other index down by one.
LEMMA TailFacts ==
  ASSUME NEW S, NEW s \in Seq(S), s # <<>>
  PROVE  /\ Tail(s) \in Seq(S)
         /\ Len(s) \in Nat \ {0}
         /\ Len(Tail(s)) = Len(s) - 1
         /\ \A i \in 1..(Len(s) - 1) : Tail(s)[i] = s[i + 1]
         /\ Head(s) = s[1]
         /\ s[1] \in S
<1>1. Len(s) \in Nat \ {0}
  BY EmptySeq
<1>2. Head(s) = s[1]
  OBVIOUS
<1>3. s[1] \in S
  BY <1>1, ElementOfSeq
<1>4. QED
  BY <1>1, <1>2, <1>3, HeadTailProperties

\* Holders is a finite set whatever the phases are.
LEMMA HoldersFinite == IsFiniteSet(Holders) /\ IsFiniteSet(Holders')
BY CookerAssumption, FS_Subset DEF Holders

\* What dispatching a lambda does to the strand.
LEMMA Dispatched ==
  ASSUME TypeOK, NEW e \in Lambdas, strand' = Append(strand, e)
  PROVE  /\ strand' \in Seq(Lambdas)
         /\ Len(strand) \in Nat
         /\ Len(strand') = Len(strand) + 1
         /\ \A i \in 1..Len(strand) : strand'[i] = strand[i] /\ strand[i] \in Lambdas
         /\ strand'[Len(strand) + 1] = e
BY AppendFacts, ElementOfSeq DEF TypeOK

\* What running the lambda at the head does to the strand.
LEMMA Ran ==
  ASSUME TypeOK, NEW op, NEW u, Runs(op, u)
  PROVE  /\ strand' \in Seq(Lambdas)
         /\ Len(strand) \in Nat \ {0}
         /\ Len(strand') = Len(strand) - 1
         /\ \A i \in 1..Len(strand) : strand[i] \in Lambdas
         /\ \A i \in 1..Len(strand') : i + 1 \in 1..Len(strand) /\ strand'[i] = strand[i + 1]
         /\ strand[1] = [op |-> op, user |-> u]
         /\ owner' = owner
<1>1. strand \in Seq(Lambdas) /\ strand # <<>>
  BY DEF TypeOK, Runs
<1>2. QED
  BY <1>1, TailFacts, ElementOfSeq DEF Runs

\* With one lambda per user, the user whose lambda ran has none left.
LEMMA RanLast ==
  ASSUME TypeOK, OneLambdaPerUser, NEW op, NEW u \in Users, Runs(op, u)
  PROVE  /\ use[u] = IF op = "use" THEN "requested" ELSE "releasing"
         /\ \A i \in 1..Len(strand') :
              /\ strand'[i].user \in Users \ {u}
              /\ use[strand'[i].user] =
                   IF strand'[i].op = "use" THEN "requested" ELSE "releasing"
         /\ \A i, j \in 1..Len(strand') : strand'[i].user = strand'[j].user => i = j
         /\ \A i \in 1..Len(strand'), j \in 1..Len(pending_handlers) :
              strand'[i].user # pending_handlers[j]
         /\ \A j \in 1..Len(pending_handlers) : pending_handlers[j] \in Users \ {u}
         /\ \A v \in Users \ {u}, o \in {"use", "release"} :
              (\E i \in 1..Len(strand) : strand[i] = [op |-> o, user |-> v])
                => \E i \in 1..Len(strand') : strand'[i] = [op |-> o, user |-> v]
<1>1. /\ Len(strand) \in Nat \ {0}
      /\ Len(strand') = Len(strand) - 1
      /\ \A i \in 1..Len(strand) : strand[i] \in Lambdas
      /\ \A i \in 1..Len(strand') : i + 1 \in 1..Len(strand) /\ strand'[i] = strand[i + 1]
      /\ strand[1] = [op |-> op, user |-> u]
  BY Ran
<1>2. 1 \in 1..Len(strand) /\ strand[1].user = u /\ strand[1].op = op
  BY <1>1
<1>3. use[u] = IF op = "use" THEN "requested" ELSE "releasing"
  BY <1>2 DEF OneLambdaPerUser
<1>4. ASSUME NEW i \in 1..Len(strand')
      PROVE  /\ strand'[i].user \in Users \ {u}
             /\ use[strand'[i].user] =
                  IF strand'[i].op = "use" THEN "requested" ELSE "releasing"
  <2>1. strand[i + 1] \in Lambdas /\ strand'[i] = strand[i + 1] /\ i + 1 # 1
    BY <1>1
  <2>2. strand[i + 1].user # u
    BY <1>1, <1>2, <2>1 DEF OneLambdaPerUser
  <2>3. QED
    BY <1>1, <2>1, <2>2 DEF OneLambdaPerUser, Lambdas
<1>5. \A i, j \in 1..Len(strand') : strand'[i].user = strand'[j].user => i = j
  BY <1>1, SMTT(30) DEF OneLambdaPerUser
<1>6. \A i \in 1..Len(strand'), j \in 1..Len(pending_handlers) :
        strand'[i].user # pending_handlers[j]
  <2>1. \A i \in 1..Len(strand'), j \in 1..Len(pending_handlers) :
          strand[i + 1].user # pending_handlers[j]
    BY <1>1 DEF OneLambdaPerUser
  <2>2. QED
    BY <1>1, <2>1
<1>7. \A j \in 1..Len(pending_handlers) : pending_handlers[j] \in Users \ {u}
  <2>1. \A j \in 1..Len(pending_handlers) : pending_handlers[j] \in Users
    BY ElementOfSeq DEF TypeOK
  <2>2. QED
    BY <1>2, <2>1 DEF OneLambdaPerUser
<1>8. ASSUME NEW v \in Users \ {u}, NEW o \in {"use", "release"},
             NEW i \in 1..Len(strand), strand[i] = [op |-> o, user |-> v]
      PROVE  \E k \in 1..Len(strand') : strand'[k] = [op |-> o, user |-> v]
  <2>1. i # 1
    BY <1>1, <1>8
  <2>2. i - 1 \in 1..Len(strand') /\ strand'[i - 1] = strand[i]
    BY <1>1, <2>1
  <2>3. QED
    BY <1>8, <2>2
<1>9. QED
  BY <1>3, <1>4, <1>5, <1>6, <1>7, <1>8

\* An ungranted request other than u's stays in the strand when u's lambda runs.
LEMMA RanKeeps ==
  ASSUME TypeOK, OneLambdaPerUser, NEW op, NEW u \in Users, Runs(op, u),
         NEW v \in Users \ {u}, InStrand(v) # {}
  PROVE  InStrand(v)' # {}
<1>1. (\E i \in 1..Len(strand) : strand[i] = [op |-> "use", user |-> v])
        => \E i \in 1..Len(strand') : strand'[i] = [op |-> "use", user |-> v]
  BY RanLast
<1>2. QED
  BY <1>1 DEF InStrand

\* What a lambda must respect for OneLambdaPerUser to survive its run.
LEMMA RanOne ==
  ASSUME TypeOK, OneLambdaPerUser, NEW op, NEW u \in Users, Runs(op, u),
         \A v \in Users \ {u} : use'[v] = use[v] \/ \E j \in 1..Len(pending_handlers) : pending_handlers[j] = v,
         \A j \in 1..Len(pending_handlers') : use'[pending_handlers'[j]] = "requested",
         \A i, j \in 1..Len(pending_handlers') :
           pending_handlers'[i] = pending_handlers'[j] => i = j,
         \A j \in 1..Len(pending_handlers') :
           \/ pending_handlers'[j] = u
           \/ \E k \in 1..Len(pending_handlers) : pending_handlers[k] = pending_handlers'[j],
         \A v \in Users : use'[v] = "releasing" => v # u /\ use[v] = "releasing"
  PROVE  OneLambdaPerUser'
<1>1. \A i \in 1..Len(strand') :
        /\ strand'[i].user \in Users \ {u}
        /\ use[strand'[i].user] = IF strand'[i].op = "use" THEN "requested" ELSE "releasing"
  BY RanLast
<1>2. \A i \in 1..Len(strand'), j \in 1..Len(pending_handlers) :
        strand'[i].user # pending_handlers[j]
  BY RanLast
<1>3. \A i \in 1..Len(strand') :
        use'[strand'[i].user] = IF strand'[i].op = "use" THEN "requested" ELSE "releasing"
  BY <1>1, <1>2
<1>4. \A i, j \in 1..Len(strand') : strand'[i].user = strand'[j].user => i = j
  BY RanLast
<1>5. \A i \in 1..Len(strand'), j \in 1..Len(pending_handlers') :
        strand'[i].user # pending_handlers'[j]
  BY <1>1, <1>2
<1>6. ASSUME NEW v \in Users, use'[v] = "releasing"
      PROVE  \E i \in 1..Len(strand') : strand'[i] = [op |-> "release", user |-> v]
  <2>1. v \in Users \ {u} /\ use[v] = "releasing"
    BY <1>6
  <2>2. \E i \in 1..Len(strand) : strand[i] = [op |-> "release", user |-> v]
    BY <2>1 DEF OneLambdaPerUser
  <2>3. \A w \in Users \ {u}, o \in {"use", "release"} :
          (\E i \in 1..Len(strand) : strand[i] = [op |-> o, user |-> w])
            => \E i \in 1..Len(strand') : strand'[i] = [op |-> o, user |-> w]
    BY RanLast, ZenonT(30)
  <2>4. QED
    BY <2>1, <2>2, <2>3
<1>7. QED
  BY <1>3, <1>4, <1>5, <1>6 DEF OneLambdaPerUser

-----------------------------------------------------------------------------
(***************************************************************************)
(* One lemma per action: it preserves the inductive invariant.             *)
(***************************************************************************)

\* UseBurner: the new lambda belongs to a user that had none.
LEMMA UseBurnerInv ==
  ASSUME IInv, NEW u \in Users, UseBurner(u)
  PROVE  IInv'
<1> DEFINE e == [op |-> "use", user |-> u]
<1> USE DEF IInv, UseBurner, Become
<1>1. e \in Lambdas
  BY DEF Lambdas
<1>2. /\ strand' \in Seq(Lambdas)
      /\ Len(strand) \in Nat
      /\ Len(strand') = Len(strand) + 1
      /\ \A i \in 1..Len(strand) : strand'[i] = strand[i] /\ strand[i].user \in Users
      /\ strand'[Len(strand) + 1] = e
  BY <1>1, Dispatched DEF Lambdas
<1>3. TypeOK'
  BY <1>2 DEF TypeOK, Phases
<1>4. BurnersAccounted'
  <2>1. Holders' = Holders
    BY DEF Holders, TypeOK
  <2>2. QED
    BY <2>1 DEF BurnersAccounted
<1>5. OneLambdaPerUser'
  <2>1. \A i \in 1..Len(strand) : strand[i].user # u
    BY <1>2 DEF OneLambdaPerUser
  <2>2. \A j \in 1..Len(pending_handlers) : pending_handlers[j] \in Users /\ pending_handlers[j] # u
    BY ElementOfSeq DEF OneLambdaPerUser, TypeOK
  <2>3. QED
    BY <1>2, <2>1, <2>2 DEF OneLambdaPerUser, TypeOK
<1>6. NoLostRequest'
  <2>1. InStrand(u)' # {}
    BY <1>2 DEF InStrand
  <2>2. \A v \in Users : InStrand(v) \subseteq InStrand(v)' /\ Pending(v)' = Pending(v)
    BY <1>2 DEF InStrand, Pending
  <2>3. Requested' \subseteq Requested \cup {u}
    BY DEF Requested, TypeOK
  <2>4. QED
    BY <2>1, <2>2, <2>3 DEF NoLostRequest, Requested
<1>7. QED
  BY <1>3, <1>4, <1>5, <1>6

\* ReleaseBurner: the user was cooking, so it had no lambda and holds a burner.
LEMMA ReleaseBurnerInv ==
  ASSUME IInv, NEW u \in Users, ReleaseBurner(u)
  PROVE  IInv'
<1> DEFINE e == [op |-> "release", user |-> u]
<1> USE DEF IInv, ReleaseBurner, Become
<1>1. e \in Lambdas
  BY DEF Lambdas
<1>2. /\ strand' \in Seq(Lambdas)
      /\ Len(strand) \in Nat
      /\ Len(strand') = Len(strand) + 1
      /\ \A i \in 1..Len(strand) : strand'[i] = strand[i] /\ strand[i].user \in Users
      /\ strand'[Len(strand) + 1] = e
  BY <1>1, Dispatched DEF Lambdas
<1>3. TypeOK'
  BY <1>2 DEF TypeOK, Phases
<1>4. BurnersAccounted'
  <2>1. Holders' = Holders
    BY DEF Holders, TypeOK
  <2>2. QED
    BY <2>1 DEF BurnersAccounted
<1>5. OneLambdaPerUser'
  <2>1. \A i \in 1..Len(strand) : strand[i].user # u
    BY <1>2 DEF OneLambdaPerUser
  <2>2. \A j \in 1..Len(pending_handlers) : pending_handlers[j] \in Users /\ pending_handlers[j] # u
    BY ElementOfSeq DEF OneLambdaPerUser, TypeOK
  <2>3. QED
    BY <1>2, <2>1, <2>2 DEF OneLambdaPerUser, TypeOK
<1>6. NoLostRequest'
  <2>1. \A v \in Users : InStrand(v) \subseteq InStrand(v)' /\ Pending(v)' = Pending(v)
    BY <1>2 DEF InStrand, Pending
  <2>2. Requested' \subseteq Requested
    BY DEF Requested, TypeOK
  <2>3. QED
    BY <2>1, <2>2 DEF NoLostRequest, Requested
<1>7. QED
  BY <1>3, <1>4, <1>5, <1>6

\* RunHandler: only the phase changes, from one holding phase to another.
LEMMA RunHandlerInv ==
  ASSUME IInv, NEW u \in Users, RunHandler(u)
  PROVE  IInv'
<1> USE DEF IInv, RunHandler, Become
<1>1. TypeOK'
  BY DEF TypeOK, Phases
<1>2. Holders' = Holders
  BY DEF Holders, TypeOK
<1>3. Requested' = Requested
  BY DEF Requested, TypeOK
<1>4. \A i \in 1..Len(strand) : strand[i].user \in Users
  <2>1. \A i \in 1..Len(strand) : strand[i] \in Lambdas
    BY ElementOfSeq DEF TypeOK
  <2>2. QED
    BY <2>1 DEF Lambdas
<1>5. OneLambdaPerUser'
  BY <1>4, ElementOfSeq DEF OneLambdaPerUser, TypeOK
<1>6. NoLostRequest'
  BY <1>3 DEF NoLostRequest, Requested, InStrand, Pending
<1>7. BurnersAccounted'
  BY <1>2 DEF BurnersAccounted
<1>8. QED
  BY <1>1, <1>5, <1>6, <1>7

\* Occupy: one more holder, one more burner in use.
LEMMA OccupyInv ==
  ASSUME IInv, NEW u \in Users, Occupy(u)
  PROVE  IInv'
<1> USE DEF IInv, Occupy, Become
<1>1. use[u] = "requested"
  BY RanLast
<1>2. TypeOK'
  <2>1. strand' \in Seq(Lambdas) /\ owner' = owner
    BY Ran DEF TypeOK
  <2>2. burners_in_use' \in 0..NumBurners
    BY CookerAssumption DEF TypeOK
  <2>3. QED
    BY <2>1, <2>2 DEF TypeOK, Phases
<1>3. BurnersAccounted'
  <2>1. Holders' = Holders \cup {u} /\ u \notin Holders
    BY <1>1 DEF Holders, TypeOK
  <2>2. QED
    BY <2>1, HoldersFinite, FS_AddElement DEF BurnersAccounted
<1>4. OneLambdaPerUser'
  <2>1. \A v \in Users : use'[v] = "releasing" => v # u /\ use[v] = "releasing"
    BY DEF TypeOK
  <2>2. \A v \in Users \ {u} : use'[v] = use[v]
    BY DEF TypeOK
  <2>3. \A j \in 1..Len(pending_handlers) : pending_handlers[j] \in Users \ {u}
    BY RanLast
  <2>4. \A j \in 1..Len(pending_handlers) : use'[pending_handlers[j]] = "requested"
    BY <2>2, <2>3 DEF OneLambdaPerUser
  <2>5. \A i, j \in 1..Len(pending_handlers) :
          pending_handlers[i] = pending_handlers[j] => i = j
    BY DEF OneLambdaPerUser
  <2>6. /\ \A v \in Users \ {u} :
             use'[v] = use[v] \/ \E j \in 1..Len(pending_handlers) : pending_handlers[j] = v
        /\ \A j \in 1..Len(pending_handlers') :
             \/ pending_handlers'[j] = u
             \/ \E k \in 1..Len(pending_handlers) : pending_handlers[k] = pending_handlers'[j]
    BY <2>2
  <2>7. pending_handlers' = pending_handlers /\ TypeOK /\ OneLambdaPerUser /\ Runs("use", u)
    OBVIOUS
  <2> HIDE DEF Occupy, IInv
  <2>8. QED
    BY RanOne, <2>1, <2>4, <2>5, <2>6, <2>7
<1>5. NoLostRequest'
  <2>1. Requested' = Requested \ {u}
    BY DEF Requested, TypeOK
  <2>2. \A v \in Users \ {u} : InStrand(v) # {} => InStrand(v)' # {}
    BY RanKeeps
  <2>3. \A v \in Users : Pending(v)' = Pending(v)
    BY DEF Pending
  <2>4. pending_handlers' # <<>> => burners_in_use' = NumBurners
    BY CookerAssumption DEF NoLostRequest, TypeOK
  <2>5. QED
    BY <2>1, <2>2, <2>3, <2>4 DEF NoLostRequest, Requested
<1>6. QED
  BY <1>2, <1>3, <1>4, <1>5

\* Enqueue: the request moves from the strand to the back of the deque.
LEMMA EnqueueInv ==
  ASSUME IInv, NEW u \in Users, Enqueue(u)
  PROVE  IInv'
<1> USE DEF IInv, Enqueue
<1>1. use[u] = "requested"
  BY RanLast
<1>2. /\ pending_handlers' \in Seq(Users)
      /\ Len(pending_handlers) \in Nat
      /\ Len(pending_handlers') = Len(pending_handlers) + 1
      /\ \A i \in 1..Len(pending_handlers) : pending_handlers'[i] = pending_handlers[i]
      /\ pending_handlers'[Len(pending_handlers) + 1] = u
  BY AppendFacts DEF TypeOK
<1>3. TypeOK'
  BY Ran, <1>2 DEF TypeOK
<1>4. BurnersAccounted'
  BY DEF BurnersAccounted, Holders
<1>5. OneLambdaPerUser'
  <2>1. \A i \in 1..Len(pending_handlers') : use[pending_handlers'[i]] = "requested"
    BY <1>1, <1>2 DEF OneLambdaPerUser
  <2>2. \A i, j \in 1..Len(pending_handlers') :
          pending_handlers'[i] = pending_handlers'[j] => i = j
    BY RanLast, <1>2 DEF OneLambdaPerUser
  <2>3. \A j \in 1..Len(pending_handlers') :
          \/ pending_handlers'[j] = u
          \/ \E k \in 1..Len(pending_handlers) : pending_handlers[k] = pending_handlers'[j]
    BY <1>2
  <2>4. \A v \in Users : use'[v] = "releasing" => v # u /\ use[v] = "releasing"
    BY <1>1
  <2>5. \A v \in Users \ {u} :
          use'[v] = use[v] \/ \E j \in 1..Len(pending_handlers) : pending_handlers[j] = v
    OBVIOUS
  <2>6. \A j \in 1..Len(pending_handlers') : use'[pending_handlers'[j]] = "requested"
    BY <2>1
  <2>7. TypeOK /\ OneLambdaPerUser /\ Runs("use", u)
    OBVIOUS
  <2> HIDE DEF Enqueue, IInv
  <2>8. QED
    BY RanOne, <2>2, <2>3, <2>4, <2>5, <2>6, <2>7
<1>6. NoLostRequest'
  <2>1. Pending(u)' # {}
    BY <1>2 DEF Pending
  <2>2. \A v \in Users \ {u} : InStrand(v) # {} => InStrand(v)' # {}
    BY RanKeeps
  <2>3. \A v \in Users : Pending(v) \subseteq Pending(v)'
    BY <1>2 DEF Pending
  <2>4. burners_in_use' = NumBurners
    BY CookerAssumption DEF TypeOK
  <2>5. QED
    BY <2>1, <2>2, <2>3, <2>4 DEF NoLostRequest, Requested
<1>7. QED
  BY <1>3, <1>4, <1>5, <1>6

\* HandOver: the holder changes, the number of holders does not.
LEMMA HandOverInv ==
  ASSUME IInv, NEW u \in Users, HandOver(u)
  PROVE  IInv'
<1> DEFINE w == Head(pending_handlers)
<1> USE DEF IInv, HandOver
<1>1. use[u] = "releasing"
  BY RanLast
<1>2. /\ pending_handlers' \in Seq(Users)
      /\ Len(pending_handlers) \in Nat \ {0}
      /\ Len(pending_handlers') = Len(pending_handlers) - 1
      /\ \A i \in 1..Len(pending_handlers') :
           i + 1 \in 1..Len(pending_handlers) /\ pending_handlers'[i] = pending_handlers[i + 1]
      /\ w = pending_handlers[1]
      /\ w \in Users
  BY TailFacts DEF TypeOK
<1> HIDE DEF w
<1>3. use' = [use EXCEPT ![u] = "done", ![w] = "posted"]
  BY DEF w
<1>4. use[w] = "requested" /\ w # u
  BY <1>1, <1>2 DEF OneLambdaPerUser
<1>5. TypeOK'
  BY Ran, <1>2, <1>3 DEF TypeOK, Phases
<1>6. BurnersAccounted'
  <2>1. Holders' = (Holders \ {u}) \cup {w} /\ u \in Holders /\ w \notin Holders
    BY <1>1, <1>2, <1>3, <1>4 DEF Holders, TypeOK
  <2>2. /\ IsFiniteSet(Holders \ {u})
        /\ Cardinality(Holders \ {u}) = Cardinality(Holders) - 1
    BY <2>1, HoldersFinite, FS_RemoveElement
  <2>3. Cardinality(Holders') = Cardinality(Holders \ {u}) + 1
    BY <2>1, <2>2, FS_AddElement
  <2>4. QED
    BY <2>2, <2>3 DEF BurnersAccounted, TypeOK
<1>7. OneLambdaPerUser'
  <2>1. \A v \in Users \ {u} :
          use'[v] = use[v] \/ \E j \in 1..Len(pending_handlers) : pending_handlers[j] = v
    BY <1>2, <1>3 DEF TypeOK
  <2>2. \A j \in 1..Len(pending_handlers) : pending_handlers[j] \in Users \ {u}
    BY RanLast
  <2>3. \A j \in 1..Len(pending_handlers') : use'[pending_handlers'[j]] = "requested"
    <3>1. \A j \in 1..Len(pending_handlers') :
            /\ pending_handlers'[j] \in Users \ {u}
            /\ pending_handlers'[j] # w
            /\ use[pending_handlers'[j]] = "requested"
      BY <1>2, <2>2 DEF OneLambdaPerUser
    <3>2. QED
      BY <1>3, <3>1 DEF TypeOK
  <2>4. \A i, j \in 1..Len(pending_handlers') :
          pending_handlers'[i] = pending_handlers'[j] => i = j
    BY <1>2 DEF OneLambdaPerUser
  <2>5. \A j \in 1..Len(pending_handlers') :
          \/ pending_handlers'[j] = u
          \/ \E k \in 1..Len(pending_handlers) : pending_handlers[k] = pending_handlers'[j]
    BY <1>2
  <2>6. \A v \in Users : use'[v] = "releasing" => v # u /\ use[v] = "releasing"
    BY <1>2, <1>3 DEF TypeOK
  <2>7. TypeOK /\ OneLambdaPerUser /\ Runs("release", u)
    OBVIOUS
  <2> HIDE DEF HandOver, IInv
  <2>8. QED
    BY RanOne, <2>1, <2>3, <2>4, <2>5, <2>6, <2>7
<1>8. NoLostRequest'
  <2>1. Requested' = Requested \ {w} /\ u \notin Requested
    BY <1>1, <1>2, <1>3, <1>4 DEF Requested, TypeOK
  <2>2. \A v \in Users \ {u} : InStrand(v) # {} => InStrand(v)' # {}
    BY RanKeeps
  <2>3. ASSUME NEW v \in Users \ {w}, NEW i \in Pending(v)
        PROVE  i - 1 \in Pending(v)'
    BY <1>2 DEF Pending
  <2>4. burners_in_use' = NumBurners
    BY DEF NoLostRequest
  <2>5. QED
    BY <2>1, <2>2, <2>3, <2>4 DEF NoLostRequest, Requested
<1>9. QED
  BY <1>5, <1>6, <1>7, <1>8

\* FreeBurner: the releasing user was a holder, so the count stays in step.
LEMMA FreeBurnerInv ==
  ASSUME IInv, NEW u \in Users, FreeBurner(u)
  PROVE  IInv'
<1> USE DEF IInv, FreeBurner, Become
<1>1. use[u] = "releasing"
  BY RanLast
<1>2. BurnersAccounted' /\ burners_in_use > 0
  <2>1. Holders' = Holders \ {u} /\ u \in Holders
    BY <1>1 DEF Holders, TypeOK
  <2>2. Cardinality(Holders') = Cardinality(Holders) - 1
    BY <2>1, HoldersFinite, FS_RemoveElement
  <2>3. Cardinality(Holders') \in Nat
    BY HoldersFinite, FS_CardinalityType
  <2>4. QED
    BY <2>2, <2>3 DEF BurnersAccounted, TypeOK
<1>3. TypeOK'
  <2>1. strand' \in Seq(Lambdas) /\ owner' = owner
    BY Ran DEF TypeOK
  <2>2. burners_in_use' \in 0..NumBurners
    BY <1>2, CookerAssumption DEF TypeOK
  <2>3. QED
    BY <2>1, <2>2 DEF TypeOK, Phases
<1>4. OneLambdaPerUser'
  <2>1. \A v \in Users : use'[v] = "releasing" => v # u /\ use[v] = "releasing"
    BY DEF TypeOK
  <2>2. \A v \in Users \ {u} : use'[v] = use[v]
    BY DEF TypeOK
  <2>3. \A j \in 1..Len(pending_handlers) : pending_handlers[j] \in Users \ {u}
    BY RanLast
  <2>4. \A j \in 1..Len(pending_handlers) : use'[pending_handlers[j]] = "requested"
    BY <2>2, <2>3 DEF OneLambdaPerUser
  <2>5. \A i, j \in 1..Len(pending_handlers) :
          pending_handlers[i] = pending_handlers[j] => i = j
    BY DEF OneLambdaPerUser
  <2>6. /\ \A v \in Users \ {u} :
             use'[v] = use[v] \/ \E j \in 1..Len(pending_handlers) : pending_handlers[j] = v
        /\ \A j \in 1..Len(pending_handlers') :
             \/ pending_handlers'[j] = u
             \/ \E k \in 1..Len(pending_handlers) : pending_handlers[k] = pending_handlers'[j]
    BY <2>2
  <2>7. pending_handlers' = pending_handlers /\ TypeOK /\ OneLambdaPerUser /\ Runs("release", u)
    OBVIOUS
  <2> HIDE DEF FreeBurner, IInv
  <2>8. QED
    BY RanOne, <2>1, <2>4, <2>5, <2>6, <2>7
<1>5. NoLostRequest'
  <2>1. Requested' = Requested /\ u \notin Requested
    BY <1>1 DEF Requested, TypeOK
  <2>2. \A v \in Users \ {u} : InStrand(v) # {} => InStrand(v)' # {}
    BY RanKeeps
  <2>3. \A v \in Users : Pending(v)' = Pending(v)
    BY DEF Pending
  <2>4. QED
    BY <2>1, <2>2, <2>3 DEF NoLostRequest, Requested
<1>6. QED
  BY <1>2, <1>3, <1>4, <1>5

\* DropOwner and stuttering touch nothing the invariant speaks of but owner.
LEMMA DropOwnerInv ==
  ASSUME IInv, DropOwner \/ UNCHANGED vars
  PROVE  IInv'
<1>1. owner' \in BOOLEAN /\ UNCHANGED <<strand, burners_in_use, pending_handlers, use>>
  BY DEF IInv, TypeOK, DropOwner, vars
<1>2. TypeOK'
  BY <1>1 DEF IInv, TypeOK
<1>3. OneLambdaPerUser'
  <2>1. OneLambdaPerUser
    BY DEF IInv
  <2>2. QED
    BY <1>1, <2>1 DEF OneLambdaPerUser
<1>4. BurnersAccounted'
  BY <1>1 DEF IInv, BurnersAccounted, Holders
<1>5. NoLostRequest'
  <2>1. NoLostRequest
    BY DEF IInv
  <2>2. Requested' = Requested /\ \A v \in Users : InStrand(v)' = InStrand(v) /\ Pending(v)' = Pending(v)
    BY <1>1 DEF Requested, InStrand, Pending
  <2>3. QED
    BY <1>1, <2>1, <2>2 DEF NoLostRequest, Requested
<1>6. QED
  BY <1>2, <1>3, <1>4, <1>5 DEF IInv

LEMMA InitInv == Init => IInv
<1> SUFFICES ASSUME Init PROVE IInv
  OBVIOUS
<1>1. TypeOK
  BY CookerAssumption DEF Init, TypeOK, Phases
<1>2. Holders = {} /\ Requested = {}
  BY DEF Init, Holders, Requested
<1>3. BurnersAccounted
  BY <1>2, FS_EmptySet DEF Init, BurnersAccounted
<1>4. OneLambdaPerUser /\ NoLostRequest
  BY <1>2 DEF Init, OneLambdaPerUser, NoLostRequest
<1>5. QED
  BY <1>1, <1>3, <1>4 DEF IInv

LEMMA NextInv == IInv /\ [Next]_vars => IInv'
<1> SUFFICES ASSUME IInv, [Next]_vars PROVE IInv'
  OBVIOUS
<1>1. ASSUME NEW u \in Users, UseBurner(u) PROVE IInv'
  BY <1>1, UseBurnerInv
<1>2. ASSUME NEW u \in Users, RunHandler(u) PROVE IInv'
  BY <1>2, RunHandlerInv
<1>3. ASSUME NEW u \in Users, ReleaseBurner(u) PROVE IInv'
  BY <1>3, ReleaseBurnerInv
<1>4. ASSUME NEW u \in Users, Occupy(u) PROVE IInv'
  BY <1>4, OccupyInv
<1>5. ASSUME NEW u \in Users, Enqueue(u) PROVE IInv'
  BY <1>5, EnqueueInv
<1>6. ASSUME NEW u \in Users, HandOver(u) PROVE IInv'
  BY <1>6, HandOverInv
<1>7. ASSUME NEW u \in Users, FreeBurner(u) PROVE IInv'
  BY <1>7, FreeBurnerInv
<1>8. CASE DropOwner \/ UNCHANGED vars
  BY <1>8, DropOwnerInv
<1>9. QED
  BY <1>1, <1>2, <1>3, <1>4, <1>5, <1>6, <1>7, <1>8 DEF Next, StrandStep

-----------------------------------------------------------------------------
(***************************************************************************)
(* The theorems.                                                           *)
(***************************************************************************)

(***************************************************************************)
(* The inductive invariant holds in every reachable state of the cooker.   *)
(***************************************************************************)
THEOREM Invariant == Spec => []IInv
BY InitInv, NextInv, PTL DEF Spec

(***************************************************************************)
(* Type correctness; burners_in_use_ never exceeds number_of_burners_ and  *)
(* never goes below zero (the asserts of both lambdas, gascooker.h:49, 65  *)
(* and 73).                                                                *)
(***************************************************************************)
THEOREM TypeCorrect == Spec => []TypeOK
<1>1. IInv => TypeOK
  BY DEF IInv
<1>2. QED
  BY <1>1, Invariant, PTL

(***************************************************************************)
(* The counter and the holders agree after every step of UseBurner and     *)
(* ReleaseBurner, in whatever order threads call them.                     *)
(***************************************************************************)
THEOREM AccountsBurners == Spec => []BurnersAccounted
<1>1. IInv => BurnersAccounted
  BY DEF IInv
<1>2. QED
  BY <1>1, Invariant, PTL

(***************************************************************************)
(* No request is dropped between the strand and pending_handlers_, and     *)
(* nobody waits while a burner is free.                                    *)
(***************************************************************************)
THEOREM LosesNoRequest == Spec => []NoLostRequest
<1>1. IInv => NoLostRequest
  BY DEF IInv
<1>2. QED
  BY <1>1, Invariant, PTL

(***************************************************************************)
(* Every user has at most one lambda or queued handler, in its own phase.  *)
(***************************************************************************)
THEOREM KeepsOneLambda == Spec => []OneLambdaPerUser
<1>1. IInv => OneLambdaPerUser
  BY DEF IInv
<1>2. QED
  BY <1>1, Invariant, PTL

(***************************************************************************)
(* The asserts before a burner is released cannot fire: the releasing user *)
(* itself is a holder.                                                     *)
(***************************************************************************)
THEOREM AssertsNeverFire == Spec => []AssertsHold
<1>1. ASSUME IInv, strand # <<>>, Head(strand).op = "release"
      PROVE  burners_in_use \in 1..NumBurners
  <2> DEFINE u == Head(strand).user
  <2>1. 1 \in 1..Len(strand) /\ Head(strand) = strand[1] /\ strand[1] \in Lambdas
    BY <1>1, TailFacts DEF IInv, TypeOK
  <2>2. u \in Users /\ use[u] = "releasing"
    BY <1>1, <2>1 DEF IInv, OneLambdaPerUser, Lambdas
  <2>3. u \in Holders
    BY <2>2 DEF Holders
  <2>4. Cardinality(Holders) \in Nat /\ Cardinality(Holders) # 0
    BY <2>3, HoldersFinite, FS_CardinalityType, FS_EmptySet
  <2>5. QED
    BY <1>1, <2>4, CookerAssumption DEF IInv, TypeOK, BurnersAccounted
<1>2. IInv => AssertsHold
  BY <1>1 DEF AssertsHold
<1>3. QED
  BY <1>2, Invariant, PTL

(***************************************************************************)
(* ~GasCooker finds every burner free and no handler waiting: with no lock *)
(* and no lambda left there is no holder and no request.                   *)
(***************************************************************************)
THEOREM DestroysIdle == Spec => []DestroyedIdle
<1>1. ASSUME IInv, ~Referenced
      PROVE  burners_in_use = 0 /\ pending_handlers = <<>>
  <2>1. Locked = {} /\ Len(strand) = 0
    BY <1>1 DEF Referenced
  <2>2. \A u \in Users : use[u] # "releasing"
    BY <1>1, <2>1 DEF IInv, OneLambdaPerUser
  <2>3. Holders = {}
    BY <2>1, <2>2 DEF Holders, Locked
  <2>4. burners_in_use = 0
    BY <1>1, <2>3, FS_EmptySet DEF IInv, BurnersAccounted
  <2>5. QED
    BY <1>1, <2>4, CookerAssumption DEF IInv, NoLostRequest
<1>2. IInv => DestroyedIdle
  BY <1>1 DEF DestroyedIdle
<1>3. QED
  BY <1>2, Invariant, PTL

-----------------------------------------------------------------------------
(***************************************************************************)
(* First come, first served.                                               *)
(***************************************************************************)

\* Whoever stands in the strand or in the deque has an ungranted request.
LEMMA StandingRequested ==
  ASSUME IInv, NEW u \in Users, NEW w \in Users, AheadOf(u, w)
  PROVE  /\ w \in Requested
         /\ InStrand(w) # {} \/ Pending(w) # {}
<1>1. \A v \in Users : InStrand(v) # {} => v \in Requested
  <2> SUFFICES ASSUME NEW v \in Users, NEW i \in InStrand(v) PROVE v \in Requested
    OBVIOUS
  <2>1. i \in 1..Len(strand) /\ strand[i].op = "use" /\ strand[i].user = v
    BY DEF InStrand
  <2>2. QED
    BY <2>1 DEF IInv, OneLambdaPerUser, Requested
<1>2. \A v \in Users : Pending(v) # {} => v \in Requested
  BY DEF IInv, OneLambdaPerUser, Requested, Pending
<1>3. InStrand(w) # {} \/ Pending(w) # {}
  BY DEF AheadOf
<1>4. QED
  BY <1>1, <1>2, <1>3

\* A newcomer finds a free burner only when the deque is empty.
LEMMA OccupyInTurn ==
  ASSUME IInv, NEW u \in Users, NEW w \in Users, Occupy(w)
  PROVE  ~AheadOf(u, w)
<1>1. pending_handlers = <<>>
  BY CookerAssumption DEF IInv, NoLostRequest, TypeOK, Occupy
<1>2. Pending(w) = {} /\ Pending(u) = {}
  BY <1>1 DEF Pending
<1>3. InStrand(w) \subseteq {1}
  <2> SUFFICES ASSUME NEW i \in InStrand(w) PROVE i = 1
    OBVIOUS
  <2>1. i \in 1..Len(strand) /\ strand[i].user = w
    BY DEF InStrand
  <2>2. Len(strand) \in Nat \ {0} /\ strand[1] = [op |-> "use", user |-> w]
    BY Ran DEF IInv, Occupy
  <2>3. 1 \in 1..Len(strand) /\ strand[1].user = w
    BY <2>2
  <2>4. QED
    BY <2>1, <2>3 DEF IInv, OneLambdaPerUser
<1>4. \A i \in InStrand(u) : i \in 1..Len(strand)
  BY DEF InStrand
<1>5. QED
  BY <1>2, <1>3, <1>4 DEF AheadOf

\* A burner is handed to the front of the deque, ahead of everything else.
LEMMA HandOverInTurn ==
  ASSUME IInv, NEW r, HandOver(r), NEW u \in Users, NEW w \in Users,
         w = Head(pending_handlers)
  PROVE  ~AheadOf(u, w)
<1>1. 1 \in 1..Len(pending_handlers) /\ pending_handlers[1] = w
  BY TailFacts DEF IInv, TypeOK, HandOver
<1>2. Pending(w) \subseteq {1}
  BY <1>1 DEF Pending, IInv, OneLambdaPerUser
<1>3. InStrand(w) = {}
  <2> SUFFICES ASSUME NEW i \in InStrand(w) PROVE FALSE
    OBVIOUS
  <2>1. i \in 1..Len(strand) /\ strand[i].user = w
    BY DEF InStrand
  <2>2. QED
    BY <1>1, <2>1 DEF IInv, OneLambdaPerUser
<1>4. \A i \in Pending(u) : i \in 1..Len(pending_handlers)
  BY DEF Pending
<1>5. QED
  BY <1>2, <1>3, <1>4 DEF AheadOf

\* Taking the head of the strand moves every other request one place up.
LEMMA Shifted ==
  ASSUME TypeOK, OneLambdaPerUser, NEW op, NEW v \in Users, Runs(op, v),
         NEW x \in Users \ {v}, NEW i \in InStrand(x)
  PROVE  i - 1 \in InStrand(x)'
<1>1. /\ Len(strand) \in Nat \ {0}
      /\ Len(strand') = Len(strand) - 1
      /\ \A k \in 1..Len(strand') : k + 1 \in 1..Len(strand) /\ strand'[k] = strand[k + 1]
      /\ strand[1] = [op |-> op, user |-> v]
  BY Ran
<1>2. i \in 1..Len(strand) /\ strand[i] = [op |-> "use", user |-> x]
  BY DEF InStrand
<1>3. strand[1].user = v /\ strand[i].user = x
  BY <1>1, <1>2
<1>4. i # 1
  BY <1>3
<1>5. i - 1 \in 1..Len(strand') /\ (i - 1) + 1 = i
  BY <1>1, <1>2, <1>4
<1>6. strand'[i - 1] = strand[i]
  BY <1>1, <1>5
<1>7. QED
  BY <1>2, <1>5, <1>6 DEF InStrand

\* Order survives the run of somebody else's lambda if the deque keeps it.
LEMMA AheadShifted ==
  ASSUME TypeOK, OneLambdaPerUser, NEW op, NEW v \in Users, Runs(op, v),
         NEW u \in Users \ {v}, NEW w \in Users \ {v}, AheadOf(u, w),
         Pending(u) # {} => Pending(u)' # {},
         (\E i \in Pending(u), j \in Pending(w) : i < j)
           => \E i \in Pending(u)', j \in Pending(w)' : i < j
  PROVE  AheadOf(u, w)'
<1>1. \A x \in {u, w} : \A i \in InStrand(x) : i - 1 \in InStrand(x)'
  BY Shifted
<1>2. InStrand(w) # {} => InStrand(w)' # {}
  BY <1>1
<1>3. (\E i \in InStrand(u), j \in InStrand(w) : i < j)
        => \E i \in InStrand(u)', j \in InStrand(w)' : i < j
  <2> SUFFICES ASSUME NEW i \in InStrand(u), NEW j \in InStrand(w), i < j
               PROVE  \E k \in InStrand(u)', l \in InStrand(w)' : k < l
    OBVIOUS
  <2>1. i \in Nat /\ j \in Nat
    BY DEF InStrand
  <2>2. i - 1 \in InStrand(u)' /\ j - 1 \in InStrand(w)' /\ i - 1 < j - 1
    BY <1>1, <2>1
  <2>3. QED
    BY <2>2
<1>4. QED
  BY <1>2, <1>3 DEF AheadOf

\* Appending to the strand, or leaving it alone, keeps who is ahead.
LEMMA AheadGrown ==
  ASSUME NEW u \in Users, NEW w \in Users, AheadOf(u, w),
         \A x \in {u, w} : InStrand(x) \subseteq InStrand(x)' /\ Pending(x) \subseteq Pending(x)'
  PROVE  AheadOf(u, w)'
BY DEF AheadOf

\* A request that moves to the back of the deque keeps its place.
LEMMA AheadEnqueued ==
  ASSUME IInv, NEW v \in Users, Enqueue(v),
         NEW u \in Users, NEW w \in Users, AheadOf(u, w)
  PROVE  AheadOf(u, w)'
<1> USE DEF IInv
<1>0. TypeOK /\ OneLambdaPerUser /\ Runs("use", v)
  BY DEF Enqueue
<1>1. /\ Len(pending_handlers) \in Nat
      /\ Len(pending_handlers') = Len(pending_handlers) + 1
      /\ \A i \in 1..Len(pending_handlers) : pending_handlers'[i] = pending_handlers[i]
      /\ pending_handlers'[Len(pending_handlers) + 1] = v
  BY AppendFacts DEF TypeOK, Enqueue
<1>2. \A x \in Users : Pending(x) \subseteq Pending(x)'
  BY <1>1 DEF Pending
<1>3. Len(pending_handlers) + 1 \in Pending(v)'
  BY <1>1 DEF Pending
<1>4. \A i \in Pending(u) : i < Len(pending_handlers) + 1
  BY <1>1 DEF Pending
<1>5. Pending(v) = {}
  <2>1. \A j \in 1..Len(pending_handlers) : pending_handlers[j] \in Users \ {v}
    BY <1>0, RanLast
  <2>2. QED
    BY <2>1 DEF Pending
<1>6. InStrand(v) \subseteq {1}
  <2> SUFFICES ASSUME NEW i \in InStrand(v) PROVE i = 1
    OBVIOUS
  <2>1. i \in 1..Len(strand) /\ strand[i].user = v
    BY DEF InStrand
  <2>2. Len(strand) \in Nat \ {0} /\ strand[1] = [op |-> "use", user |-> v]
    BY <1>0, Ran
  <2>3. 1 \in 1..Len(strand) /\ strand[1].user = v
    BY <2>2
  <2>4. QED
    BY <2>1, <2>3 DEF OneLambdaPerUser
<1>7. \A x \in Users : \A i \in InStrand(x) : i \in Nat /\ i >= 1
  BY DEF InStrand
<1>8. CASE u = v
  <2>1. PICK i \in InStrand(u), j \in InStrand(w) : i < j
    BY <1>5, <1>8 DEF AheadOf
  <2>2. w # v
    BY <1>6, <1>7, <1>8, <2>1
  <2>3. j - 1 \in InStrand(w)'
    BY <1>0, <2>2, Shifted
  <2>4. QED
    BY <1>3, <1>8, <2>3 DEF AheadOf
<1>9. CASE u # v /\ w = v
  <2>1. Pending(u) # {}
    BY <1>5, <1>6, <1>7, <1>9 DEF AheadOf
  <2>2. QED
    BY <1>2, <1>3, <1>4, <1>9, <2>1 DEF AheadOf
<1>10. CASE u # v /\ w # v
  <2> HIDE DEF IInv
  <2>1. QED
    BY <1>0, <1>2, <1>10, AheadShifted
<1>11. QED
  BY <1>8, <1>9, <1>10

\* A hand-over takes the front of the deque and shifts the rest.
LEMMA AheadHandedOver ==
  ASSUME IInv, NEW v \in Users, HandOver(v),
         NEW u \in Users, NEW w \in Users, AheadOf(u, w),
         u \in Requested', w \in Requested'
  PROVE  AheadOf(u, w)'
<1>0. TypeOK /\ OneLambdaPerUser /\ Runs("release", v)
  BY DEF HandOver, IInv
<1>1. /\ Len(pending_handlers) \in Nat \ {0}
      /\ Len(pending_handlers') = Len(pending_handlers) - 1
      /\ \A i \in 1..Len(pending_handlers') :
           i + 1 \in 1..Len(pending_handlers) /\ pending_handlers'[i] = pending_handlers[i + 1]
      /\ Head(pending_handlers) = pending_handlers[1]
      /\ pending_handlers[1] \in Users
  BY <1>0, TailFacts DEF TypeOK, HandOver
<1>2. u # v /\ w # v /\ u # pending_handlers[1] /\ w # pending_handlers[1]
  BY <1>0, <1>1 DEF HandOver, Requested, TypeOK
<1>3. ASSUME NEW x \in {u, w}, NEW i \in Pending(x) PROVE i - 1 \in Pending(x)' /\ i \in Nat
  <2>1. i \in 1..Len(pending_handlers) /\ i # 1
    BY <1>2 DEF Pending
  <2>2. i - 1 \in 1..Len(pending_handlers') /\ (i - 1) + 1 = i
    BY <1>1, <2>1
  <2>3. pending_handlers'[i - 1] = pending_handlers[i]
    BY <1>1, <2>2
  <2>4. QED
    BY <2>1, <2>2, <2>3 DEF Pending
<1>4. Pending(u) # {} => Pending(u)' # {}
  BY <1>3
<1>5. (\E i \in Pending(u), j \in Pending(w) : i < j)
        => \E i \in Pending(u)', j \in Pending(w)' : i < j
  <2> SUFFICES ASSUME NEW i \in Pending(u), NEW j \in Pending(w), i < j
               PROVE  \E k \in Pending(u)', l \in Pending(w)' : k < l
    OBVIOUS
  <2>1. i - 1 \in Pending(u)' /\ j - 1 \in Pending(w)' /\ i - 1 < j - 1
    BY <1>3
  <2>2. QED
    BY <2>1
<1>6. QED
  BY <1>0, <1>2, <1>4, <1>5, AheadShifted

\* Who is ahead stays ahead while both wait.
LEMMA AheadStays ==
  ASSUME IInv, Next, NEW u \in Users, NEW w \in Users, AheadOf(u, w),
         u \in Requested', w \in Requested'
  PROVE  AheadOf(u, w)'
<1>1. ASSUME NEW v \in Users, UseBurner(v) \/ ReleaseBurner(v) PROVE AheadOf(u, w)'
  <2>1. PICK e \in Lambdas : strand' = Append(strand, e) /\ pending_handlers' = pending_handlers
    BY <1>1 DEF UseBurner, ReleaseBurner, Lambdas
  <2>2. /\ Len(strand) \in Nat
        /\ Len(strand') = Len(strand) + 1
        /\ \A i \in 1..Len(strand) : strand'[i] = strand[i]
    BY <2>1, Dispatched DEF IInv
  <2>3. \A x \in Users : InStrand(x) \subseteq InStrand(x)' /\ Pending(x) \subseteq Pending(x)'
    BY <2>1, <2>2 DEF InStrand, Pending
  <2>4. QED
    BY <2>3, AheadGrown
<1>2. ASSUME UNCHANGED <<strand, pending_handlers>> PROVE AheadOf(u, w)'
  <2>1. \A x \in Users : InStrand(x)' = InStrand(x) /\ Pending(x)' = Pending(x)
    BY <1>2 DEF InStrand, Pending
  <2>2. QED
    BY <2>1, AheadGrown
<1>3. ASSUME NEW v \in Users, RunHandler(v) PROVE AheadOf(u, w)'
  BY <1>2, <1>3 DEF RunHandler
<1>4. CASE DropOwner
  BY <1>2, <1>4 DEF DropOwner
<1>5. ASSUME NEW v \in Users, Occupy(v) \/ FreeBurner(v) PROVE AheadOf(u, w)'
  <2>1. PICK op : Runs(op, v)
    BY <1>5 DEF Occupy, FreeBurner
  <2>2. pending_handlers' = pending_handlers
    BY <1>5 DEF Occupy, FreeBurner
  <2>3. use'[v] # "requested"
    BY <1>5 DEF Occupy, FreeBurner, Become, IInv, TypeOK
  <2>4. u # v /\ w # v
    BY <2>3 DEF Requested
  <2>5. Pending(u)' = Pending(u) /\ Pending(w)' = Pending(w)
    BY <2>2 DEF Pending
  <2>6. TypeOK /\ OneLambdaPerUser
    BY DEF IInv
  <2>7. QED
    BY <2>1, <2>4, <2>5, <2>6, AheadShifted
<1>6. ASSUME NEW v \in Users, Enqueue(v) PROVE AheadOf(u, w)'
  BY <1>6, AheadEnqueued
<1>7. ASSUME NEW v \in Users, HandOver(v) PROVE AheadOf(u, w)'
  BY <1>7, AheadHandedOver
<1>8. QED
  BY <1>1, <1>3, <1>4, <1>5, <1>6, <1>7 DEF Next, StrandStep

\* Nobody is ahead of a request that gets its burner.
LEMMA GrantedFirst ==
  ASSUME IInv, Next, NEW u \in Users, NEW w \in Users, w \in Requested, w \notin Requested'
  PROVE  ~AheadOf(u, w)
<1> SUFFICES ASSUME AheadOf(u, w) PROVE FALSE
  OBVIOUS
<1>1. use[w] = "requested" /\ use'[w] # "requested"
  BY DEF Requested
<1>2. ASSUME NEW v \in Users, Occupy(v) PROVE FALSE
  <2>1. v = w
    BY <1>1, <1>2 DEF Occupy, Become, IInv, TypeOK
  <2>2. QED
    BY <1>2, <2>1, OccupyInTurn
<1>3. ASSUME NEW v \in Users, HandOver(v) PROVE FALSE
  <2>1. use[v] = "releasing"
    BY <1>3, RanLast DEF HandOver, IInv
  <2>2. w = Head(pending_handlers)
    BY <1>1, <1>3, <2>1 DEF HandOver, IInv, TypeOK
  <2>3. QED
    BY <1>3, <2>2, HandOverInTurn
<1>4. ASSUME NEW v \in Users, FreeBurner(v) PROVE FALSE
  <2>1. use[v] = "releasing"
    BY <1>4, RanLast DEF FreeBurner, IInv
  <2>2. QED
    BY <1>1, <1>4, <2>1 DEF FreeBurner, Become, IInv, TypeOK
<1>5. ASSUME NEW v \in Users, UseBurner(v) \/ RunHandler(v) \/ ReleaseBurner(v)
      PROVE  FALSE
  BY <1>1, <1>5 DEF UseBurner, RunHandler, ReleaseBurner, Become, IInv, TypeOK
<1>6. ASSUME NEW v \in Users, Enqueue(v) PROVE FALSE
  BY <1>1, <1>6 DEF Enqueue
<1>7. CASE DropOwner
  BY <1>1, <1>7 DEF DropOwner
<1>8. QED
  BY <1>2, <1>3, <1>4, <1>5, <1>6, <1>7 DEF Next, StrandStep

\* No two requests are ahead of each other.
LEMMA AheadStrict ==
  ASSUME IInv, NEW u \in Users, NEW w \in Users, AheadOf(u, w)
  PROVE  ~AheadOf(w, u)
<1>1. ASSUME NEW v \in Users, NEW i \in InStrand(v), NEW j \in InStrand(v)
      PROVE  i = j
  BY DEF InStrand, IInv, OneLambdaPerUser
<1>2. ASSUME NEW v \in Users, NEW i \in Pending(v), NEW j \in Pending(v)
      PROVE  i = j
  BY DEF Pending, IInv, OneLambdaPerUser
<1>3. ASSUME NEW v \in Users, NEW i \in InStrand(v), NEW j \in Pending(v)
      PROVE  FALSE
  BY DEF InStrand, Pending, IInv, OneLambdaPerUser
<1>4. \A v \in Users : InStrand(v) \subseteq Int /\ Pending(v) \subseteq Int
  BY DEF InStrand, Pending
<1>5. QED
  BY <1>1, <1>2, <1>3, <1>4 DEF AheadOf

\* Whoever asks is behind all that wait already.
LEMMA AskedLast ==
  ASSUME IInv, NEW w \in Users, UseBurner(w)
  PROVE  /\ Requested' = Requested \cup {w}
         /\ \A u \in Requested : AheadOf(u, w)'
<1> DEFINE e == [op |-> "use", user |-> w]
<1>1. /\ use \in [Users -> Phases] /\ strand' = Append(strand, e) /\ e \in Lambdas
      /\ use' = [use EXCEPT ![w] = "requested"] /\ pending_handlers' = pending_handlers
  BY DEF UseBurner, Become, IInv, TypeOK, Lambdas
<1>2. Requested' = Requested \cup {w}
  BY <1>1 DEF Requested
<1>3. /\ Len(strand) \in Nat /\ Len(strand') = Len(strand) + 1
      /\ strand'[Len(strand) + 1] = e
      /\ \A i \in 1..Len(strand) : strand'[i] = strand[i]
  BY <1>1, Dispatched DEF IInv
<1>4. Len(strand) + 1 \in InStrand(w)'
  BY <1>3 DEF InStrand
<1>5. ASSUME NEW u \in Requested PROVE AheadOf(u, w)'
  <2>1. u \in Users /\ (InStrand(u) # {} \/ Pending(u) # {})
    BY DEF Requested, IInv, NoLostRequest
  <2>2. CASE Pending(u) # {}
    <3>1. Pending(u)' # {}
      BY <1>1, <2>2 DEF Pending
    <3>2. QED
      BY <1>4, <3>1 DEF AheadOf
  <2>3. CASE InStrand(u) # {}
    <3>1. PICK i \in InStrand(u) : TRUE
      BY <2>3
    <3>2. i \in InStrand(u)' /\ i < Len(strand) + 1
      BY <1>3, <3>1 DEF InStrand
    <3>3. QED
      BY <1>4, <3>2 DEF AheadOf
  <2>4. QED
    BY <2>1, <2>2, <2>3
<1>6. QED
  BY <1>2, <1>5

(***************************************************************************)
(* Burners are granted in dispatch order: a request leaves only from the   *)
(* head of the strand with the deque empty (UseBurner finds a free burner) *)
(* or from the front of the deque (ReleaseBurner hands one over), and      *)
(* until then nothing changes its place among the others.                  *)
(***************************************************************************)
THEOREM GrantsInOrder == Spec => NoOvertaking
<1>1. ASSUME IInv, Next, NEW u \in Users, NEW w \in Users, AheadOf(u, w)
      PROVE  u \notin Requested' \/ (w \in Requested' /\ AheadOf(u, w)')
  BY <1>1, GrantedFirst, AheadStays, StandingRequested
<1>2. IInv /\ [Next]_vars =>
        [\A u, w \in Users : AheadOf(u, w) =>
           u \notin Requested' \/ (w \in Requested' /\ AheadOf(u, w)')]_vars
  BY <1>1
<1>3. QED
  BY <1>2, Invariant, PTL DEF Spec, NoOvertaking

-----------------------------------------------------------------------------
(***************************************************************************)
(* Refinement: strand, deque and phases implement the abstract pool.       *)
(***************************************************************************)
LEMMA InitPool == Init => Pool!PoolInit
BY DEF Init, Pool!PoolInit, Requested, Holders

\* A burner counted free is a burner nobody holds.
LEMMA NextPool ==
  ASSUME IInv, [Next]_vars
  PROVE  [Pool!PoolNext]_(Pool!poolVars)
<1> USE DEF Holders, Requested
<1>0. use \in [Users -> Phases]
  BY DEF IInv, TypeOK
<1>1. ASSUME NEW u \in Users, UseBurner(u) PROVE Pool!Request(u)
  BY <1>0, <1>1 DEF UseBurner, Become, Pool!Request
<1>2. ASSUME NEW u \in Users, RunHandler(u) \/ ReleaseBurner(u)
      PROVE  UNCHANGED Pool!poolVars
  BY <1>0, <1>2 DEF RunHandler, ReleaseBurner, Become, Pool!poolVars
<1>3. ASSUME NEW u \in Users, Occupy(u) PROVE Pool!Acquire(u)
  <2>1. use[u] = "requested"
    BY <1>3, RanLast DEF Occupy, IInv
  <2>2. Cardinality(Holders) < NumBurners
    BY <1>3 DEF Occupy, IInv, BurnersAccounted
  <2>3. Requested' = Requested \ {u} /\ Holders' = Holders \cup {u} /\ u \in Requested
    BY <1>0, <1>3, <2>1 DEF Occupy, Become
  <2> HIDE DEF Holders, Requested
  <2>4. Pool!Cardinality(Holders) = Cardinality(Holders)
    BY DEF Pool!Cardinality, Cardinality
  <2>5. QED
    BY <2>2, <2>3, <2>4 DEF Pool!Acquire
<1>4. ASSUME NEW u \in Users, HandOver(u) PROVE \E w \in Users : Pool!PassOn(u, w)
  <2> DEFINE w == Head(pending_handlers)
  <2>1. use[u] = "releasing"
    BY <1>4, RanLast DEF HandOver, IInv
  <2>2. w \in Users /\ use[w] = "requested"
    <3>1. w = pending_handlers[1] /\ 1 \in 1..Len(pending_handlers) /\ w \in Users
      BY <1>4, TailFacts DEF HandOver, IInv, TypeOK
    <3>2. QED
      BY <3>1 DEF IInv, OneLambdaPerUser
  <2>3. use' = [use EXCEPT ![u] = "done", ![w] = "posted"]
    BY <1>4 DEF HandOver
  <2> HIDE DEF w
  <2>4. Pool!PassOn(u, w)
    BY <1>0, <2>1, <2>2, <2>3 DEF Pool!PassOn
  <2> HIDE DEF Holders, Requested
  <2>5. w \in Users
    BY <2>2
  <2>6. QED
    BY <2>4, <2>5
<1>5. ASSUME NEW u \in Users, FreeBurner(u) PROVE Pool!Return(u)
  <2>1. use[u] = "releasing"
    BY <1>5, RanLast DEF FreeBurner, IInv
  <2>2. QED
    BY <1>0, <1>5, <2>1 DEF FreeBurner, Become, Pool!Return
<1>6. ASSUME NEW u \in Users, Enqueue(u) PROVE UNCHANGED Pool!poolVars
  BY <1>6 DEF Enqueue, Pool!poolVars
<1>7. CASE DropOwner \/ UNCHANGED vars
  BY <1>7 DEF DropOwner, vars, Pool!poolVars
<1>8. QED
  BY <1>1, <1>2, <1>3, <1>4, <1>5, <1>6, <1>7 DEF Next, StrandStep, Pool!PoolNext

(***************************************************************************)
(* The cooker implements the pool: however its lambdas and handlers        *)
(* interleave, at most NumBurners ingredients hold a burner, each of them  *)
(* asked for it, and each gives it back once.                              *)
(***************************************************************************)
THEOREM Implements == Spec => ImplementsPool
<1>1. IInv /\ [Next]_vars => [Pool!PoolNext]_(Pool!poolVars)
  BY NextPool
<1>2. QED
  BY <1>1, InitPool, Invariant, PTL DEF Spec, ImplementsPool, Pool!PoolSpec

=============================================================================
