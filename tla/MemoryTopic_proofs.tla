------------------------- MODULE MemoryTopic_proofs -------------------------
(***************************************************************************)
(* What holds of MemoryTopic for any groups, senders, records and bounds:  *)
(* it is correctly typed, releases nothing that is held, stays bounded,    *)
(* delivers at least once, makes observers lose to its bound only,         *)
(* implements the promise of Pipe, and leaves nobody asleep on what is     *)
(* there for him.  What the promise itself gives, at least once, is proved *)
(* between the last two.                                                   *)
(***************************************************************************)
EXTENDS MemoryTopic, SequenceTheorems, FiniteSetTheorems, WellFoundedInduction, TLAPS

-----------------------------------------------------------------------------
(* Sums over a finite set, for the records that senders hold together.     *)

SumOf(w, S) == MapThenSumSet(LAMBDA x : w[x], S)

(* f adds the weights w over any part of S: as the sum is computed, an     *)
(* element that CHOOSE picks at a time, ...                                *)
One(s) == CHOOSE x \in s : TRUE
Adds(f, w, S) ==
    f = [s \in SUBSET S |-> IF s = {} THEN 0 ELSE w[One(s)] + f[s \ {One(s)}]]

(* ... and as a sum is used, any element first. *)
IsSum(f, w, S) ==
    /\ f \in [SUBSET S -> Nat]
    /\ f[{}] = 0
    /\ \A s \in SUBSET S : \A x \in s : f[s] = w[x] + f[s \ {x}]

(* Numbers have a least one among them. *)
LEMMA LeastOf ==
    ASSUME NEW S \in SUBSET Nat, S # {}
    PROVE  \E x \in S : \A y \in S : x <= y
<1>1. PICK x \in S : \A y \in S : ~(<<y, x>> \in OpToRel(<, Nat))
  BY NatLessThanWellFounded, WFMin
<1>2. \A y \in S : ~(y < x)
  BY <1>1 DEF OpToRel
<1> QED BY <1>2

(* The sum is what a function that adds so says of the whole set. *)
LEMMA SumIsChosen ==
    ASSUME NEW S, NEW w
    PROVE  SumOf(w, S) = (CHOOSE f : Adds(f, w, S))[S]
BY DEF SumOf, MapThenSumSet, MapThenFoldSet, Adds, One

(* There is one, for a finite set: if it adds parts of up to n elements, it *)
(* can be made to add parts of n + 1.                                      *)
LEMMA SumIsDefined ==
    ASSUME NEW S, IsFiniteSet(S), NEW w
    PROVE  \E f : Adds(f, w, S)
<1> DEFINE Value(f, s) == IF s = {} THEN 0 ELSE w[One(s)] + f[s \ {One(s)}]
           UpTo(n) == {s \in SUBSET S : Cardinality(s) <= n}
           Good(n) == \E f : \A s \in UpTo(n) : f[s] = Value(f, s)
           Bad == {n \in Nat : ~Good(n)}
<1>0. \A s \in SUBSET S : /\ IsFiniteSet(s) /\ Cardinality(s) \in Nat
                          /\ Cardinality(s) <= Cardinality(S)
                          /\ s # {} => One(s) \in s /\ Cardinality(s \ {One(s)}) = Cardinality(s) - 1
  BY FS_Subset, FS_CardinalityType, FS_RemoveElement DEF One
<1>1. Good(0)
  <2>1. \A s \in UpTo(0) : s = {}
    <3> SUFFICES ASSUME NEW s \in SUBSET S, Cardinality(s) <= 0 PROVE s = {}
      OBVIOUS
    <3>1. IsFiniteSet(s) /\ Cardinality(s) \in Nat
      BY <1>0
    <3>2. Cardinality(s) = 0
      BY <3>1
    <3> QED BY <3>1, <3>2, FS_EmptySet
  <2>2. \A s \in UpTo(0) : [t \in {{}} |-> 0][s] = 0
    BY <2>1
  <2> QED BY <2>1, <2>2
<1>2. ASSUME NEW n \in Nat, Good(n) PROVE Good(n + 1)
  <2>1. PICK f : \A s \in UpTo(n) : f[s] = Value(f, s)
    BY <1>2
  <2> DEFINE g == [s \in SUBSET S |-> IF Cardinality(s) <= n THEN f[s] ELSE Value(f, s)]
  <2>2. \A s \in SUBSET S : g[s] = Value(f, s) \/ s \in UpTo(n)
    OBVIOUS
  <2>3. \A s \in SUBSET S : g[s] = Value(f, s)
    BY <2>1, <2>2
  <2>4. \A s \in UpTo(n + 1) : s # {} => s \ {One(s)} \in UpTo(n)
    BY <1>0
  <2>5. \A s \in UpTo(n) : g[s] = f[s]
    OBVIOUS
  <2>6. \A s \in UpTo(n + 1) : Value(g, s) = Value(f, s)
    BY <2>4, <2>5
  <2>7. \A s \in UpTo(n + 1) : g[s] = Value(g, s)
    BY <2>3, <2>6
  <2> HIDE DEF g, UpTo, Value
  <2> QED BY <2>7
<1> HIDE DEF Good
<1>3. Bad = {}
  <2> SUFFICES ASSUME Bad # {} PROVE FALSE
    OBVIOUS
  <2>1. PICK m \in Bad : \A k \in Bad : m <= k
    BY LeastOf
  <2>2. m # 0 /\ m \in Nat
    BY <1>1
  <2>3. m - 1 \in Nat /\ m - 1 \notin Bad
    BY <2>1, <2>2
  <2>4. Good(m - 1)
    BY <2>3
  <2>5. Good((m - 1) + 1)
    BY <1>2, <2>3, <2>4
  <2> QED BY <2>2, <2>5
<1>4. PICK f : \A s \in UpTo(Cardinality(S)) : f[s] = Value(f, s)
  <2>1. Cardinality(S) \in Nat /\ Cardinality(S) \notin Bad
    BY <1>3, FS_CardinalityType
  <2>2. Good(Cardinality(S))
    BY <2>1
  <2> QED BY <2>2 DEF Good
<1>5. \A s \in SUBSET S : f[s] = Value(f, s)
  BY <1>0, <1>4
<1> DEFINE g == [s \in SUBSET S |-> f[s]]
<1>6. \A s \in SUBSET S : g[s] = Value(g, s)
  <2>1. \A s \in SUBSET S : g[s] = f[s] /\ (s # {} => g[s \ {One(s)}] = f[s \ {One(s)}])
    BY <1>0
  <2> QED BY <1>5, <2>1
<1>7. g = [s \in SUBSET S |-> Value(g, s)]
  BY <1>6
<1> QED BY <1>7 DEF Adds

(* It does not matter which element is taken first.  In a smallest part for *)
(* which it did, two are taken in either order.                            *)
LEMMA SumUnfolds ==
    ASSUME NEW S, IsFiniteSet(S), NEW w \in [S -> Nat], NEW f, Adds(f, w, S)
    PROVE  IsSum(f, w, S)
<1>0. \A s \in SUBSET S : /\ IsFiniteSet(s) /\ Cardinality(s) \in Nat
                          /\ s # {} => One(s) \in s
                          /\ \A x \in s : Cardinality(s \ {x}) = Cardinality(s) - 1
  BY FS_Subset, FS_CardinalityType, FS_RemoveElement DEF One
<1>1. \A s \in SUBSET S : f[s] = IF s = {} THEN 0 ELSE w[One(s)] + f[s \ {One(s)}]
  BY DEF Adds
<1>2. f[{}] = 0
  BY <1>1
<1> DEFINE Good(s) == f[s] \in Nat /\ \A x \in s : f[s] = w[x] + f[s \ {x}]
           Bad == {n \in Nat : \E s \in SUBSET S : Cardinality(s) = n /\ ~Good(s)}
<1>3. Bad = {}
  <2> SUFFICES ASSUME Bad # {} PROVE FALSE
    OBVIOUS
  <2> HIDE DEF Good
  <2>1. PICK n \in Bad : \A k \in Bad : n <= k
    BY LeastOf
  <2>2. PICK s \in SUBSET S : Cardinality(s) = n /\ ~Good(s)
    BY <2>1
  <2>3. \A t \in SUBSET S : Cardinality(t) < n => Good(t)
    BY <1>0, <2>1
  <2>4. s # {}
    BY <1>2, <2>2 DEF Good
  <2>5. \A x \in s : s \ {x} \in SUBSET S /\ Good(s \ {x}) /\ w[x] \in Nat
    BY <1>0, <2>2, <2>3
  <2>6. One(s) \in s /\ f[s] = w[One(s)] + f[s \ {One(s)}]
    BY <1>0, <1>1, <2>4
  <2>7. f[s] \in Nat
    <3>1. f[s \ {One(s)}] \in Nat /\ w[One(s)] \in Nat
      BY <2>5, <2>6 DEF Good
    <3> QED BY <2>6, <3>1
  <2>8. ASSUME NEW x \in s PROVE f[s] = w[x] + f[s \ {x}]
    <3> DEFINE y == One(s)
    <3>1. CASE x = y
      BY <2>6, <3>1
    <3>2. CASE x # y
      <4>1. y \in s \ {x} /\ x \in s \ {y} /\ (s \ {x}) \ {y} = (s \ {y}) \ {x}
        BY <2>6, <3>2
      <4>2. f[s \ {x}] = w[y] + f[(s \ {x}) \ {y}]
        BY <2>5, <4>1 DEF Good
      <4>3. f[s \ {y}] = w[x] + f[(s \ {y}) \ {x}]
        BY <2>5, <2>6, <4>1 DEF Good
      <4>4. Good((s \ {x}) \ {y})
        <5>1. Cardinality((s \ {x}) \ {y}) < n /\ (s \ {x}) \ {y} \in SUBSET S
          <6>1. Cardinality(s \ {x}) = n - 1 /\ Cardinality((s \ {x}) \ {y}) = Cardinality(s \ {x}) - 1
            BY <1>0, <2>2, <4>1
          <6> QED BY <1>0, <2>2, <6>1
        <5> QED BY <2>3, <5>1
      <4>5. f[(s \ {x}) \ {y}] \in Nat /\ w[x] \in Nat /\ w[y] \in Nat
        BY <2>5, <2>6, <4>1, <4>4 DEF Good
      <4> DEFINE rest == (s \ {x}) \ {y}
      <4>6. f[s \ {x}] = w[y] + f[rest] /\ f[s \ {y}] = w[x] + f[rest] /\ f[s] = w[y] + f[s \ {y}]
        BY <2>6, <4>1, <4>2, <4>3
      <4>7. f[rest] \in Nat /\ w[x] \in Nat /\ w[y] \in Nat
        BY <4>5
      <4> HIDE DEF rest, y
      <4> QED BY <4>6, <4>7
    <3> QED BY <3>1, <3>2
  <2> QED BY <2>2, <2>7, <2>8 DEF Good
<1>4. \A s \in SUBSET S : Good(s)
  BY <1>0, <1>3
<1>5. f = [s \in SUBSET S |-> IF s = {} THEN 0 ELSE w[One(s)] + f[s \ {One(s)}]]
  BY DEF Adds
<1>6. f \in [SUBSET S -> Nat]
  BY <1>4, <1>5
<1> QED BY <1>2, <1>4, <1>6 DEF IsSum

(* A sum over a set changes by what one element changes. *)
LEMMA SumChanges ==
    ASSUME NEW S, IsFiniteSet(S), NEW v \in [S -> Nat], NEW w \in [S -> Nat], NEW x \in S,
           \A y \in S \ {x} : v[y] = w[y]
    PROVE  /\ SumOf(v, S) \in Nat /\ SumOf(w, S) \in Nat
           /\ SumOf(v, S) - v[x] = SumOf(w, S) - w[x]
           /\ v[x] <= SumOf(v, S)
<1>1. PICK f : Adds(f, v, S) /\ SumOf(v, S) = f[S]
  BY SumIsChosen, SumIsDefined
<1>2. PICK g : Adds(g, w, S) /\ SumOf(w, S) = g[S]
  BY SumIsChosen, SumIsDefined
<1>3. IsSum(f, v, S)
  BY <1>1, SumUnfolds
<1>4. IsSum(g, w, S)
  BY <1>2, SumUnfolds
<1> DEFINE Bad == {n \in Nat : \E s \in SUBSET (S \ {x}) : Cardinality(s) = n /\ f[s] # g[s]}
<1>0. \A s \in SUBSET S : /\ IsFiniteSet(s) /\ Cardinality(s) \in Nat
                          /\ \A y \in s : Cardinality(s \ {y}) = Cardinality(s) - 1
  BY FS_Subset, FS_CardinalityType, FS_RemoveElement
<1>5. Bad = {}
  <2> SUFFICES ASSUME Bad # {} PROVE FALSE
    OBVIOUS
  <2>1. PICK n \in Bad : \A k \in Bad : n <= k
    BY LeastOf
  <2>2. PICK s \in SUBSET (S \ {x}) : Cardinality(s) = n /\ f[s] # g[s]
    BY <2>1
  <2>3. s # {}
    BY <1>3, <1>4, <2>2 DEF IsSum
  <2>4. PICK y \in s : TRUE
    BY <2>3
  <2>5. /\ s \ {y} \in SUBSET (S \ {x}) /\ Cardinality(s \ {y}) \in Nat
        /\ Cardinality(s \ {y}) < n
    BY <1>0, <2>2
  <2>6. f[s \ {y}] = g[s \ {y}]
    BY <2>1, <2>5
  <2>7. v[y] = w[y] /\ f[s] = v[y] + f[s \ {y}] /\ g[s] = w[y] + g[s \ {y}]
    BY <1>3, <1>4 DEF IsSum
  <2> QED BY <2>2, <2>6, <2>7
<1>6. S \ {x} \in SUBSET (S \ {x}) /\ Cardinality(S \ {x}) \in Nat
  BY <1>0
<1>7. f[S \ {x}] = g[S \ {x}]
  BY <1>5, <1>6
<1>8. f[S] = v[x] + f[S \ {x}] /\ g[S] = w[x] + g[S \ {x}]
  BY <1>3, <1>4 DEF IsSum
<1>9. f[S \ {x}] \in Nat /\ v[x] \in Nat /\ w[x] \in Nat
  BY <1>3 DEF IsSum
<1> QED BY <1>1, <1>2, <1>7, <1>8, <1>9

(* Nothing adds up to nothing. *)
LEMMA SumOfNothing ==
    ASSUME NEW S, IsFiniteSet(S)
    PROVE  SumOf([x \in S |-> 0], S) = 0
<1> DEFINE v == [x \in S |-> 0]
<1>1. v \in [S -> Nat] /\ \A x \in S : v[x] = 0
  OBVIOUS
<1> HIDE DEF v
<1>2. PICK f : Adds(f, v, S) /\ SumOf(v, S) = f[S]
  BY SumIsChosen, SumIsDefined
<1>3. IsSum(f, v, S)
  BY <1>1, <1>2, SumUnfolds
<1> DEFINE Bad == {n \in Nat : \E s \in SUBSET S : Cardinality(s) = n /\ f[s] # 0}
<1>4. \A s \in SUBSET S : /\ IsFiniteSet(s) /\ Cardinality(s) \in Nat
                          /\ \A y \in s : Cardinality(s \ {y}) = Cardinality(s) - 1
  BY FS_Subset, FS_CardinalityType, FS_RemoveElement
<1>5. Bad = {}
  <2> SUFFICES ASSUME Bad # {} PROVE FALSE
    OBVIOUS
  <2>1. PICK n \in Bad : \A k \in Bad : n <= k
    BY LeastOf
  <2>2. PICK s \in SUBSET S : Cardinality(s) = n /\ f[s] # 0
    BY <2>1
  <2>3. s # {}
    BY <1>3, <2>2 DEF IsSum
  <2>4. PICK y \in s : TRUE
    BY <2>3
  <2>5. s \ {y} \in SUBSET S /\ Cardinality(s \ {y}) \in Nat /\ Cardinality(s \ {y}) < n
    BY <1>4, <2>2
  <2>6. f[s \ {y}] = 0
    BY <2>1, <2>5
  <2>7. f[s] = v[y] + f[s \ {y}] /\ v[y] = 0
    BY <1>1, <1>3 DEF IsSum
  <2> QED BY <2>2, <2>6, <2>7
<1>6. Cardinality(S) \in Nat
  BY <1>4
<1>7. f[S] = 0
  BY <1>5, <1>6
<1> QED BY <1>2, <1>7 DEF v

-----------------------------------------------------------------------------
(* The minimum that floor and release take over positions. *)

(* The least element of a set of offsets is in it, and no other is less. *)
LEMMA MinOfOffsets ==
    ASSUME NEW S \in SUBSET Nat, S # {}
    PROVE  Min(S) \in S /\ \A y \in S : Min(S) <= y
BY LeastOf DEF Min

(* The floor is an offset no holding group is before; without holding      *)
(* groups it is either end of the queue.                                   *)
LEMMA FloorIsBelowHolders ==
    ASSUME NEW mine \in SUBSET Groups, NEW watching, NEW at \in [Groups -> Nat],
           NEW from \in Nat, NEW to \in Nat
    PROVE  /\ Floor(mine, watching, at, from, to) \in Nat
           /\ \A g \in mine \ watching : Floor(mine, watching, at, from, to) <= at[g]
           /\ mine \ watching = {} => Floor(mine, watching, at, from, to) \in {from, to}
<1> DEFINE S == {at[g] : g \in mine \ watching}
<1>1. CASE mine \ watching = {}
  BY <1>1 DEF Floor
<1>2. CASE mine \ watching # {}
  <2>1. S \in SUBSET Nat /\ S # {}
    BY <1>2
  <2>2. Min(S) \in S /\ \A y \in S : Min(S) <= y
    BY <2>1, MinOfOffsets
  <2>3. Floor(mine, watching, at, from, to) = Min(S)
    BY <1>2 DEF Floor
  <2> HIDE DEF S
  <2>4. Min(S) \in Nat
    BY <2>1, <2>2
  <2>5. \A g \in mine \ watching : Min(S) <= at[g]
    BY <2>2 DEF S
  <2> QED BY <1>2, <2>3, <2>4, <2>5
<1> QED BY <1>1, <1>2

(* What the observers have acknowledged is an offset. *)
LEMMA ObservedIsAnOffset ==
    ASSUME NEW mine \in SUBSET Groups, NEW watching, NEW at \in [Groups -> Nat],
           NEW to \in Nat
    PROVE  Observed(mine, watching, at, to) \in Nat
<1> DEFINE S == {at[g] : g \in mine \intersect watching}
<1>1. CASE mine \intersect watching = {}
  BY <1>1 DEF Observed
<1>2. CASE mine \intersect watching # {}
  <2>1. S \in SUBSET Nat /\ S # {}
    BY <1>2
  <2>2. Min(S) \in S
    BY <2>1, MinOfOffsets
  <2> QED BY <1>2, <2>1, <2>2 DEF Observed
<1> QED BY <1>1, <1>2

(* Releasing moves the base forward, within the queue, and past no offset  *)
(* a holding group has not acknowledged.                                   *)
LEMMA ReleasedIsAcknowledged ==
    ASSUME NEW mine \in SUBSET Groups, NEW watching, NEW at \in [Groups -> Nat],
           NEW from \in Nat, NEW to \in Nat, from <= to
    PROVE  LET newBase == Released(mine, watching, at, from, to) IN
           /\ newBase \in Nat /\ from <= newBase
           /\ \A g \in mine \ watching : from <= at[g] => newBase <= at[g]
           /\ (\A g \in mine : at[g] <= to) => newBase <= to
<1> DEFINE floor == Floor(mine, watching, at, from, to)
<1>1. /\ floor \in Nat
      /\ \A g \in mine \ watching : floor <= at[g]
      /\ mine \ watching = {} => floor \in {from, to}
      /\ mine \ watching # {} => \E g \in mine \ watching : floor = at[g]
  <2>1. Floor(mine, watching, at, from, to) \in Nat
    BY FloorIsBelowHolders
  <2>2. \A g \in mine \ watching : Floor(mine, watching, at, from, to) <= at[g]
    BY FloorIsBelowHolders
  <2>3. mine \ watching = {} => Floor(mine, watching, at, from, to) \in {from, to}
    BY FloorIsBelowHolders
  <2>4. ASSUME mine \ watching # {}
        PROVE  \E g \in mine \ watching : Floor(mine, watching, at, from, to) = at[g]
    <3> DEFINE S == {at[g] : g \in mine \ watching}
    <3>1. Floor(mine, watching, at, from, to) = Min(S)
      BY <2>4 DEF Floor
    <3>2. S \in SUBSET Nat /\ S # {}
      BY <2>4
    <3>3. Min(S) \in S
      BY <3>2, MinOfOffsets
    <3> QED BY <3>1, <3>3
  <2> QED BY <2>1, <2>2, <2>3, <2>4
<1> HIDE DEF floor
<1> DEFINE observed == Observed(mine, watching, at, to)
           limit == IF to > Capacity THEN to - Capacity ELSE 0
           newBase == Released(mine, watching, at, from, to)
<1>2. observed \in Nat /\ limit \in Nat
  BY ObservedIsAnOffset, CapacityAssumption
<1>3. newBase = Larger(from, Smaller(floor, Larger(observed, limit)))
  BY DEF Released, floor
<1> HIDE DEF observed, limit, newBase
<1>4. newBase \in Nat /\ from <= newBase /\ newBase <= Larger(from, floor)
  BY <1>1, <1>2, <1>3 DEF Larger, Smaller
<1>5. \A g \in mine \ watching : from <= at[g] => newBase <= at[g]
  BY <1>1, <1>4 DEF Larger
<1>6. (\A g \in mine : at[g] <= to) => floor <= to
  BY <1>1
<1>7. (\A g \in mine : at[g] <= to) => newBase <= to
  BY <1>1, <1>4, <1>6 DEF Larger
<1> QED BY <1>4, <1>5, <1>7 DEF newBase

(* What an observer has not acknowledged is released only down to the      *)
(* capacity.                                                               *)
LEMMA ReleasedSparesObservers ==
    ASSUME NEW mine \in SUBSET Groups, NEW watching, NEW at \in [Groups -> Nat],
           NEW from \in Nat, NEW to \in Nat, NEW g \in mine \intersect watching,
           Released(mine, watching, at, from, to) > from,
           Released(mine, watching, at, from, to) > at[g]
    PROVE  to - Released(mine, watching, at, from, to) >= Capacity
<1> DEFINE floor == Floor(mine, watching, at, from, to)
           observed == Observed(mine, watching, at, to)
           limit == IF to > Capacity THEN to - Capacity ELSE 0
           newBase == Released(mine, watching, at, from, to)
<1>1. floor \in Nat /\ observed \in Nat
  BY FloorIsBelowHolders, ObservedIsAnOffset
<1>2. observed <= at[g] /\ at[g] \in Nat
  <2> DEFINE S == {at[h] : h \in mine \intersect watching}
  <2>1. S \in SUBSET Nat /\ S # {} /\ at[g] \in S
    OBVIOUS
  <2>2. Min(S) <= at[g]
    BY <2>1, MinOfOffsets
  <2> QED BY <2>2 DEF Observed
<1>3. newBase = Larger(from, Smaller(floor, Larger(observed, limit)))
  BY DEF Released
<1>4. newBase > from /\ newBase > at[g]
  OBVIOUS
<1>5. Capacity \in Nat \ {0} /\ limit = IF to > Capacity THEN to - Capacity ELSE 0
  BY CapacityAssumption
<1> HIDE DEF floor, observed, limit, newBase
<1>6. limit \in Nat
  BY <1>5
<1>7. newBase <= limit
  BY <1>1, <1>2, <1>3, <1>4, <1>6 DEF Larger, Smaller
<1>8. to - newBase >= Capacity
  BY <1>1, <1>2, <1>3, <1>4, <1>5, <1>6, <1>7 DEF Larger, Smaller
<1> QED BY <1>8 DEF newBase

(* What is left of the queue is a queue, as long as it says. *)
LEMMA PoppedIsTheRest ==
    ASSUME NEW queue \in Seq(Payloads), NEW from \in Nat, NEW newBase \in Nat,
           from <= newBase
    PROVE  /\ Popped(queue, from, newBase) \in Seq(Payloads)
           /\ newBase <= from + Len(queue) =>
                 Len(Popped(queue, from, newBase)) = from + Len(queue) - newBase
<1>1. \A i \in (newBase - from + 1)..Len(queue) : queue[i] \in Payloads
  OBVIOUS
<1>2. newBase - from + 1 \in Int /\ Len(queue) \in Int
  OBVIOUS
<1> QED BY <1>1, <1>2, SubSeqProperties DEF Popped

(* A batch is a sequence of records, bounded. *)
LEMMA BatchIsASequence ==
    ASSUME NEW batch \in Batches
    PROVE  batch \in Seq(Payloads) /\ Len(batch) \in 1..MaxBatch
<1>1. PICK n \in 1..MaxBatch : batch \in [1..n -> Payloads]
  BY DEF Batches
<1> QED BY <1>1, BoundsAssumption

-----------------------------------------------------------------------------
(* Every variable keeps its type. *)
LEMMA TypeIsInvariant == TypeOK /\ [Next]_vars => TypeOK'
<1> SUFFICES ASSUME TypeOK, [Next]_vars PROVE TypeOK'
  OBVIOUS
<1> USE DEF SenderStates, ReceiverStates
<1>0. End \in Nat
  BY DEF TypeOK, End
<1>1. ASSUME NEW g \in Groups, Receiver(g),
             observers' \in {observers \ {g}, observers \union {g}}
      PROVE  TypeOK'
  BY <1>0, <1>1 DEF TypeOK, Receiver, senders
<1>2. ASSUME NEW g \in Groups, Unsubscribe(g)
      PROVE  TypeOK'
  <2> DEFINE newBase == Released(groups \ {g}, observers \ {g}, position, base, End)
  <2>1. base <= End
    BY DEF TypeOK, End
  <2>2. newBase \in Nat /\ base <= newBase
    BY <1>0, <2>1, ReleasedIsAcknowledged DEF TypeOK
  <2>3. records' \in Seq(Payloads)
    BY <1>2, <2>2, PoppedIsTheRest DEF TypeOK, Unsubscribe
  <2>4. swoken' \in [Senders -> BOOLEAN]
    BY <1>2 DEF TypeOK, Unsubscribe, WakeSenders
  <2> HIDE DEF newBase
  <2> QED BY <1>2, <2>2, <2>3, <2>4 DEF TypeOK, Unsubscribe, receivers, newBase
<1>3. ASSUME NEW s \in Senders, NEW batch \in Batches, Send(s, batch)
      PROVE  TypeOK'
  BY <1>3, BatchIsASequence DEF TypeOK, Send, topic, receivers
<1>4. ASSUME NEW s \in Senders, TakeBatch(s)
      PROVE  TypeOK'
  <2> DEFINE to == End + Len(pending[s])
             newBase == Released(groups, observers, position, base, to)
  <2>1. to \in Nat /\ base <= to
    BY <1>0 DEF TypeOK, End
  <2>2. newBase \in Nat /\ base <= newBase
    BY <2>1, ReleasedIsAcknowledged DEF TypeOK
  <2>3. records \o pending[s] \in Seq(Payloads) /\ log \o pending[s] \in Seq(Payloads)
    BY DEF TypeOK
  <2>4. records' \in Seq(Payloads)
    BY <1>4, <2>2, <2>3, PoppedIsTheRest DEF TypeOK, TakeBatch
  <2> HIDE DEF newBase
  <2> QED BY <1>4, <2>2, <2>3, <2>4 DEF TypeOK, TakeBatch, receivers, newBase
<1>5. ASSUME NEW s \in Senders, AwaitRoom(s) \/ Retry(s) \/ Cancel(s) \/ NotifyArrived(s)
      PROVE  TypeOK'
  <2>1. CASE AwaitRoom(s)
    BY <2>1 DEF TypeOK, AwaitRoom, topic, receivers
  <2>2. CASE Retry(s)
    BY <2>2 DEF TypeOK, Retry, topic, receivers
  <2>3. CASE Cancel(s)
    BY <2>3 DEF TypeOK, Cancel, topic, receivers
  <2>4. CASE NotifyArrived(s)
    BY <2>4 DEF TypeOK, NotifyArrived, WakeReceivers, topic
  <2> QED BY <1>5, <2>1, <2>2, <2>3, <2>4
<1>6. ASSUME NEW g \in Groups,
             Receive(g) \/ ReceiveFails(g) \/ Recheck(g) \/ TimeOut(g) \/ TakeSkipped(g)
      PROVE  TypeOK'
  <2>1. CASE Receive(g)
    BY <2>1 DEF TypeOK, Receive, topic, senders
  <2>2. CASE ReceiveFails(g) \/ TimeOut(g)
    BY <2>2 DEF TypeOK, ReceiveFails, TimeOut, topic, senders
  <2>3. CASE Recheck(g)
    BY <2>3 DEF TypeOK, Recheck, topic, senders
  <2>4. CASE TakeSkipped(g)
    BY <2>4 DEF TypeOK, TakeSkipped, topic, senders
  <2> QED BY <1>6, <2>1, <2>2, <2>3, <2>4
<1>7. ASSUME NEW g \in Groups, NEW max \in Nat, Deliver(g, max) \/ AwaitRecords(g)
      PROVE  TypeOK'
  <2>1. From(g) \in Nat /\ From(g) >= next[g]
    BY DEF TypeOK, From, Larger
  <2>2. skipped' \in [Groups -> Nat]
    BY <1>7, <2>1, SMTT(30) DEF TypeOK, Deliver, AwaitRecords, Skip
  <2>3. Smaller(End, From(g) + max) \in Nat
    BY <1>0, <2>1 DEF Smaller
  <2>4. CASE Deliver(g, max)
    <3>1. next' \in [Groups -> Nat]
      BY <2>3, <2>4 DEF TypeOK, Deliver
    <3>2. seen' \in [Groups -> SUBSET Nat]
      BY <2>1, <2>3, <2>4 DEF TypeOK, Deliver
    <3> QED BY <2>2, <2>4, <3>1, <3>2 DEF TypeOK, Deliver, senders
  <2>5. CASE AwaitRecords(g)
    BY <2>2, <2>5 DEF TypeOK, AwaitRecords, topic, senders
  <2> QED BY <1>7, <2>4, <2>5
<1>8. ASSUME NEW g \in Groups, NEW offset \in Nat, Acknowledge(g, offset)
      PROVE  TypeOK'
  <2> DEFINE at == [position EXCEPT ![g] = Larger(@, offset + 1)]
             newBase == Released(groups, observers, at, base, End)
  <2>1. at \in [Groups -> Nat] /\ base <= End
    BY DEF TypeOK, End, Larger
  <2> HIDE DEF at
  <2>2. newBase \in Nat /\ base <= newBase
    BY <1>0, <2>1, ReleasedIsAcknowledged DEF TypeOK
  <2> HIDE DEF newBase
  <2>3. base' = newBase /\ records' = Popped(records, base, newBase) /\ position' = at
    BY <1>8 DEF Acknowledge, at, newBase
  <2>4. records' \in Seq(Payloads)
    BY <2>2, <2>3, PoppedIsTheRest DEF TypeOK
  <2> QED BY <1>8, <2>1, <2>2, <2>3, <2>4 DEF TypeOK, Acknowledge, senders
<1>9. ASSUME NEW g \in Groups, NotifyReleased(g)
      PROVE  TypeOK'
  BY <1>9 DEF TypeOK, NotifyReleased, WakeSenders, topic
<1>10. CASE UNCHANGED vars
  BY <1>10 DEF TypeOK, vars, topic, senders, receivers
<1> QED
  BY <1>1, <1>2, <1>3, <1>4, <1>5, <1>6, <1>7, <1>8, <1>9, <1>10,
     GroupsAssumption, BoundsAssumption
  DEF Next, Subscribe, Observe, SenderStep, ReceiverStep

(* The queue, its positions and its receivers always have their types. *)
THEOREM TypeCorrect == Spec => []TypeOK
<1>1. Init => TypeOK
  BY DEF Init, TypeOK, SenderStates, ReceiverStates
<1> QED BY <1>1, TypeIsInvariant, PTL DEF Spec

-----------------------------------------------------------------------------
(* The inductive invariant.  What the properties need beyond themselves:   *)
(* only groups that may observe do, positions are offsets of the topic,    *)
(* and what a receiver has got to, and not only what it acknowledged, was  *)
(* delivered.                                                              *)
Positions ==
    /\ observers \subseteq Observers
    /\ \A g \in Groups : position[g] <= End /\ next[g] <= End
    /\ NothingHeldIsReleased

Caught ==
    \A g \in groups \ Observers :
        0..(position[g] - 1) \subseteq seen[g] /\ 0..(next[g] - 1) \subseteq seen[g]

BatchesFit == \A s \in Senders : Len(pending[s]) <= MaxBatch

IInv == TypeOK /\ Positions /\ Caught /\ BatchesFit /\ Bounded

(* Every step joins, leaves, sends, delivers or acknowledges, or is about  *)
(* waiting only and leaves the topic and the receivers' places alone.      *)
LEMMA Steps ==
    ASSUME [Next]_vars
    PROVE  \/ \E g \in Groups : g \in Holders /\ Subscribe(g)
           \/ \E g \in Groups : g \in Observers /\ Observe(g)
           \/ \E g \in Groups : Unsubscribe(g)
           \/ \E s \in Senders : TakeBatch(s)
           \/ \E g \in Groups, max \in Nat : Deliver(g, max)
           \/ \E g \in Groups, offset \in Nat : Acknowledge(g, offset)
           \/ UNCHANGED <<topic, next>>
<1>1. ASSUME NEW s \in Senders, NEW batch \in Batches, Send(s, batch)
      PROVE  UNCHANGED <<topic, next>>
  BY <1>1 DEF Send, receivers
<1>2. ASSUME NEW s \in Senders, AwaitRoom(s) \/ Retry(s) \/ Cancel(s) \/ NotifyArrived(s)
      PROVE  UNCHANGED <<topic, next>>
  BY <1>2 DEF AwaitRoom, Retry, Cancel, NotifyArrived, receivers
<1>3. ASSUME NEW g \in Groups,
             \/ Receive(g) \/ ReceiveFails(g) \/ AwaitRecords(g) \/ Recheck(g)
             \/ TimeOut(g) \/ NotifyReleased(g) \/ TakeSkipped(g)
      PROVE  UNCHANGED <<topic, next>>
  BY <1>3 DEF Receive, ReceiveFails, AwaitRecords, Recheck, TimeOut, NotifyReleased, TakeSkipped
<1>4. CASE UNCHANGED vars
  BY <1>4 DEF vars, receivers
<1> QED
  BY <1>1, <1>2, <1>3, <1>4, GroupsAssumption, BoundsAssumption
  DEF Next, SenderStep, ReceiverStep

(* How the queue changes: what is left of it still ends where it did, or   *)
(* with the batch that was taken.                                          *)
LEMMA QueueSteps ==
    ASSUME TypeOK, Positions
    PROVE  /\ \A g \in Groups : Unsubscribe(g) =>
                 /\ base <= base' /\ End' = End
                 /\ \A h \in groups' \ Observers : base' <= position[h]
           /\ \A s \in Senders : TakeBatch(s) =>
                 /\ base <= base' /\ base' <= End' /\ End' = End + Len(pending[s])
                 /\ \A h \in groups \ Observers : base' <= position[h]
           /\ \A g \in Groups, offset \in Nat : Acknowledge(g, offset) =>
                 /\ base <= base' /\ End' = End
                 /\ \A h \in groups \ Observers : base' <= position'[h]
<1>0. /\ End \in Nat /\ base <= End /\ End = base + Len(records)
      /\ base \in Nat /\ Len(records) \in Nat /\ End' = base' + Len(records')
  BY DEF TypeOK, End
<1>1. ASSUME NEW g \in Groups, Unsubscribe(g)
      PROVE  /\ base <= base' /\ End' = End
             /\ \A h \in groups' \ Observers : base' <= position[h]
  <2> DEFINE newBase == Released(groups \ {g}, observers \ {g}, position, base, End)
  <2>1. /\ newBase \in Nat /\ base <= newBase /\ newBase <= End
        /\ \A h \in (groups \ {g}) \ (observers \ {g}) :
              base <= position[h] => newBase <= position[h]
    BY <1>0, ReleasedIsAcknowledged DEF TypeOK, Positions
  <2>2. base' = newBase /\ records' = Popped(records, base, newBase) /\ groups' = groups \ {g}
    BY <1>1 DEF Unsubscribe
  <2> HIDE DEF newBase
  <2>3. End' = End
    <3>1. Len(records') = base + Len(records) - newBase
      BY <1>0, <2>1, <2>2, PoppedIsTheRest DEF TypeOK
    <3> QED BY <1>0, <2>1, <2>2, <3>1
  <2> QED BY <2>1, <2>2, <2>3 DEF Positions, NothingHeldIsReleased
<1>2. ASSUME NEW s \in Senders, TakeBatch(s)
      PROVE  /\ base <= base' /\ base' <= End' /\ End' = End + Len(pending[s])
             /\ \A h \in groups \ Observers : base' <= position[h]
  <2> DEFINE to == End + Len(pending[s])
             newBase == Released(groups, observers, position, base, to)
  <2>1. to \in Nat /\ base <= to /\ \A h \in Groups : position[h] <= to
    BY <1>0 DEF TypeOK, Positions
  <2>2. /\ newBase \in Nat /\ base <= newBase /\ newBase <= to
        /\ \A h \in groups \ observers : base <= position[h] => newBase <= position[h]
    BY <2>1, ReleasedIsAcknowledged DEF TypeOK
  <2>3. base' = newBase /\ records' = Popped(records \o pending[s], base, newBase)
    BY <1>2 DEF TakeBatch
  <2> HIDE DEF newBase
  <2>4. /\ records \o pending[s] \in Seq(Payloads)
        /\ base + Len(records \o pending[s]) = to
    BY <1>0 DEF TypeOK
  <2>5. End' = to
    <3>1. Len(records') = base + Len(records \o pending[s]) - newBase
      BY <2>2, <2>3, <2>4, PoppedIsTheRest DEF TypeOK
    <3>2. Len(records \o pending[s]) \in Nat
      BY <2>4
    <3> HIDE DEF to
    <3> QED BY <1>0, <2>1, <2>2, <2>3, <2>4, <3>1, <3>2
  <2> QED BY <2>2, <2>3, <2>5 DEF Positions, NothingHeldIsReleased
<1>3. ASSUME NEW g \in Groups, NEW offset \in Nat, Acknowledge(g, offset)
      PROVE  /\ base <= base' /\ End' = End
             /\ \A h \in groups \ Observers : base' <= position'[h]
  <2> DEFINE at == [position EXCEPT ![g] = Larger(@, offset + 1)]
             newBase == Released(groups, observers, at, base, End)
  <2>1. /\ at \in [Groups -> Nat]
        /\ \A h \in Groups : position[h] <= at[h] /\ at[h] <= End
    BY <1>0, <1>3, SMTT(30) DEF TypeOK, Positions, Larger, Acknowledge, Received
  <2> HIDE DEF at
  <2>2. /\ newBase \in Nat /\ base <= newBase /\ newBase <= End
        /\ \A h \in groups \ observers : base <= at[h] => newBase <= at[h]
    BY <1>0, <2>1, ReleasedIsAcknowledged DEF TypeOK
  <2>3. base' = newBase /\ records' = Popped(records, base, newBase) /\ position' = at
    BY <1>3 DEF Acknowledge, at
  <2> HIDE DEF newBase
  <2>4. End' = End
    <3>1. Len(records') = base + Len(records) - newBase
      BY <1>0, <2>2, <2>3, PoppedIsTheRest DEF TypeOK
    <3> QED BY <1>0, <2>2, <2>3, <3>1
  <2>5. \A h \in groups \ Observers : base <= at[h]
    BY <2>1 DEF TypeOK, Positions, NothingHeldIsReleased
  <2> QED BY <2>2, <2>3, <2>4, <2>5 DEF Positions
<1> QED BY <1>1, <1>2, <1>3

(* Positions stay within the topic, and what is held stays in the queue. *)
LEMMA PositionsAreInvariant == TypeOK /\ Positions /\ [Next]_vars => Positions'
<1> SUFFICES ASSUME TypeOK, Positions, [Next]_vars PROVE Positions'
  OBVIOUS
<1>0. End \in Nat /\ base <= End
  BY DEF TypeOK, End
<1>1. ASSUME NEW g \in Groups, Subscribe(g) \/ (g \in Observers /\ Observe(g))
      PROVE  Positions'
  <2>1. /\ Receiver(g) /\ observers' \subseteq Observers
    BY <1>1 DEF Subscribe, Observe, Positions
  <2>2. base' = base /\ End' = End
    BY <2>1 DEF Receiver, End
  <2>3. \A h \in Groups : position'[h] <= End /\ next'[h] <= End
    BY <1>0, <2>1 DEF Receiver, TypeOK, Positions
  <2>4. \A h \in groups' \ Observers : base <= position'[h]
    BY <1>0, <2>1 DEF Receiver, TypeOK, Positions, NothingHeldIsReleased
  <2> QED BY <2>1, <2>2, <2>3, <2>4 DEF Positions, NothingHeldIsReleased
<1>2. ASSUME NEW g \in Groups, Unsubscribe(g)
      PROVE  Positions'
  <2>1. /\ End' = End /\ \A h \in groups' \ Observers : base' <= position[h]
    BY <1>2, QueueSteps
  <2>2. /\ groups' = groups \ {g} /\ observers' = observers \ {g}
        /\ position' = [position EXCEPT ![g] = 0] /\ next' = next
    BY <1>2 DEF Unsubscribe, receivers
  <2> QED BY <1>0, <2>1, <2>2 DEF TypeOK, Positions, NothingHeldIsReleased
<1>3. ASSUME NEW s \in Senders, TakeBatch(s)
      PROVE  Positions'
  <2>1. /\ End' = End + Len(pending[s])
        /\ \A h \in groups \ Observers : base' <= position[h]
    BY <1>3, QueueSteps
  <2>2. UNCHANGED <<groups, position, observers, next>>
    BY <1>3 DEF TakeBatch, receivers
  <2> QED BY <1>0, <2>1, <2>2 DEF TypeOK, Positions, NothingHeldIsReleased
<1>4. ASSUME NEW g \in Groups, NEW max \in Nat, Deliver(g, max)
      PROVE  Positions'
  <2>1. /\ UNCHANGED <<base, records, groups, position, observers>>
        /\ next' = [next EXCEPT ![g] = Smaller(End, From(g) + max)]
    BY <1>4 DEF Deliver
  <2>2. Smaller(End, From(g) + max) <= End
    BY <1>0 DEF TypeOK, Smaller, From, Larger
  <2>3. End' = End
    BY <2>1 DEF End
  <2> QED BY <2>1, <2>2, <2>3 DEF TypeOK, Positions, NothingHeldIsReleased
<1>5. ASSUME NEW g \in Groups, NEW offset \in Nat, Acknowledge(g, offset)
      PROVE  Positions'
  <2>1. /\ End' = End /\ \A h \in groups \ Observers : base' <= position'[h]
    BY <1>5, QueueSteps
  <2>2. /\ UNCHANGED <<groups, observers, next>> /\ offset < next[g]
        /\ position' = [position EXCEPT ![g] = Larger(@, offset + 1)]
    BY <1>5 DEF Acknowledge, Received
  <2> QED BY <1>0, <2>1, <2>2 DEF TypeOK, Positions, NothingHeldIsReleased, Larger
<1>6. CASE UNCHANGED <<topic, next>>
  BY <1>6 DEF topic, Positions, NothingHeldIsReleased, End
<1> QED BY <1>1, <1>2, <1>3, <1>4, <1>5, <1>6, Steps

(* A record a holding group has acknowledged, or is past, was delivered to *)
(* it.  That a receiver which skips to the base misses nothing is because  *)
(* the base is not past what its group acknowledged.                       *)
LEMMA CaughtIsInvariant == TypeOK /\ Positions /\ Caught /\ [Next]_vars => Caught'
<1> SUFFICES ASSUME TypeOK, Positions, Caught, [Next]_vars PROVE Caught'
  OBVIOUS
<1>0. End \in Nat
  BY DEF TypeOK, End
<1>1. ASSUME NEW g \in Groups, Subscribe(g) \/ Observe(g)
      PROVE  Caught'
  <2>1. Receiver(g)
    BY <1>1 DEF Subscribe, Observe
  <2>2. CASE g \in groups
    <3>1. /\ groups' = groups /\ seen' = seen
          /\ position' = [position EXCEPT ![g] = position[g]]
          /\ next' = [next EXCEPT ![g] = position[g]]
      BY <2>1, <2>2 DEF Receiver
    <3> QED BY <3>1 DEF Caught, TypeOK
  <2>3. CASE g \notin groups
    <3>1. /\ groups' = groups \union {g} /\ seen' = [seen EXCEPT ![g] = 0..(End - 1)]
          /\ position' = [position EXCEPT ![g] = End]
          /\ next' = [next EXCEPT ![g] = End]
      BY <2>1, <2>3 DEF Receiver
    <3> QED BY <3>1 DEF Caught, TypeOK
  <2> QED BY <2>2, <2>3
<1>2. ASSUME NEW g \in Groups, Unsubscribe(g)
      PROVE  Caught'
  BY <1>2 DEF Unsubscribe, receivers, Caught, TypeOK
<1>3. ASSUME NEW s \in Senders, TakeBatch(s)
      PROVE  Caught'
  BY <1>3 DEF TakeBatch, receivers, Caught
<1>4. ASSUME NEW g \in Groups, NEW max \in Nat, Deliver(g, max)
      PROVE  Caught'
  <2> DEFINE to == Smaller(End, From(g) + max)
  <2>1. /\ UNCHANGED <<groups, position, observers>>
        /\ next' = [next EXCEPT ![g] = to]
        /\ seen' = [seen EXCEPT ![g] =
                       IF g \in observers THEN @ ELSE @ \union From(g)..(to - 1)]
    BY <1>4 DEF Deliver
  <2>2. From(g) \in Nat /\ to \in Nat
    BY <1>0 DEF TypeOK, From, Larger, Smaller
  <2>3. CASE g \in groups \ Observers
    <3>1. base <= position[g] /\ g \notin observers
      BY <2>3 DEF Positions, NothingHeldIsReleased
    <3>2. 0..(From(g) - 1) \subseteq seen[g]
      BY <2>3, <3>1 DEF Caught, TypeOK, From, Larger
    <3> HIDE DEF to
    <3>3. 0..(to - 1) \subseteq seen[g] \union From(g)..(to - 1)
      BY <2>2, <3>2
    <3>4. seen'[g] = seen[g] \union From(g)..(to - 1) /\ next'[g] = to
      BY <2>1, <3>1 DEF TypeOK
    <3>5. \A h \in groups \ Observers : h # g => seen'[h] = seen[h] /\ next'[h] = next[h]
      BY <2>1 DEF TypeOK
    <3> QED BY <2>1, <3>3, <3>4, <3>5 DEF Caught
  <2>4. CASE g \notin groups \ Observers
    BY <2>1, <2>4 DEF Caught, TypeOK
  <2> QED BY <2>3, <2>4
<1>5. ASSUME NEW g \in Groups, NEW offset \in Nat, Acknowledge(g, offset)
      PROVE  Caught'
  <2>1. /\ UNCHANGED <<groups, seen, next>> /\ offset < next[g]
        /\ position' = [position EXCEPT ![g] = Larger(@, offset + 1)]
    BY <1>5 DEF Acknowledge, Received
  <2> QED BY <2>1, SMTT(30) DEF Caught, TypeOK, Larger
<1>6. CASE UNCHANGED <<topic, next>>
  BY <1>6 DEF topic, Caught
<1> QED BY <1>1, <1>2, <1>3, <1>4, <1>5, <1>6, Steps

(* A sender waits with a batch of at most MaxBatch records. *)
LEMMA BatchesFitIsInvariant == TypeOK /\ BatchesFit /\ [Next]_vars => BatchesFit'
<1> SUFFICES ASSUME TypeOK, BatchesFit, [Next]_vars PROVE BatchesFit'
  OBVIOUS
<1>1. ASSUME NEW s \in Senders, NEW batch \in Batches, Send(s, batch)
      PROVE  BatchesFit'
  <2>1. Len(batch) <= MaxBatch /\ pending' = [pending EXCEPT ![s] = batch]
    BY <1>1, BatchIsASequence DEF Send
  <2> QED BY <2>1 DEF BatchesFit, TypeOK
<1>2. ASSUME NEW s \in Senders, TakeBatch(s) \/ Cancel(s)
      PROVE  BatchesFit'
  <2>1. pending' = [pending EXCEPT ![s] = <<>>]
    BY <1>2 DEF TakeBatch, Cancel
  <2>2. Len(<<>>) <= MaxBatch
    BY BoundsAssumption
  <2> QED BY <2>1, <2>2 DEF BatchesFit, TypeOK
<1>3. CASE UNCHANGED pending
  BY <1>3 DEF BatchesFit
<1>4. \/ \E s \in Senders, batch \in Batches : Send(s, batch)
      \/ \E s \in Senders : TakeBatch(s) \/ Cancel(s)
      \/ UNCHANGED pending
  <2>1. ASSUME NEW s \in Senders, AwaitRoom(s) \/ Retry(s) \/ NotifyArrived(s)
        PROVE  UNCHANGED pending
    BY <2>1 DEF AwaitRoom, Retry, NotifyArrived
  <2>2. ASSUME NEW g \in Groups, NEW n,
               \/ Subscribe(g) \/ Observe(g) \/ Unsubscribe(g) \/ Acknowledge(g, n)
        PROVE  UNCHANGED pending
    BY <2>2 DEF Subscribe, Observe, Receiver, Unsubscribe, Acknowledge, senders
  <2>3. ASSUME NEW g \in Groups, NEW n,
               \/ Receive(g) \/ ReceiverStep(g) \/ TakeSkipped(g)
        PROVE  UNCHANGED pending
    BY <2>3 DEF Receive, ReceiverStep, TakeSkipped, ReceiveFails, AwaitRecords, Recheck,
                TimeOut, NotifyReleased, Deliver, senders
  <2>4. CASE UNCHANGED vars
    BY <2>4 DEF vars, senders
  <2> QED BY <2>1, <2>2, <2>3, <2>4, GroupsAssumption DEF Next, SenderStep
<1> QED BY <1>1, <1>2, <1>3, <1>4

(* Appending makes the topic hold more than the capacity only with a batch *)
(* taken while nothing was held: what is released makes room up to the     *)
(* floor, and short of the floor down to the capacity.                     *)
LEMMA TakeBatchIsBounded ==
    ASSUME TypeOK, Positions, NEW s \in Senders, TakeBatch(s)
    PROVE  End' - base' <= Capacity \/ End' - base' <= Len(pending[s])
<1> DEFINE n == Len(pending[s])
           to == End + n
           before == Floor(groups, observers, position, base, End)
           after == Floor(groups, observers, position, base, to)
           observed == Observed(groups, observers, position, to)
           limit == IF to > Capacity THEN to - Capacity ELSE 0
           held == End - Larger(before, base)
<1>1. base \in Nat /\ End \in Nat /\ n \in Nat /\ Capacity \in Nat /\ to = End + n
  BY CapacityAssumption DEF TypeOK, End
<1>2. groups \in SUBSET Groups /\ position \in [Groups -> Nat] /\ to \in Nat
  BY <1>1 DEF TypeOK
<1>3. before \in Nat /\ after \in Nat
  <2>1. ASSUME NEW t \in Nat
        PROVE  Floor(groups, observers, position, base, t) \in Nat
    BY <1>1, <1>2, FloorIsBelowHolders
  <2> QED BY <1>1, <1>2, <2>1
<1>4. observed \in Nat
  BY <1>2, ObservedIsAnOffset
<1>5. after = before \/ after = to
  BY DEF Floor
<1>6. base' = Larger(base, Smaller(after, Larger(observed, limit)))
  BY DEF TakeBatch, Released
<1>7. held = 0 \/ held + n <= Capacity
  BY DEF TakeBatch, Fits, Held
<1>8. End' = to /\ base' <= to
  BY QueueSteps
<1>9. limit \in Nat /\ to - limit <= Capacity
  BY <1>1
<1> HIDE DEF n, to, before, after, observed, limit, held
<1>10. base' \in Nat /\ to \in Nat
  BY <1>1, <1>2, <1>3, <1>4, <1>6, <1>9 DEF Larger, Smaller
<1>11. CASE base' >= Larger(before, base)
  BY <1>1, <1>3, <1>7, <1>8, <1>10, <1>11 DEF Larger, n, held
<1>12. CASE base' >= limit
  BY <1>1, <1>8, <1>9, <1>10, <1>12 DEF n
<1>13. CASE base' >= to
  BY <1>1, <1>8, <1>10, <1>13 DEF n
<1> QED
  BY <1>1, <1>3, <1>4, <1>5, <1>6, <1>9, <1>10, <1>11, <1>12, <1>13 DEF Larger, Smaller

(* The queue never grows past the larger of the capacity and a batch. *)
LEMMA BoundedIsInvariant ==
    TypeOK /\ Positions /\ BatchesFit /\ Bounded /\ [Next]_vars => Bounded'
<1> SUFFICES ASSUME TypeOK, Positions, BatchesFit, Bounded, [Next]_vars PROVE Bounded'
  OBVIOUS
<1>0. /\ base \in Nat /\ Len(records) \in Nat /\ End = base + Len(records)
      /\ End' = base' + Len(records') /\ TypeOK'
  BY TypeIsInvariant DEF TypeOK, End
<1>1. base' \in Nat /\ Len(records') \in Nat
  BY <1>0 DEF TypeOK
<1>2. CASE base <= base' /\ End' = End
  BY <1>0, <1>1, <1>2, BoundsAssumption, CapacityAssumption DEF Bounded, Larger
<1>3. ASSUME NEW s \in Senders, TakeBatch(s)
      PROVE  Bounded'
  <2>1. Len(pending[s]) \in Nat /\ Len(pending[s]) <= MaxBatch
    BY DEF BatchesFit, TypeOK
  <2>2. Len(records') <= Capacity \/ Len(records') <= Len(pending[s])
    BY <1>0, <1>1, <1>3, TakeBatchIsBounded
  <2> QED
    BY <1>1, <2>1, <2>2, BoundsAssumption, CapacityAssumption DEF Bounded, Larger
<1>4. ASSUME NEW g \in Groups, NEW n \in Nat,
             Unsubscribe(g) \/ Acknowledge(g, n)
      PROVE  Bounded'
  BY <1>2, <1>4, QueueSteps
<1>5. ASSUME NEW g \in Groups, NEW n \in Nat,
             Subscribe(g) \/ Observe(g) \/ Deliver(g, n)
      PROVE  Bounded'
  BY <1>5 DEF Subscribe, Observe, Receiver, Deliver, Bounded
<1>6. CASE UNCHANGED <<topic, next>>
  BY <1>6 DEF topic, Bounded
<1> QED BY <1>3, <1>4, <1>5, <1>6, Steps

-----------------------------------------------------------------------------
(* The inductive invariant holds at the beginning, ... *)
LEMMA InitHasInvariant == Init => IInv
<1>1. Init => TypeOK /\ End = 0
  BY DEF Init, TypeOK, SenderStates, ReceiverStates, End
<1>2. Init => Positions /\ Caught
  BY <1>1 DEF Init, Positions, Caught, NothingHeldIsReleased
<1>3. Init => BatchesFit /\ Bounded
  BY BoundsAssumption, CapacityAssumption DEF Init, BatchesFit, Bounded, Larger
<1> QED BY <1>1, <1>2, <1>3 DEF IInv

(* ... every step keeps it, ... *)
LEMMA StepKeepsInvariant == IInv /\ [Next]_vars => IInv'
BY TypeIsInvariant, PositionsAreInvariant, CaughtIsInvariant, BatchesFitIsInvariant,
   BoundedIsInvariant
DEF IInv

(* ... and so it holds of every state that is reached. *)
LEMMA InvariantHolds == Spec => []IInv
BY InitHasInvariant, StepKeepsInvariant, PTL DEF Spec

(* Whatever groups do, in any order, the queue has every record a holding  *)
(* group has not acknowledged: release never pops one.                     *)
THEOREM NothingHeldIsEverReleased == Spec => []NothingHeldIsReleased
<1>1. IInv => NothingHeldIsReleased
  BY DEF IInv, Positions
<1> QED BY <1>1, InvariantHolds, PTL

(* A group that holds the topic is given every record from its creation on *)
(* before it acknowledges it, also after it subscribes again.              *)
THEOREM DeliveredAtLeastOnce == Spec => []AtLeastOnce
<1>1. IInv => AtLeastOnce
  BY DEF IInv, Caught, AtLeastOnce
<1> QED BY <1>1, InvariantHolds, PTL

(* The check of the capacity in send and what release keeps for observers  *)
(* together bound the queue, for any number of groups and senders.         *)
THEOREM QueueIsBounded == Spec => []Bounded
<1>1. IInv => Bounded
  BY DEF IInv
<1> QED BY <1>1, InvariantHolds, PTL

-----------------------------------------------------------------------------
(* What observers lose.                                                    *)

(* A step that releases a record an observer has not acknowledged leaves a *)
(* full topic: release goes past observed only down to the capacity.       *)
LEMMA ReleaseSteps ==
    ASSUME TypeOK, Positions, TypeOK', [Next]_vars, NEW g \in observers \intersect observers',
           base' > base, base' > position'[g]
    PROVE  End' - base' >= Capacity
<1>0. /\ End \in Nat /\ base \in Nat /\ observers \subseteq groups /\ groups \subseteq Groups
      /\ observers' \subseteq groups' /\ position \in [Groups -> Nat]
      /\ position' \in [Groups -> Nat]
  BY DEF TypeOK, End
<1>1. ASSUME NEW h \in Groups, Unsubscribe(h)
      PROVE  End' - base' >= Capacity
  <2>1. End' = End
    BY <1>1, QueueSteps
  <2>2. /\ base' = Released(groups \ {h}, observers \ {h}, position, base, End)
        /\ observers' = observers \ {h}
        /\ position' = [position EXCEPT ![h] = 0]
    BY <1>1 DEF Unsubscribe
  <2>3. g \in (groups \ {h}) \intersect (observers \ {h}) /\ position'[g] = position[g]
    BY <1>0, <2>2
  <2> QED BY <1>0, <2>1, <2>2, <2>3, ReleasedSparesObservers
<1>2. ASSUME NEW s \in Senders, TakeBatch(s)
      PROVE  End' - base' >= Capacity
  <2>1. End' = End + Len(pending[s]) /\ End' \in Nat
    <3>1. End' = End + Len(pending[s])
      BY <1>2, QueueSteps
    <3>2. Len(pending[s]) \in Nat
      BY DEF TypeOK
    <3> QED BY <1>0, <3>1, <3>2
  <2>2. /\ base' = Released(groups, observers, position, base, End')
        /\ position' = position
    BY <1>2, <2>1 DEF TakeBatch
  <2>3. g \in groups \intersect observers
    BY <1>0
  <2> QED BY <1>0, <2>1, <2>2, <2>3, ReleasedSparesObservers
<1>3. ASSUME NEW h \in Groups, NEW offset \in Nat, Acknowledge(h, offset)
      PROVE  End' - base' >= Capacity
  <2>1. End' = End
    BY <1>3, QueueSteps
  <2>2. /\ base' = Released(groups, observers, position', base, End)
    BY <1>3 DEF Acknowledge
  <2>3. g \in groups \intersect observers
    BY <1>0
  <2> QED BY <1>0, <2>1, <2>2, <2>3, ReleasedSparesObservers
<1>4. ASSUME NEW h \in Groups, Subscribe(h) \/ Observe(h)
      PROVE  FALSE
  BY <1>0, <1>4 DEF Subscribe, Observe, Receiver
<1>5. ASSUME NEW h \in Groups, NEW max \in Nat, Deliver(h, max)
      PROVE  FALSE
  BY <1>0, <1>5 DEF Deliver
<1>6. CASE UNCHANGED <<topic, next>>
  BY <1>0, <1>6 DEF topic
<1> QED BY <1>0, <1>1, <1>2, <1>3, <1>4, <1>5, <1>6, Steps

(* However groups join, leave and acknowledge, an observer loses records   *)
(* to the bound of the topic and to nothing else.                          *)
THEOREM ObserversLoseToTheBoundOnly == Spec => ObserversKeepTheBound
<1>1. IInv /\ IInv' /\ [Next]_vars =>
          [\A g \in observers \intersect observers' :
              (base' > base /\ base' > position'[g]) => End' - base' >= Capacity]_vars
  BY ReleaseSteps DEF IInv
<1> QED BY <1>1, InvariantHolds, PTL DEF Spec, ObserversKeepTheBound

-----------------------------------------------------------------------------
(* The promise.  What the refinement needs beyond the invariant: the queue *)
(* is the end of the log, what senders hold fits the bound of the log, a   *)
(* receiver is past what its group acknowledged, and an observer that was  *)
(* moved past records has others to read.                                  *)
Queue == Len(log) = End /\ \A i \in 1..Len(records) : records[i] = log[base + i]

Room == Len(log) + Underway <= MaxLog

Ready == \A s \in Senders : spc[s] \in {"registered", "waiting"} => pending[s] \in Batches

Ahead == \A g \in Groups : position[g] <= next[g]

Spared == \A g \in observers : base > position[g] => End - base >= Capacity

Modes == groups \ observers \subseteq Holders

RInv == IInv /\ Queue /\ Room /\ Ready /\ Ahead /\ Spared /\ Modes

(* A receiver goes on at its position and only moves forward.              *)
LEMMA AheadIsInvariant == TypeOK /\ Positions /\ Ahead /\ [Next]_vars => Ahead'
<1> SUFFICES ASSUME TypeOK, Positions, Ahead, [Next]_vars PROVE Ahead'
  OBVIOUS
<1>0. End \in Nat /\ position \in [Groups -> Nat] /\ next \in [Groups -> Nat]
  BY DEF TypeOK, End
<1>1. ASSUME NEW g \in Groups, Subscribe(g) \/ Observe(g)
      PROVE  Ahead'
  <2> DEFINE at == IF g \in groups THEN position[g] ELSE End
  <2>1. position' = [position EXCEPT ![g] = at] /\ next' = [next EXCEPT ![g] = at] /\ at \in Nat
    BY <1>0, <1>1 DEF Subscribe, Observe, Receiver
  <2> HIDE DEF at
  <2> QED BY <1>0, <2>1 DEF Ahead
<1>2. ASSUME NEW g \in Groups, Unsubscribe(g)
      PROVE  Ahead'
  BY <1>0, <1>2 DEF Unsubscribe, receivers, Ahead
<1>3. ASSUME NEW s \in Senders, TakeBatch(s)
      PROVE  Ahead'
  BY <1>3 DEF TakeBatch, receivers, Ahead
<1>4. ASSUME NEW g \in Groups, NEW max \in Nat, Deliver(g, max)
      PROVE  Ahead'
  <2> DEFINE to == Smaller(End, From(g) + max)
  <2>1. next[g] <= From(g) /\ From(g) \in Nat /\ next[g] <= End
    BY <1>0 DEF TypeOK, Positions, From, Larger
  <2>2. to \in Nat /\ next[g] <= to
    BY <1>0, <2>1 DEF Smaller
  <2>3. position' = position /\ next' = [next EXCEPT ![g] = to]
    BY <1>4 DEF Deliver
  <2> HIDE DEF to
  <2> QED BY <1>0, <2>2, <2>3 DEF Ahead
<1>5. ASSUME NEW g \in Groups, NEW offset \in Nat, Acknowledge(g, offset)
      PROVE  Ahead'
  <2>1. /\ position' = [position EXCEPT ![g] = Larger(position[g], offset + 1)]
        /\ next' = next /\ offset < next[g]
    BY <1>5 DEF Acknowledge, Received
  <2> QED BY <1>0, <2>1 DEF Ahead, Larger
<1>6. CASE UNCHANGED <<topic, next>>
  BY <1>6 DEF topic, Ahead
<1> QED BY <1>1, <1>2, <1>3, <1>4, <1>5, <1>6, Steps

(* A group that does not observe asked to hold the topic. *)
LEMMA ModesIsInvariant == TypeOK /\ Modes /\ [Next]_vars => Modes'
<1> SUFFICES ASSUME TypeOK, Modes, [Next]_vars PROVE Modes'
  OBVIOUS
<1>1. ASSUME NEW g \in Groups, g \in Holders /\ Subscribe(g)
      PROVE  Modes'
  BY <1>1 DEF Subscribe, Receiver, Modes
<1>2. ASSUME NEW g \in Groups, Observe(g)
      PROVE  Modes'
  BY <1>2 DEF Observe, Receiver, Modes
<1>3. ASSUME NEW g \in Groups, Unsubscribe(g)
      PROVE  Modes'
  BY <1>3 DEF Unsubscribe, Modes
<1>4. CASE UNCHANGED <<groups, observers>>
  BY <1>4 DEF Modes
<1>5. ASSUME NEW s \in Senders, TakeBatch(s)
      PROVE  UNCHANGED <<groups, observers>>
  BY <1>5 DEF TakeBatch
<1>6. ASSUME NEW g \in Groups, NEW n \in Nat, Deliver(g, n) \/ Acknowledge(g, n)
      PROVE  UNCHANGED <<groups, observers>>
  BY <1>6 DEF Deliver, Acknowledge
<1> QED BY <1>1, <1>2, <1>3, <1>4, <1>5, <1>6, Steps DEF topic

(* When the topic has been emptied an observer was not moved past anything: *)
(* what it was moved past made way for a full topic.                        *)
LEMMA SparedIsInvariant ==
    ASSUME Holders \intersect Observers = {}, TypeOK, TypeOK', Positions, Modes, Spared,
           [Next]_vars
    PROVE  Spared'
<1> SUFFICES ASSUME NEW g \in observers', base' > position'[g]
             PROVE  End' - base' >= Capacity
  BY DEF Spared
<1>0. /\ base \in Nat /\ base' \in Nat /\ End \in Nat /\ End' \in Nat /\ base <= End
      /\ position \in [Groups -> Nat] /\ position' \in [Groups -> Nat]
      /\ observers \subseteq groups /\ groups \subseteq Groups
      /\ observers' \subseteq groups' /\ groups' \subseteq Groups
  <2>1. base \in Nat /\ End \in Nat /\ base <= End
    BY DEF TypeOK, End
  <2>2. base' \in Nat /\ End' \in Nat
    BY DEF TypeOK, End
  <2>3. /\ position \in [Groups -> Nat] /\ observers \subseteq groups /\ groups \subseteq Groups
        /\ position' \in [Groups -> Nat] /\ observers' \subseteq groups' /\ groups' \subseteq Groups
    BY DEF TypeOK
  <2> QED BY <2>1, <2>2, <2>3
<1>1. ASSUME g \in observers, base' = base, position[g] <= position'[g], End <= End'
      PROVE  End' - base' >= Capacity
  <2>1. g \in Groups /\ position[g] \in Nat /\ position'[g] \in Nat
    BY <1>0
  <2>2. base > position[g] /\ Capacity \in Nat
    BY <1>0, <1>1, <2>1, CapacityAssumption
  <2>3. End - base >= Capacity
    BY <1>1, <2>2 DEF Spared
  <2>4. PICK newBase \in Nat, newEnd \in Nat : newBase = base' /\ newEnd = End'
    BY <1>0
  <2>5. newBase = base /\ End <= newEnd
    BY <1>1, <2>4
  <2>6. newEnd - newBase >= Capacity
    BY <1>0, <2>2, <2>3, <2>5
  <2> QED BY <2>4, <2>6
<1>2. ASSUME NEW h \in Groups, Subscribe(h) \/ (h \in Observers /\ Observe(h))
      PROVE  End' - base' >= Capacity
  <2>1. /\ base' = base /\ End' = End
        /\ position' = [position EXCEPT ![h] = IF h \in groups THEN position[h] ELSE End]
    BY <1>2 DEF Subscribe, Observe, Receiver, End
  <2>2. CASE g \in observers
    <3>1. position'[g] = position[g]
      BY <1>0, <2>1, <2>2
    <3> QED BY <1>0, <1>1, <2>1, <2>2, <3>1
  <2>3. CASE g \notin observers
    <3>1. h = g /\ g \in Observers
      BY <1>2, <2>3 DEF Subscribe, Observe
    <3>2. g \notin groups
      BY <2>3, <3>1 DEF Modes
    <3>3. position'[g] = End
      BY <1>0, <2>1, <3>1, <3>2
    <3> QED BY <1>0, <2>1, <3>3
  <2> QED BY <2>2, <2>3
<1>3. ASSUME g \in observers, base < base'
      PROVE  End' - base' >= Capacity
  BY <1>0, <1>3, ReleaseSteps
<1>4. ASSUME NEW h \in Groups, Unsubscribe(h)
      PROVE  End' - base' >= Capacity
  <2>1. g \in observers /\ g # h /\ position' = [position EXCEPT ![h] = 0]
    BY <1>4 DEF Unsubscribe
  <2>2. base <= base' /\ End' = End /\ position'[g] = position[g]
    BY <1>0, <1>4, <2>1, QueueSteps
  <2> QED BY <1>0, <1>1, <1>3, <2>1, <2>2
<1>5. ASSUME NEW s \in Senders, TakeBatch(s)
      PROVE  End' - base' >= Capacity
  <2>1. g \in observers /\ position' = position
    BY <1>5 DEF TakeBatch
  <2>2. base <= base' /\ End' = End + Len(pending[s])
    BY <1>5, QueueSteps
  <2>3. Len(pending[s]) \in Nat
    BY DEF TypeOK
  <2> QED BY <1>0, <1>1, <1>3, <2>1, <2>2, <2>3
<1>6. ASSUME NEW h \in Groups, NEW offset \in Nat, Acknowledge(h, offset)
      PROVE  End' - base' >= Capacity
  <2>1. g \in observers /\ position' = [position EXCEPT ![h] = Larger(position[h], offset + 1)]
    BY <1>6 DEF Acknowledge
  <2>2. base <= base' /\ End' = End
    BY <1>6, QueueSteps
  <2>3. position[g] <= position'[g]
    BY <1>0, <2>1 DEF Larger
  <2> QED BY <1>0, <1>1, <1>3, <2>1, <2>2, <2>3
<1>7. ASSUME NEW h \in Groups, NEW max \in Nat, Deliver(h, max)
      PROVE  End' - base' >= Capacity
  BY <1>0, <1>1, <1>7 DEF Deliver, End
<1>8. CASE UNCHANGED <<topic, next>>
  BY <1>0, <1>1, <1>8 DEF topic, End
<1> QED BY <1>2, <1>4, <1>5, <1>6, <1>7, <1>8, Steps

(* What is left of the end of a log is the end of the log. *)
LEMMA PoppedIsTheEnd ==
    ASSUME NEW queue \in Seq(Payloads), NEW from \in Nat, NEW newBase \in Nat,
           from <= newBase, newBase <= from + Len(queue), NEW l,
           \A i \in 1..Len(queue) : queue[i] = l[from + i]
    PROVE  \A i \in 1..Len(Popped(queue, from, newBase)) :
              Popped(queue, from, newBase)[i] = l[newBase + i]
<1> DEFINE k == newBase - from
           rest == Popped(queue, from, newBase)
<1>1. k \in Nat /\ k <= Len(queue) /\ Len(queue) \in Nat
  OBVIOUS
<1>2. \A i \in (k + 1)..Len(queue) : queue[i] \in Payloads
  BY <1>1
<1>3. Len(rest) = Len(queue) - k /\ \A i \in 1..(Len(queue) - k) : rest[i] = queue[k + i]
  <2>1. k + 1 \in Int /\ Len(queue) \in Int /\ rest = SubSeq(queue, k + 1, Len(queue))
    BY <1>1 DEF Popped
  <2> HIDE DEF rest, k
  <2>2. /\ Len(rest) = IF k + 1 <= Len(queue) THEN Len(queue) - (k + 1) + 1 ELSE 0
        /\ \A i \in 1..(Len(queue) - (k + 1) + 1) : rest[i] = queue[(k + 1) + i - 1]
    BY <1>2, <2>1, SubSeqProperties
  <2>3. \A i \in 1..(Len(queue) - k) : i \in 1..(Len(queue) - (k + 1) + 1) /\ (k + 1) + i - 1 = k + i
    BY <1>1
  <2>4. Len(rest) = Len(queue) - k
    BY <1>1, <2>2
  <2> QED BY <2>2, <2>3, <2>4
<1>4. \A i \in 1..Len(rest) : k + i \in 1..Len(queue) /\ from + (k + i) = newBase + i
  BY <1>1, <1>3
<1> HIDE DEF rest
<1>5. \A i \in 1..Len(rest) : rest[i] = l[newBase + i]
  BY <1>1, <1>3, <1>4
<1> QED BY <1>5 DEF rest

(* What is appended to both is at the end of both. *)
LEMMA AppendedIsTheEnd ==
    ASSUME NEW queue \in Seq(Payloads), NEW batch \in Seq(Payloads), NEW l \in Seq(Payloads),
           NEW from \in Nat, Len(l) = from + Len(queue),
           \A i \in 1..Len(queue) : queue[i] = l[from + i]
    PROVE  \A i \in 1..Len(queue \o batch) : (queue \o batch)[i] = (l \o batch)[from + i]
<1>1. /\ Len(queue \o batch) = Len(queue) + Len(batch)
      /\ \A i \in 1..(Len(queue) + Len(batch)) :
            (queue \o batch)[i] = IF i <= Len(queue) THEN queue[i] ELSE batch[i - Len(queue)]
  BY ConcatProperties
<1>2. \A i \in 1..(Len(l) + Len(batch)) :
          (l \o batch)[i] = IF i <= Len(l) THEN l[i] ELSE batch[i - Len(l)]
  BY ConcatProperties
<1>3. Len(queue) \in Nat /\ Len(batch) \in Nat /\ Len(l) \in Nat
  OBVIOUS
<1>4. ASSUME NEW i \in 1..(Len(queue) + Len(batch))
      PROVE  (queue \o batch)[i] = (l \o batch)[from + i]
  <2>1. from + i \in 1..(Len(l) + Len(batch)) /\ (from + i) - Len(l) = i - Len(queue)
    BY <1>3
  <2>2. CASE i <= Len(queue)
    <3>1. from + i <= Len(l) /\ i \in 1..Len(queue)
      BY <1>3, <2>2
    <3> QED BY <1>1, <1>2, <2>1, <2>2, <3>1
  <2>3. CASE ~(i <= Len(queue))
    <3>1. ~(from + i <= Len(l))
      BY <1>3, <2>3
    <3> QED BY <1>1, <1>2, <2>1, <2>3, <3>1
  <2> QED BY <2>2, <2>3
<1> QED BY <1>1, <1>4

(* The queue stays the end of the log: what is appended is appended to     *)
(* both, and release pops at the other end.                                *)
LEMMA QueueIsInvariant == TypeOK /\ Positions /\ Queue /\ [Next]_vars => Queue'
<1> SUFFICES ASSUME TypeOK, Positions, Queue, [Next]_vars PROVE Queue'
  OBVIOUS
<1>0. /\ base \in Nat /\ records \in Seq(Payloads) /\ Len(records) \in Nat
      /\ End = base + Len(records) /\ End \in Nat /\ base <= End
      /\ log \in Seq(Payloads) /\ Len(log) = End
      /\ \A i \in 1..Len(records) : records[i] = log[base + i]
  BY DEF TypeOK, End, Queue
<1>1. ASSUME NEW newBase \in Nat, base <= newBase, newBase <= End, End' = End, log' = log,
             base' = newBase, records' = Popped(records, base, newBase)
      PROVE  Queue'
  <2>1. newBase <= base + Len(records)
    BY <1>0, <1>1
  <2>2. \A i \in 1..Len(Popped(records, base, newBase)) :
            Popped(records, base, newBase)[i] = log[newBase + i]
    <3>1. /\ base \in Nat /\ records \in Seq(Payloads)
          /\ base <= newBase /\ newBase <= base + Len(records)
          /\ \A i \in 1..Len(records) : records[i] = log[base + i]
      BY <1>0, <1>1, <2>1
    <3> QED BY ONLY <3>1, PoppedIsTheEnd
  <2> QED BY <1>0, <1>1, <2>2 DEF Queue
<1>2. ASSUME NEW g \in Groups, Unsubscribe(g)
      PROVE  Queue'
  <2> DEFINE newBase == Released(groups \ {g}, observers \ {g}, position, base, End)
  <2>1. newBase \in Nat /\ base <= newBase /\ newBase <= End
    BY <1>0, ReleasedIsAcknowledged DEF TypeOK, Positions
  <2>2. End' = End
    BY <1>2, QueueSteps
  <2>3. base' = newBase /\ records' = Popped(records, base, newBase) /\ log' = log
    BY <1>2 DEF Unsubscribe
  <2> QED BY <1>1, <2>1, <2>2, <2>3
<1>3. ASSUME NEW g \in Groups, NEW offset \in Nat, Acknowledge(g, offset)
      PROVE  Queue'
  <2> DEFINE at == [position EXCEPT ![g] = Larger(@, offset + 1)]
             newBase == Released(groups, observers, at, base, End)
  <2>1. at \in [Groups -> Nat] /\ \A h \in Groups : at[h] <= End
    BY <1>0, <1>3, SMTT(30) DEF TypeOK, Positions, Larger, Acknowledge, Received
  <2>2. base' = newBase /\ records' = Popped(records, base, newBase) /\ log' = log
    BY <1>3 DEF Acknowledge
  <2> HIDE DEF at
  <2>3. newBase \in Nat /\ base <= newBase /\ newBase <= End
    BY <1>0, <2>1, ReleasedIsAcknowledged DEF TypeOK
  <2>4. End' = End
    BY <1>3, QueueSteps
  <2> QED BY <1>1, <2>2, <2>3, <2>4
<1>4. ASSUME NEW s \in Senders, TakeBatch(s)
      PROVE  Queue'
  <2> DEFINE n == Len(pending[s])
             to == End + n
             newBase == Released(groups, observers, position, base, to)
             queue == records \o pending[s]
  <2>1. pending[s] \in Seq(Payloads) /\ n \in Nat /\ to \in Nat
    BY <1>0 DEF TypeOK
  <2>2. newBase \in Nat /\ base <= newBase /\ newBase <= to
    <3>1. base <= to /\ \A g \in groups : position[g] <= to
      BY <1>0, <2>1 DEF TypeOK, Positions
    <3> HIDE DEF to
    <3> QED BY <1>0, <2>1, <3>1, ReleasedIsAcknowledged DEF TypeOK
  <2>3. base' = newBase /\ records' = Popped(queue, base, newBase) /\ log' = log \o pending[s]
    BY <1>4 DEF TakeBatch
  <2>4. End' = to
    BY <1>4, QueueSteps
  <2> DEFINE newLog == log \o pending[s]
  <2>5. queue \in Seq(Payloads) /\ Len(queue) = Len(records) + n /\ Len(newLog) = Len(log) + n
    BY <1>0, <2>1, ConcatProperties
  <2>6. \A i \in 1..Len(queue) : queue[i] = newLog[base + i]
    <3>1. /\ Len(log) = base + Len(records) /\ base \in Nat
          /\ records \in Seq(Payloads) /\ log \in Seq(Payloads) /\ pending[s] \in Seq(Payloads)
          /\ \A i \in 1..Len(records) : records[i] = log[base + i]
      BY <1>0, <2>1
    <3> QED BY ONLY <3>1, AppendedIsTheEnd
  <2>7. to = End + n
    OBVIOUS
  <2> HIDE DEF newBase, n, to, queue, newLog
  <2>8. base + Len(queue) = to /\ Len(newLog) = to
    BY <1>0, <2>1, <2>5, <2>7
  <2>9. \A i \in 1..Len(Popped(queue, base, newBase)) :
            Popped(queue, base, newBase)[i] = newLog[newBase + i]
    <3>1. newBase <= base + Len(queue) /\ base <= newBase /\ newBase \in Nat /\ base \in Nat
      BY <1>0, <2>2, <2>8
    <3>2. queue \in Seq(Payloads)
      BY <2>5
    <3> QED BY ONLY <2>6, <3>1, <3>2, PoppedIsTheEnd
  <2> QED BY <2>3, <2>4, <2>8, <2>9 DEF Queue, newLog
<1>5. ASSUME NEW g \in Groups, Subscribe(g) \/ Observe(g)
      PROVE  Queue'
  BY <1>5 DEF Subscribe, Observe, Receiver, Queue, End
<1>6. ASSUME NEW g \in Groups, NEW max \in Nat, Deliver(g, max)
      PROVE  Queue'
  BY <1>6 DEF Deliver, Queue, End
<1>7. CASE UNCHANGED <<topic, next>>
  BY <1>7 DEF topic, Queue, End
<1> QED BY <1>2, <1>3, <1>4, <1>5, <1>6, <1>7, Steps

(* What a sender does to its batch. *)
LEMMA SenderSteps ==
    ASSUME [Next]_vars
    PROVE  \/ \E s \in Senders, batch \in Batches : Send(s, batch)
           \/ \E s \in Senders : TakeBatch(s)
           \/ \E s \in Senders : Cancel(s)
           \/ \E s \in Senders : Retry(s) \/ AwaitRoom(s) \/ NotifyArrived(s)
           \/ UNCHANGED <<log, pending, spc>>
<1>1. ASSUME NEW g \in Groups, NEW n,
             \/ Subscribe(g) \/ Observe(g) \/ Unsubscribe(g) \/ Acknowledge(g, n)
      PROVE  UNCHANGED <<log, pending, spc>>
  BY <1>1 DEF Subscribe, Observe, Receiver, Unsubscribe, Acknowledge, senders
<1>2. ASSUME NEW g \in Groups, NEW n,
             \/ Receive(g) \/ ReceiverStep(g) \/ TakeSkipped(g)
      PROVE  UNCHANGED <<log, pending, spc>>
  BY <1>2 DEF Receive, ReceiverStep, TakeSkipped, ReceiveFails, AwaitRecords, Recheck,
              TimeOut, NotifyReleased, Deliver, senders, topic
<1>3. CASE UNCHANGED vars
  BY <1>3 DEF vars, senders, topic
<1> QED BY <1>1, <1>2, <1>3, GroupsAssumption DEF Next, SenderStep

(* A sender that checks or waits has a batch to send. *)
LEMMA ReadyIsInvariant == TypeOK /\ Ready /\ [Next]_vars => Ready'
<1> SUFFICES ASSUME TypeOK, Ready, [Next]_vars PROVE Ready'
  OBVIOUS
<1>1. ASSUME NEW s \in Senders, NEW batch \in Batches, Send(s, batch)
      PROVE  Ready'
  BY <1>1 DEF Send, Ready, TypeOK
<1>2. ASSUME NEW s \in Senders, TakeBatch(s)
      PROVE  Ready'
  BY <1>2 DEF TakeBatch, Ready, TypeOK
<1>3. ASSUME NEW s \in Senders, Cancel(s)
      PROVE  Ready'
  BY <1>3 DEF Cancel, Ready, TypeOK
<1>4. ASSUME NEW s \in Senders, Retry(s) \/ AwaitRoom(s) \/ NotifyArrived(s)
      PROVE  Ready'
  BY <1>4 DEF Retry, AwaitRoom, NotifyArrived, Ready, TypeOK
<1>5. CASE UNCHANGED <<log, pending, spc>>
  BY <1>5 DEF Ready
<1> QED BY <1>1, <1>2, <1>3, <1>4, <1>5, SenderSteps

(* What is underway is a sum over the senders. *)
LEMMA UnderwayIsASum ==
    /\ Underway = SumOf([s \in Senders |-> Len(pending[s])], Senders)
    /\ Underway' = SumOf([s \in Senders |-> Len(pending'[s])], Senders)
<1>1. Underway = SumOf([s \in Senders |-> Len(pending[s])], Senders)
  BY DEF Underway, SumOf, MapThenSumSet, MapThenFoldSet
<1>2. Underway' = SumOf([s \in Senders |-> Len(pending'[s])], Senders)
  BY DEF Underway, SumOf, MapThenSumSet, MapThenFoldSet
<1> QED BY <1>1, <1>2

(* What one sender does to its batch changes what is underway by as much. *)
LEMMA UnderwayChanges ==
    ASSUME TypeOK, TypeOK', NEW s \in Senders, \A r \in Senders \ {s} : pending'[r] = pending[r]
    PROVE  /\ Underway \in Nat /\ Underway' \in Nat
           /\ Underway' - Len(pending'[s]) = Underway - Len(pending[s])
           /\ Len(pending[s]) <= Underway
<1> DEFINE v == [r \in Senders |-> Len(pending[r])]
           w == [r \in Senders |-> Len(pending'[r])]
<1>1. v \in [Senders -> Nat] /\ w \in [Senders -> Nat] /\ \A r \in Senders \ {s} : v[r] = w[r]
  BY DEF TypeOK
<1>2. v[s] = Len(pending[s]) /\ w[s] = Len(pending'[s])
  OBVIOUS
<1>3. Underway = SumOf(v, Senders) /\ Underway' = SumOf(w, Senders)
  BY UnderwayIsASum
<1> HIDE DEF v, w
<1> QED BY <1>1, <1>2, <1>3, SumChanges, SendersAssumption

(* What one sender holds is a part of what is underway. *)
LEMMA UnderwayIsMore ==
    ASSUME TypeOK, NEW s \in Senders
    PROVE  Underway \in Nat /\ Len(pending[s]) <= Underway
<1> DEFINE v == [r \in Senders |-> Len(pending[r])]
<1>1. v \in [Senders -> Nat] /\ v[s] = Len(pending[s])
  BY DEF TypeOK
<1>2. Underway = SumOf(v, Senders)
  BY UnderwayIsASum
<1> HIDE DEF v
<1> QED BY <1>1, <1>2, SumChanges, SendersAssumption

(* No sender is given more than the log has room for, so each finds it. *)
LEMMA RoomIsInvariant ==
    ASSUME TypeOK, TypeOK', Room, [Next]_vars
    PROVE  Room'
<1>0. /\ pending \in [Senders -> Seq(Payloads)] /\ \A s \in Senders : Len(pending[s]) \in Nat
      /\ \A s \in Senders : Len(pending'[s]) \in Nat
      /\ Len(log) \in Nat /\ Len(log') \in Nat /\ MaxLog \in Nat
  BY BoundsAssumption DEF TypeOK
<1>1. ASSUME NEW s \in Senders, NEW batch \in Batches, Send(s, batch)
      PROVE  Room'
  <2>1. /\ pending' = [pending EXCEPT ![s] = batch] /\ log' = log
        /\ Len(log) + Len(batch) + Underway <= MaxLog
    BY <1>1 DEF Send, topic
  <2>2. /\ pending'[s] = batch /\ \A r \in Senders \ {s} : pending'[r] = pending[r]
    BY <1>0, <2>1
  <2>3. PICK u \in Nat, n \in Nat : u = Underway' /\ n = Len(pending'[s])
    BY <1>0, <2>2, UnderwayChanges
  <2>4. /\ Underway \in Nat /\ u - n = Underway - Len(pending[s]) /\ Len(pending[s]) \in Nat
    BY <1>0, <2>2, <2>3, UnderwayChanges
  <2>5. Len(log) + u <= MaxLog
    BY <1>0, <2>1, <2>2, <2>3, <2>4
  <2> QED BY <2>1, <2>3, <2>5 DEF Room
<1>2. ASSUME NEW s \in Senders, TakeBatch(s) \/ Cancel(s)
      PROVE  Room'
  <2>1. /\ pending' = [pending EXCEPT ![s] = <<>>]
        /\ log' = log \/ log' = log \o pending[s]
    BY <1>2 DEF TakeBatch, Cancel, topic
  <2>2. /\ Len(pending'[s]) = 0 /\ \A r \in Senders \ {s} : pending'[r] = pending[r]
    BY <1>0, <2>1
  <2>3. PICK u \in Nat, l \in Nat : u = Underway' /\ l = Len(log')
    BY <1>0, <2>2, UnderwayChanges
  <2>4. /\ Underway \in Nat /\ u = Underway - Len(pending[s]) /\ Len(pending[s]) \in Nat
    <3>1. u - Len(pending'[s]) = Underway - Len(pending[s]) /\ Underway \in Nat
      BY <2>2, <2>3, UnderwayChanges
    <3> QED BY <1>0, <2>2, <2>3, <3>1
  <2>5. l <= Len(log) + Len(pending[s])
    BY <1>0, <2>1, <2>3 DEF TypeOK
  <2>6. l + u <= MaxLog
    BY <1>0, <2>3, <2>4, <2>5 DEF Room
  <2> QED BY <2>3, <2>6 DEF Room
<1>3. CASE UNCHANGED <<log, pending>>
  <2>1. Underway' = Underway
    BY <1>3, UnderwayIsASum
  <2> QED BY <1>3, <2>1 DEF Room
<1>4. ASSUME NEW s \in Senders, Retry(s) \/ AwaitRoom(s) \/ NotifyArrived(s)
      PROVE  UNCHANGED <<log, pending>>
  BY <1>4 DEF Retry, AwaitRoom, NotifyArrived, topic
<1> QED BY <1>1, <1>2, <1>3, <1>4, SenderSteps

(* A part of the end of a log is a part of the log. *)
LEMMA PartOfTheQueue ==
    ASSUME NEW queue \in Seq(Payloads), NEW l \in Seq(Payloads), NEW first \in Nat,
           Len(l) = first + Len(queue), \A i \in 1..Len(queue) : queue[i] = l[first + i],
           NEW from \in Nat, NEW to \in Nat, first <= from, from <= to, to <= Len(l)
    PROVE  SubSeq(queue, from - first + 1, to - first) = SubSeq(l, from + 1, to)
<1> DEFINE m == from - first + 1
           n == to - first
           p == SubSeq(queue, m, n)
           q == SubSeq(l, from + 1, to)
<1>0. /\ m \in Int /\ n \in Int /\ from + 1 \in Int /\ to \in Int /\ Len(queue) \in Nat
      /\ n - m + 1 = to - from /\ to - (from + 1) + 1 = to - from /\ to - from \in Nat
  OBVIOUS
<1>1. /\ \A i \in m..n : queue[i] \in Payloads
      /\ \A i \in (from + 1)..to : l[i] \in Payloads
  <2>1. \A i \in m..n : i \in 1..Len(queue)
    OBVIOUS
  <2>2. \A i \in (from + 1)..to : i \in 1..Len(l)
    OBVIOUS
  <2> HIDE DEF m, n
  <2> QED BY <2>1, <2>2
<1>2. /\ p \in Seq(Payloads) /\ Len(p) = IF m <= n THEN n - m + 1 ELSE 0
      /\ \A i \in 1..(n - m + 1) : p[i] = queue[m + i - 1]
  BY <1>0, <1>1, SubSeqProperties
<1>3. /\ q \in Seq(Payloads) /\ Len(q) = IF from + 1 <= to THEN to - (from + 1) + 1 ELSE 0
      /\ \A i \in 1..(to - (from + 1) + 1) : q[i] = l[(from + 1) + i - 1]
  BY <1>0, <1>1, SubSeqProperties
<1>4. Len(p) = to - from /\ Len(q) = to - from
  <2> HIDE DEF p, q
  <2> QED BY <1>0, <1>2, <1>3
<1>5. ASSUME NEW i \in 1..(to - from)
      PROVE  p[i] = q[i]
  <2>1. PICK j \in 1..Len(queue), k \in Nat : j = m + i - 1 /\ k = (from + 1) + i - 1 /\ k = first + j
    BY <1>0
  <2>2. queue[j] = l[k]
    BY <2>1
  <2>3. i \in 1..(n - m + 1) /\ i \in 1..(to - (from + 1) + 1)
    BY <1>0
  <2> HIDE DEF m, n, p, q
  <2> QED BY <1>2, <1>3, <2>1, <2>2, <2>3
<1> HIDE DEF p, q
<1>6. p = q
  BY <1>2, <1>3, <1>4, <1>5, SeqEqual
<1> QED BY <1>6 DEF p, q

(* A group that is not observing reads no record it does not expect: the   *)
(* base is not past what it acknowledged.                                  *)
LEMMA HoldersMissNothing ==
    ASSUME RInv, Holders \intersect Observers = {}, NEW g \in groups \ observers
    PROVE  base <= next[g] /\ next[g] \in Nat /\ base \in Nat
<1>1. g \in groups \ Observers /\ g \in Groups
  BY DEF RInv, IInv, TypeOK, Modes
<1>2. base <= position[g] /\ position[g] <= next[g]
  BY <1>1 DEF RInv, IInv, Positions, NothingHeldIsReleased, Ahead
<1>3. base \in Nat /\ position[g] \in Nat /\ next[g] \in Nat
  BY <1>1 DEF RInv, IInv, TypeOK
<1> QED BY <1>2, <1>3

(* What the refinement needs holds at the beginning, ... *)
LEMMA RInvBegins == Init => RInv
<1> SUFFICES ASSUME Init PROVE RInv
  OBVIOUS
<1>1. IInv
  BY InitHasInvariant
<1>2. End = 0 /\ Len(log) = 0 /\ Len(records) = 0
  BY DEF Init, End
<1>3. Queue /\ Ready /\ Ahead /\ Spared /\ Modes
  BY <1>2 DEF Init, Queue, Ready, Ahead, Spared, Modes
<1>4. Room
  <2> DEFINE v == [s \in Senders |-> Len(pending[s])]
  <2>1. v = [s \in Senders |-> 0]
    BY DEF Init
  <2>2. SumOf(v, Senders) = 0
    BY <2>1, SumOfNothing, SendersAssumption
  <2>3. Underway = 0
    BY <2>2, UnderwayIsASum
  <2> QED BY <1>2, <2>3, BoundsAssumption DEF Room
<1> QED BY <1>1, <1>3, <1>4 DEF RInv

(* ... every step keeps it, if no group may both hold and observe: one that *)
(* did would be moved past records without being told, ...                 *)
LEMMA RInvKeeps ==
    ASSUME Holders \intersect Observers = {}
    PROVE  RInv /\ [Next]_vars => RInv'
<1> SUFFICES ASSUME RInv, [Next]_vars PROVE RInv'
  OBVIOUS
<1>1. IInv'
  BY StepKeepsInvariant DEF RInv
<1>2. Queue' /\ Ready' /\ Ahead' /\ Modes'
  BY QueueIsInvariant, ReadyIsInvariant, AheadIsInvariant, ModesIsInvariant DEF RInv, IInv
<1>3. Room'
  BY <1>1, RoomIsInvariant DEF RInv, IInv
<1>4. Spared'
  BY <1>1, SparedIsInvariant DEF RInv, IInv
<1> QED BY <1>1, <1>2, <1>3, <1>4 DEF RInv

(* ... and so it holds of every state that is reached. *)
LEMMA RInvHolds ==
    ASSUME Holders \intersect Observers = {}
    PROVE  Spec => []RInv
BY RInvBegins, RInvKeeps, PTL DEF Spec

-----------------------------------------------------------------------------
(* Every step is a step of the promise or none.                            *)

(* A subscription or an observation joins. *)
LEMMA ReceiverJoins ==
    ASSUME RInv, NEW g \in Groups, Receiver(g), NEW asObserver \in BOOLEAN,
           observers' = IF asObserver THEN observers \union {g} ELSE observers \ {g}
    PROVE  Promised!Join(g, asObserver)
<1>1. Len(log) = End
  BY DEF RInv, Queue
<1>2. {h \in Groups : rpc'[h] # "closed"} = {h \in Groups : rpc[h] # "closed"} \union {g}
  BY DEF Receiver, RInv, IInv, TypeOK
<1>3. Nothing = Promised!Nothing
  BY DEF Nothing, Returned, Promised!Nothing, Promised!Returned
<1> QED BY <1>1, <1>2, <1>3 DEF Receiver, Promised!Join

(* Leaving leaves; the receiver stays until it is dropped. *)
LEMMA UnsubscribeLeaves ==
    ASSUME NEW g \in Groups, Unsubscribe(g)
    PROVE  Promised!Leave(g)
BY DEF Unsubscribe, receivers, Promised!Leave, Promised!readerVars

(* The batch a sender finds room for is sent. *)
LEMMA TakeBatchSends ==
    ASSUME RInv, NEW s \in Senders, TakeBatch(s)
    PROVE  \E batch \in Promised!Batches : Promised!Send(batch)
<1>1. pending[s] \in Promised!Batches
  BY DEF TakeBatch, RInv, Ready, Batches, Promised!Batches
<1>2. Len(log) + Len(pending[s]) <= MaxLog
  <2>1. Underway \in Nat /\ Len(pending[s]) <= Underway
    BY UnderwayIsMore DEF RInv, IInv
  <2> QED BY <2>1, BoundsAssumption DEF RInv, IInv, TypeOK, Room
<1>3. Promised!Send(pending[s])
  BY <1>2 DEF TakeBatch, receivers, Promised!Send, Promised!readerVars
<1> QED BY <1>1, <1>3

(* A delivery is of records of the log: for a group that holds the topic   *)
(* those it expects, since none of them was released.                      *)
LEMMA DeliverReceives ==
    ASSUME RInv, Holders \intersect Observers = {}, NEW g \in Groups, NEW max \in Nat,
           Deliver(g, max)
    PROVE  Promised!Receive(g)
<1> DEFINE from == From(g)
           to == Smaller(End, from + max)
<1>0. /\ base \in Nat /\ End \in Nat /\ End = base + Len(records) /\ Len(records) \in Nat
      /\ next[g] \in Nat /\ next[g] <= End /\ Len(log) = End
      /\ next \in [Groups -> Nat] /\ skipped \in [Groups -> Nat] /\ seen \in [Groups -> SUBSET Nat]
      /\ records \in Seq(Payloads) /\ log \in Seq(Payloads) /\ base <= End
  BY DEF RInv, IInv, TypeOK, Positions, End, Queue
<1>1. from \in next[g]..Len(log) /\ from \in Nat /\ base <= from /\ from <= End
  BY <1>0 DEF From, Larger
<1>2. to \in from..Len(log) /\ to \in Nat
  BY <1>0, <1>1 DEF Smaller
<1>3. g \notin observers => from = next[g]
  BY <1>0, HoldersMissNothing DEF Deliver, From, Larger
<1>4. SubSeq(records, from - base + 1, to - base) = SubSeq(log, from + 1, to)
  <2> HIDE DEF from, to
  <2>1. Len(log) = base + Len(records)
    BY <1>0
  <2>2. \A i \in 1..Len(records) : records[i] = log[base + i]
    BY DEF RInv, Queue
  <2>3. base \in Nat /\ records \in Seq(Payloads) /\ log \in Seq(Payloads)
    BY <1>0
  <2>4. from \in Nat /\ to \in Nat /\ base <= from /\ from <= to /\ to <= Len(log)
    BY <1>0, <1>1, <1>2
  <2> QED BY ONLY <2>1, <2>2, <2>3, <2>4, PartOfTheQueue
<1>5. /\ next' = [next EXCEPT ![g] = to]
      /\ last' = [last EXCEPT ![g] = Promised!Returned(from, SubSeq(log, from + 1, to))]
      /\ seen' = [seen EXCEPT ![g] = IF g \in observers THEN @ ELSE @ \union from..(to - 1)]
  BY <1>4 DEF Deliver, Returned, Promised!Returned
<1>6. skipped' = [skipped EXCEPT ![g] = @ + (from - next[g])]
  <2>1. CASE g \in observers
    BY <2>1 DEF Deliver, Skip
  <2>2. CASE g \notin observers
    <3>1. skipped' = skipped /\ from - next[g] = 0
      BY <1>0, <1>3, <2>2 DEF Deliver, Skip
    <3>2. skipped[g] + (from - next[g]) = skipped[g]
      BY <1>0, <3>1
    <3> QED BY <1>0, <3>1, <3>2
  <2> QED BY <2>1, <2>2
<1>7. /\ UNCHANGED <<log, groups, observers, position>>
      /\ g \in {h \in Groups : rpc[h] # "closed"}
      /\ {h \in Groups : rpc'[h] # "closed"} = {h \in Groups : rpc[h] # "closed"}
  BY DEF Deliver, RInv, IInv, TypeOK
<1> HIDE DEF from, to
<1> QED BY <1>1, <1>2, <1>3, <1>5, <1>6, <1>7 DEF Promised!Receive

(* A receiver that finds nothing was moved past nothing. *)
LEMMA AwaitRecordsStutters ==
    ASSUME RInv, Holders \intersect Observers = {}, NEW g \in Groups, AwaitRecords(g)
    PROVE  UNCHANGED Promised!vars
<1>0. /\ base \in Nat /\ End \in Nat /\ next[g] \in Nat /\ position[g] \in Nat
      /\ position[g] <= next[g] /\ next \in [Groups -> Nat] /\ skipped \in [Groups -> Nat]
      /\ Capacity \in Nat \ {0}
  BY CapacityAssumption DEF RInv, IInv, TypeOK, Ahead, End
<1>1. From(g) = next[g]
  <2>1. CASE g \in observers
    <3>1. base > position[g] => End - base >= Capacity
      BY <2>1 DEF RInv, Spared
    <3>2. From(g) >= End /\ From(g) = IF next[g] > base THEN next[g] ELSE base
      BY DEF AwaitRecords, From, Larger
    <3> QED BY <1>0, <3>1, <3>2
  <2>2. CASE g \notin observers
    BY <1>0, <2>2, HoldersMissNothing DEF AwaitRecords, From, Larger
  <2> QED BY <2>1, <2>2
<1>2. skipped[g] + (From(g) - next[g]) = skipped[g]
  BY <1>0, <1>1
<1>3. skipped' = skipped
  BY <1>0, <1>2 DEF AwaitRecords, Skip
<1>4. {h \in Groups : rpc'[h] # "closed"} = {h \in Groups : rpc[h] # "closed"}
  BY DEF AwaitRecords, RInv, IInv, TypeOK
<1> QED
  BY <1>3, <1>4 DEF AwaitRecords, topic, Promised!vars, Promised!topicVars, Promised!readerVars

(* An acknowledgement is one, whatever it releases. *)
LEMMA AcknowledgeAcknowledges ==
    ASSUME RInv, NEW g \in Groups, NEW offset, Acknowledge(g, offset)
    PROVE  Promised!Acknowledge(g, offset)
<1>1. /\ g \in {h \in Groups : rpc[h] # "closed"}
      /\ {h \in Groups : rpc'[h] # "closed"} = {h \in Groups : rpc[h] # "closed"}
  BY DEF Acknowledge, RInv, IInv, TypeOK
<1>2. position' = [position EXCEPT ![g] = Promised!Larger(@, offset + 1)]
  BY DEF Acknowledge, Larger, Promised!Larger
<1> QED
  BY <1>1, <1>2 DEF Acknowledge, Received, Promised!Acknowledge, Promised!Received,
                    Promised!readerVars

(* The other steps of a receiver. *)
LEMMA ReceiverSteps ==
    ASSUME RInv, NEW g \in Groups
    PROVE  /\ Receive(g) => Promised!Call(g)
           /\ TakeSkipped(g) => Promised!TakeSkipped(g)
           /\ ReceiveFails(g) \/ Recheck(g) \/ TimeOut(g) \/ NotifyReleased(g)
                 => UNCHANGED Promised!vars
<1>1. rpc \in [Groups -> ReceiverStates]
  BY DEF RInv, IInv, TypeOK
<1>2. ASSUME Receive(g)
      PROVE  Promised!Call(g)
  <2>1. /\ g \in {h \in Groups : rpc[h] # "closed"}
        /\ {h \in Groups : rpc'[h] # "closed"} = {h \in Groups : rpc[h] # "closed"}
    BY <1>1, <1>2 DEF Receive
  <2>2. Nothing = Promised!Nothing
    BY DEF Nothing, Returned, Promised!Nothing, Promised!Returned
  <2> QED BY <1>2, <2>1, <2>2 DEF Receive, topic, Promised!Call, Promised!topicVars
<1>3. ASSUME TakeSkipped(g)
      PROVE  Promised!TakeSkipped(g)
  BY <1>3 DEF TakeSkipped, topic, Promised!TakeSkipped, Promised!topicVars
<1>4. ASSUME ReceiveFails(g) \/ Recheck(g) \/ TimeOut(g) \/ NotifyReleased(g)
      PROVE  UNCHANGED Promised!vars
  <2>1. {h \in Groups : rpc'[h] # "closed"} = {h \in Groups : rpc[h] # "closed"}
    BY <1>1, <1>4 DEF ReceiveFails, Recheck, TimeOut, NotifyReleased
  <2>2. UNCHANGED <<topic, next, skipped, last>>
    BY <1>4 DEF ReceiveFails, Recheck, TimeOut, NotifyReleased
  <2> QED BY <2>1, <2>2 DEF topic, Promised!vars, Promised!topicVars, Promised!readerVars
<1> QED BY <1>2, <1>3, <1>4

(* The other steps of a sender are none of the promise's. *)
LEMMA SenderStutters ==
    ASSUME NEW s \in Senders,
           \/ \E batch : Send(s, batch)
           \/ AwaitRoom(s) \/ Retry(s) \/ Cancel(s) \/ NotifyArrived(s)
    PROVE  UNCHANGED Promised!vars
<1>1. UNCHANGED <<topic, rpc, next, skipped, last>>
  BY DEF Send, AwaitRoom, Retry, Cancel, NotifyArrived, receivers
<1> QED BY <1>1 DEF topic, Promised!vars, Promised!topicVars, Promised!readerVars

(* The queue in memory keeps the promise of goliath-pipe: what its lock,   *)
(* its bound and its wakeups do is the log that every role relies on.      *)
THEOREM QueueKeepsThePromise ==
    ASSUME Holders \intersect Observers = {}
    PROVE  Spec => KeepsThePromise
<1>1. Init => Promised!Init
  BY DEF Init, Nothing, Returned, Promised!Init, Promised!Nothing, Promised!Returned
<1>2. RInv /\ [Next]_vars => [Promised!Next]_(Promised!vars)
  <2> SUFFICES ASSUME RInv, [Next]_vars PROVE Promised!Next \/ UNCHANGED Promised!vars
    BY DEF Promised!vars
  <2>1. ASSUME NEW g \in Holders, Subscribe(g)
        PROVE  Promised!Join(g, FALSE)
    BY <2>1, GroupsAssumption, ReceiverJoins DEF Subscribe
  <2>2. ASSUME NEW g \in Observers, Observe(g)
        PROVE  Promised!Join(g, TRUE)
    BY <2>2, GroupsAssumption, ReceiverJoins DEF Observe
  <2>3. ASSUME NEW g \in Groups, NEW offset \in 0..(MaxLog - 1), Acknowledge(g, offset)
        PROVE  Promised!Next
    BY <2>3, AcknowledgeAcknowledges DEF Promised!Next
  <2>4. ASSUME NEW g \in Groups, Receive(g) \/ ReceiverStep(g) \/ TakeSkipped(g)
        PROVE  Promised!Next \/ UNCHANGED Promised!vars
    <3>1. ASSUME NEW max \in 0..MaxReceive, Deliver(g, max)
          PROVE  Promised!Next
      <4>1. max \in Nat
        BY BoundsAssumption
      <4>2. Promised!Receive(g)
        BY <3>1, <4>1, DeliverReceives
      <4> QED BY <4>2 DEF Promised!Next
    <3>2. CASE AwaitRecords(g)
      BY <3>2, AwaitRecordsStutters
    <3>3. CASE Receive(g) \/ TakeSkipped(g)
      BY <3>3, ReceiverSteps DEF Promised!Next
    <3>4. CASE ReceiveFails(g) \/ Recheck(g) \/ TimeOut(g) \/ NotifyReleased(g)
      BY <3>4, ReceiverSteps
    <3> QED BY <2>4, <3>1, <3>2, <3>3, <3>4 DEF ReceiverStep
  <2>5. ASSUME NEW s \in Senders, SenderStep(s) \/ Cancel(s)
        PROVE  Promised!Next \/ UNCHANGED Promised!vars
    BY <2>5, TakeBatchSends, SenderStutters DEF SenderStep, Promised!Next
  <2>6. ASSUME NEW s \in Senders, NEW batch \in Batches, Send(s, batch)
        PROVE  UNCHANGED Promised!vars
    BY <2>6, SenderStutters
  <2>7. ASSUME NEW g \in Groups, Unsubscribe(g)
        PROVE  Promised!Next
    BY <2>7, UnsubscribeLeaves DEF Promised!Next
  <2>8. CASE UNCHANGED vars
    BY <2>8 DEF vars, topic, receivers, Promised!vars, Promised!topicVars, Promised!readerVars
  <2> QED BY <2>1, <2>2, <2>3, <2>4, <2>5, <2>6, <2>7, <2>8 DEF Next, Promised!Next
<1> QED BY <1>1, <1>2, RInvHolds, PTL DEF Spec, KeepsThePromise, Promised!Spec
-----------------------------------------------------------------------------
(* What the promise itself gives, apart from this topic: a behaviour of    *)
(* Pipe has some receivers at each time, and they are those that are not   *)
(* closed, whatever else rpc is; nothing is assumed of it below.           *)
Readers == {g \in Groups : rpc[g] # "closed"}

(* What a group that never observes has acknowledged or is past was          *)
(* delivered to it: it may acknowledge all it is past.                       *)
Delivered ==
    \A g \in groups \ Observers :
        /\ 0..(position[g] - 1) \subseteq seen[g]
        /\ g \in Readers => 0..(next[g] - 1) \subseteq seen[g]

(* Only groups that may observe do. *)
MayObserve == observers \subseteq Observers

PInv == Promised!TypeOK /\ MayObserve /\ Delivered

(* Records added at the end leave the type of the log, and its offsets. *)
LEMMA Appended ==
    ASSUME NEW l \in Seq(Payloads), NEW b \in Seq(Payloads)
    PROVE  l \o b \in Seq(Payloads) /\ Len(l) <= Len(l \o b) /\ Len(l) \in Nat
                                    /\ Len(l \o b) \in Nat
OBVIOUS

(* Batches are sequences of records. *)
LEMMA BatchesAreSequences ==
    ASSUME Promised!Parameters, NEW b \in Promised!Batches \union {<<>>}
    PROVE  b \in Seq(Payloads)
<1>1. CASE b = <<>>
  BY <1>1
<1>2. CASE b \in Promised!Batches
  <2>1. PICK n \in 1..MaxBatch : b \in [1..n -> Payloads]
    BY <1>2 DEF Promised!Batches
  <2>2. n \in Nat
    BY <2>1 DEF Promised!Parameters
  <2> QED BY <2>1, <2>2
<1> QED BY <1>1, <1>2

-----------------------------------------------------------------------------
(* A send leaves what groups have and have not been given. *)
LEMMA SendKeeps ==
    ASSUME Promised!Parameters, PInv, NEW batch \in Promised!Batches, Promised!Send(batch)
    PROVE  PInv'
<1>1. batch \in Seq(Payloads)
  BY BatchesAreSequences
<1>2. log \in Seq(Payloads)
  BY DEF Readers, PInv, Promised!TypeOK
<1>3. log' \in Seq(Payloads) /\ Len(log) <= Len(log') /\ Len(log) \in Nat /\ Len(log') \in Nat
  BY <1>1, <1>2, Appended DEF Readers, Promised!Send
<1>4. 0..Len(log) \subseteq 0..Len(log') /\ 0..(Len(log) - 1) \subseteq 0..(Len(log') - 1)
  BY <1>3
<1>5. Promised!TypeOK'
  BY <1>3, <1>4 DEF Readers, PInv, Promised!TypeOK, Promised!Send, Promised!readerVars
<1>6. Delivered'
  BY DEF Readers, PInv, Delivered, Promised!Send, Promised!readerVars
<1> QED BY <1>5, <1>6 DEF Readers, PInv, MayObserve, Promised!Send

(* A new group need not be given what is before it; a known one goes on at  *)
(* its position.                                                            *)
LEMMA JoinKeeps ==
    ASSUME Promised!Parameters, PInv, NEW g \in Groups, NEW asObserver \in BOOLEAN,
           asObserver => g \in Observers, Promised!Join(g, asObserver)
    PROVE  PInv'
<1> DEFINE from == IF g \in groups THEN position[g] ELSE Len(log)
<1>1. from \in 0..Len(log) /\ Len(log) \in Nat
  BY DEF Readers, PInv, Promised!TypeOK
<1>2. Promised!TypeOK'
  <2>1. seen' \in [Groups -> SUBSET (0..(Len(log) - 1))]
    BY <1>1 DEF Readers, PInv, Promised!TypeOK, Promised!Join
  <2> QED BY <1>1, <2>1 DEF Readers, PInv, Promised!TypeOK, Promised!Join
<1>3. ASSUME NEW h \in groups' \ Observers
      PROVE  /\ 0..(position'[h] - 1) \subseteq seen'[h]
             /\ h \in Readers' => 0..(next'[h] - 1) \subseteq seen'[h]
  <2>1. CASE h = g
    <3>1. position'[h] = from /\ next'[h] = from
      BY <2>1 DEF Readers, PInv, Promised!TypeOK, Promised!Join
    <3>2. 0..(from - 1) \subseteq seen'[h]
      BY <1>1, <1>3, <2>1 DEF Readers, PInv, Promised!TypeOK, Delivered, Promised!Join
    <3> QED BY <3>1, <3>2
  <2>2. CASE h # g
    <3>1. h \in groups \ Observers /\ (h \in Readers' <=> h \in Readers)
      BY <1>3, <2>2 DEF Readers, Promised!Join
    <3>2. position'[h] = position[h] /\ next'[h] = next[h] /\ seen'[h] = seen[h]
      BY <2>2, <3>1 DEF Readers, PInv, Promised!TypeOK, Promised!Join
    <3> QED BY <3>1, <3>2 DEF Readers, PInv, Delivered
  <2> QED BY <2>1, <2>2
<1>4. MayObserve'
  BY DEF Readers, PInv, MayObserve, Promised!Join
<1> QED BY <1>2, <1>3, <1>4 DEF Readers, PInv, Delivered

(* What leaves is not promised anything. *)
LEMMA LeaveKeeps ==
    ASSUME PInv, NEW g \in Groups, Promised!Leave(g)
    PROVE  PInv'
<1>1. Promised!TypeOK'
  BY DEF Readers, PInv, Promised!TypeOK, Promised!Leave, Promised!readerVars
<1>2. Delivered'
  BY DEF Readers, PInv, Promised!TypeOK, Delivered, Promised!Leave, Promised!readerVars
<1> QED BY <1>1, <1>2 DEF Readers, PInv, MayObserve, Promised!Leave

(* A receiver that is not an observer is given every record it goes past. *)
LEMMA ReceiveKeeps ==
    ASSUME PInv, NEW g \in Groups, Promised!Receive(g)
    PROVE  PInv'
<1>0. next[g] \in Nat /\ Len(log) \in Nat
  BY DEF Readers, PInv, Promised!TypeOK
<1>1. PICK from \in next[g]..Len(log), to \in 0..Len(log) :
          /\ from <= to
          /\ g \notin observers => from = next[g]
          /\ next' = [next EXCEPT ![g] = to]
          /\ skipped' = [skipped EXCEPT ![g] = @ + (from - next[g])]
          /\ seen' = [seen EXCEPT ![g] = IF g \in observers THEN @
                                        ELSE @ \union from..(to - 1)]
  <2>1. PICK from \in next[g]..Len(log) :
            /\ g \notin observers => from = next[g]
            /\ \E to \in from..Len(log) :
                  /\ next' = [next EXCEPT ![g] = to]
                  /\ skipped' = [skipped EXCEPT ![g] = @ + (from - next[g])]
                  /\ seen' = [seen EXCEPT ![g] = IF g \in observers THEN @
                                                ELSE @ \union from..(to - 1)]
    BY DEF Readers, Promised!Receive
  <2>2. \A to \in from..Len(log) : to \in 0..Len(log) /\ from <= to
    BY <1>0
  <2> QED BY <2>1, <2>2
<1>2. next[g] \in Nat /\ Len(log) \in Nat /\ skipped[g] \in Nat
  BY DEF Readers, PInv, Promised!TypeOK
<1>3. from \in Nat /\ to \in Nat /\ next[g] <= from /\ from <= to /\ to <= Len(log)
  BY <1>1, <1>2
<1>4. Promised!TypeOK'
  <2>1. next' \in [Groups -> 0..Len(log)]
    BY <1>1, <1>3 DEF Readers, PInv, Promised!TypeOK
  <2>2. skipped' \in [Groups -> Nat]
    BY <1>1, <1>2, <1>3 DEF Readers, PInv, Promised!TypeOK
  <2>3. from..(to - 1) \subseteq 0..(Len(log) - 1)
    BY <1>2, <1>3
  <2>4. seen' \in [Groups -> SUBSET (0..(Len(log) - 1))]
    BY <1>1, <2>3 DEF Readers, PInv, Promised!TypeOK
  <2> QED BY <2>1, <2>2, <2>4 DEF Readers, PInv, Promised!TypeOK, Promised!Receive
<1>5. ASSUME NEW h \in groups' \ Observers
      PROVE  /\ 0..(position'[h] - 1) \subseteq seen'[h]
             /\ h \in Readers' => 0..(next'[h] - 1) \subseteq seen'[h]
  <2>1. h \in groups \ Observers /\ h \in Groups /\ position' = position /\ Readers' = Readers
    BY <1>5 DEF Readers, PInv, Promised!TypeOK, Promised!Receive
  <2>2. /\ 0..(position[h] - 1) \subseteq seen[h]
        /\ h \in Readers => 0..(next[h] - 1) \subseteq seen[h]
    BY <2>1 DEF Readers, PInv, Delivered
  <2>3. CASE h = g
    <3>1. CASE g \in observers
      BY <3>1, <2>1, <2>3 DEF Readers, PInv, MayObserve
    <3>2. CASE g \notin observers
      <4>1. from = next[g] /\ next'[h] = to /\ seen'[h] = seen[h] \union from..(to - 1)
        BY <1>1, <2>1, <2>3, <3>2 DEF Readers, PInv, Promised!TypeOK
      <4>2. g \in Readers
        BY DEF Readers, Promised!Receive
      <4>3. 0..(to - 1) \subseteq 0..(from - 1) \union from..(to - 1)
        BY <1>3
      <4> QED BY <2>1, <2>2, <2>3, <4>1, <4>2, <4>3
    <3> QED BY <3>1, <3>2
  <2>4. CASE h # g
    <3>1. next'[h] = next[h] /\ seen'[h] = seen[h]
      BY <1>1, <2>1, <2>4 DEF Readers, PInv, Promised!TypeOK
    <3> QED BY <2>1, <2>2, <3>1
  <2> QED BY <2>3, <2>4
<1> QED BY <1>4, <1>5 DEF Readers, PInv, Delivered, MayObserve, Promised!Receive

(* An acknowledgement only goes to what the group is past. *)
LEMMA AcknowledgeKeeps ==
    ASSUME Promised!Parameters, PInv, NEW g \in Groups, NEW offset \in 0..(MaxLog - 1),
           Promised!Acknowledge(g, offset)
    PROVE  PInv'
<1>1. /\ offset \in Nat /\ position[g] \in Nat /\ next[g] \in Nat /\ Len(log) \in Nat
      /\ position[g] <= Len(log) /\ next[g] <= Len(log) /\ offset < next[g]
  BY DEF Readers, PInv, Promised!TypeOK, Promised!Acknowledge, Promised!Received,
         Promised!Parameters
<1> DEFINE to == Promised!Larger(position[g], offset + 1)
<1>2. /\ to \in 0..Len(log) /\ (to = position[g] \/ to <= next[g])
  BY <1>1 DEF Readers, Promised!Larger
<1>3. position' = [position EXCEPT ![g] = to]
  BY DEF Readers, Promised!Acknowledge
<1> HIDE DEF Readers, to
<1>4. Promised!TypeOK'
  BY <1>2, <1>3 DEF Readers, PInv, Promised!TypeOK, Promised!Acknowledge, Promised!readerVars
<1>5. ASSUME NEW h \in groups' \ Observers
      PROVE  /\ 0..(position'[h] - 1) \subseteq seen'[h]
             /\ h \in Readers' => 0..(next'[h] - 1) \subseteq seen'[h]
  <2>1. h \in groups \ Observers /\ Readers' = Readers /\ next' = next /\ seen' = seen
    BY <1>5 DEF Readers, Promised!Acknowledge, Promised!readerVars
  <2>2. /\ 0..(position[h] - 1) \subseteq seen[h]
        /\ h \in Readers => 0..(next[h] - 1) \subseteq seen[h]
    BY <2>1 DEF Readers, PInv, Delivered
  <2>3. CASE h = g
    <3>1. g \in Readers /\ position'[h] = to
      BY <1>3, <2>3 DEF Readers, PInv, Promised!TypeOK, Promised!Acknowledge
    <3>2. to <= next[g] => 0..(to - 1) \subseteq 0..(next[g] - 1)
      BY <1>1, <1>2
    <3> QED BY <1>2, <2>1, <2>2, <2>3, <3>1, <3>2
  <2>4. CASE h # g
    <3>1. position'[h] = position[h]
      BY <1>3, <2>4
    <3> QED BY <2>1, <2>2, <3>1
  <2> QED BY <2>3, <2>4
<1> QED BY <1>4, <1>5 DEF Readers, PInv, Delivered, MayObserve, Promised!Acknowledge

(* A restart keeps positions, and no receiver is past anything after it. *)
LEMMA RestartKeeps ==
    ASSUME Promised!Parameters, PInv, NEW part \in Promised!Batches \union {<<>>},
           Promised!Restart(part)
    PROVE  PInv'
<1>1. part \in Seq(Payloads)
  BY BatchesAreSequences
<1>2. log \in Seq(Payloads)
  BY DEF Readers, PInv, Promised!TypeOK
<1>3. log' \in Seq(Payloads) /\ Len(log) <= Len(log') /\ Len(log) \in Nat /\ Len(log') \in Nat
  BY <1>1, <1>2, Appended DEF Readers, Promised!Restart, Promised!NoReceivers
<1>4. 0..Len(log) \subseteq 0..Len(log') /\ 0..(Len(log) - 1) \subseteq 0..(Len(log') - 1)
  BY <1>3
<1>5. Promised!TypeOK'
  BY <1>3, <1>4 DEF Readers, PInv, Promised!TypeOK, Promised!Restart, Promised!NoReceivers
<1>6. Delivered'
  BY DEF Readers, PInv, Delivered, Promised!Restart, Promised!NoReceivers
<1>7. MayObserve'
  BY DEF Readers, MayObserve, Promised!Restart, Promised!NoReceivers
<1> QED BY <1>5, <1>6, <1>7 DEF Readers, PInv

(* Nor is one past anything after a restart that acknowledged what its      *)
(* group was given, or removed the group.                                   *)
LEMMA RestartAcknowledgingKeeps ==
    ASSUME Promised!Parameters, PInv, NEW g \in Groups, NEW offset \in 0..(MaxLog - 1),
           Promised!RestartAcknowledging(g, offset)
    PROVE  PInv'
<1>1. /\ offset \in Nat /\ position[g] \in Nat /\ next[g] \in Nat /\ Len(log) \in Nat
      /\ position[g] <= Len(log) /\ next[g] <= Len(log) /\ offset < next[g]
  BY DEF Readers, PInv, Promised!TypeOK, Promised!RestartAcknowledging, Promised!Received,
         Promised!Parameters
<1> DEFINE to == Promised!Larger(position[g], offset + 1)
<1>2. /\ to \in 0..Len(log) /\ (to = position[g] \/ to <= next[g])
  BY <1>1 DEF Readers, Promised!Larger
<1>3. /\ position' = [position EXCEPT ![g] = to] /\ g \in Readers /\ g \in groups
      /\ groups' = groups /\ log' = log /\ seen' = seen /\ observers' = {} /\ Readers' = {}
      /\ next' = [h \in Groups |-> 0] /\ skipped' = [h \in Groups |-> 0]
  BY DEF Readers, Promised!RestartAcknowledging, Promised!NoReceivers
<1> HIDE DEF to
<1>4. Promised!TypeOK'
  BY <1>1, <1>2, <1>3 DEF Readers, PInv, Promised!TypeOK
<1>5. ASSUME NEW h \in groups \ Observers PROVE 0..(position'[h] - 1) \subseteq seen[h]
  <2>1. /\ 0..(position[h] - 1) \subseteq seen[h]
        /\ h \in Readers => 0..(next[h] - 1) \subseteq seen[h]
    BY DEF Readers, PInv, Delivered
  <2>2. CASE h = g
    <3>1. position'[h] = to
      BY <1>3, <2>2 DEF PInv, Promised!TypeOK
    <3>2. to <= next[g] => 0..(to - 1) \subseteq 0..(next[g] - 1)
      BY <1>1, <1>2
    <3> QED BY <1>2, <1>3, <2>1, <2>2, <3>1, <3>2
  <2>3. CASE h # g
    <3>1. position'[h] = position[h]
      BY <1>3, <2>3
    <3> QED BY <2>1, <3>1
  <2> QED BY <2>2, <2>3
<1>6. Delivered'
  BY <1>3, <1>5 DEF Readers, Delivered
<1>7. MayObserve'
  BY <1>3 DEF Readers, MayObserve
<1> QED BY <1>4, <1>6, <1>7 DEF PInv

LEMMA RestartLeavingKeeps ==
    ASSUME PInv, NEW g \in Groups, Promised!RestartLeaving(g)
    PROVE  PInv'
<1>1. Promised!TypeOK'
  BY DEF Readers, PInv, Promised!TypeOK, Promised!RestartLeaving, Promised!NoReceivers
<1>2. Delivered'
  BY DEF Readers, PInv, Promised!TypeOK, Delivered, Promised!RestartLeaving, Promised!NoReceivers
<1>3. MayObserve'
  BY DEF Readers, MayObserve, Promised!RestartLeaving, Promised!NoReceivers
<1> QED BY <1>1, <1>2, <1>3 DEF Readers, PInv

(* The other steps change only what a receiver holds and reports. *)
LEMMA OthersKeep ==
    ASSUME PInv, NEW g \in Groups, Promised!Call(g) \/ Promised!TakeSkipped(g)
    PROVE  PInv'
<1>1. Promised!TypeOK'
  <2>1. CASE Promised!Call(g)
    BY <2>1 DEF Readers, PInv, Promised!TypeOK, Promised!Call, Promised!topicVars
  <2>2. CASE Promised!TakeSkipped(g)
    <3>1. UNCHANGED <<log, groups, observers, position, seen, Readers, next>>
      BY <2>2 DEF Readers, Promised!TakeSkipped, Promised!topicVars
    <3>2. skipped' \in [Groups -> Nat]
      BY <2>2 DEF Readers, PInv, Promised!TypeOK, Promised!TakeSkipped
    <3> QED BY <3>1, <3>2 DEF Readers, PInv, Promised!TypeOK
  <2> QED BY <2>1, <2>2
<1>2. /\ UNCHANGED <<groups, observers, position, seen, Readers, next>>
  BY DEF Readers, Promised!Call, Promised!TakeSkipped, Promised!topicVars, Promised!readerVars
<1>3. Delivered' /\ MayObserve'
  BY <1>2 DEF Readers, PInv, Delivered, MayObserve
<1> QED BY <1>1, <1>3 DEF Readers, PInv

(* So does a step that changes nothing. *)
LEMMA StutteringKeeps == PInv /\ UNCHANGED Promised!vars => PInv'
BY DEF Readers, PInv, Promised!TypeOK, Delivered, MayObserve, Promised!vars,
       Promised!topicVars, Promised!readerVars

-----------------------------------------------------------------------------
(* A new topic has nothing to be given. *)
LEMMA InitIsCaught == Promised!Init => PInv
<1> SUFFICES ASSUME Promised!Init PROVE PInv
  OBVIOUS
<1>1. Len(log) = 0 /\ log \in Seq(Payloads)
  BY DEF Readers, Promised!Init
<1> QED BY <1>1 DEF Readers, Promised!Init, PInv, Promised!TypeOK, Delivered, MayObserve

(* Every step keeps the invariant. *)
LEMMA StepKeeps == Promised!Parameters /\ PInv /\ [Promised!Next]_(Promised!vars) => PInv'
<1> SUFFICES ASSUME Promised!Parameters, PInv, Promised!Next PROVE PInv'
  BY StutteringKeeps
<1>1. CASE \E batch \in Promised!Batches : Promised!Send(batch)
  BY <1>1, SendKeeps
<1>2. CASE \E g \in Holders : Promised!Join(g, FALSE)
  BY <1>2, JoinKeeps DEF Promised!Parameters
<1>3. CASE \E g \in Observers : Promised!Join(g, TRUE)
  BY <1>3, JoinKeeps DEF Promised!Parameters
<1>4. CASE \E g \in Groups : \/ Promised!Leave(g) \/ Promised!Call(g)
                             \/ Promised!Receive(g) \/ Promised!TakeSkipped(g)
  BY <1>4, LeaveKeeps, ReceiveKeeps, OthersKeep
<1>5. CASE \E g \in Groups, offset \in 0..(MaxLog - 1) : Promised!Acknowledge(g, offset)
  BY <1>5, AcknowledgeKeeps
<1>6. CASE \E part \in Promised!Batches \union {<<>>} : Promised!Restart(part)
  BY <1>6, RestartKeeps
<1>7. CASE \E g \in Groups, offset \in 0..(MaxLog - 1) : Promised!RestartAcknowledging(g, offset)
  BY <1>7, RestartAcknowledgingKeeps
<1>8. CASE \E g \in Groups : Promised!RestartLeaving(g)
  BY <1>8, RestartLeavingKeeps
<1> QED BY <1>1, <1>2, <1>3, <1>4, <1>5, <1>6, <1>7, <1>8 DEF Readers, Promised!Next

(* A topic that keeps the promise of goliath-pipe delivers to a group that   *)
(* holds it every record before what the group acknowledged, across restarts *)
(* and whatever the group acknowledges.                                      *)
THEOREM PromiseIsAtLeastOnce == Promised!Spec => []Promised!AtLeastOnce
<1>1. PInv => Promised!AtLeastOnce
  BY DEF Readers, PInv, Delivered, Promised!AtLeastOnce
<1>2. PInv /\ [Promised!Next]_(Promised!vars) => PInv'
  <2>1. Promised!Parameters
    BY GroupsAssumption, BoundsAssumption DEF Promised!Parameters
  <2> QED BY <2>1, StepKeeps
<1> QED BY <1>1, <1>2, InitIsCaught, PTL DEF Promised!Spec

-----------------------------------------------------------------------------
(* Wakeups.  Nobody looks again by himself, so a sleeper must have been    *)
(* woken, or be about to be, whenever it has something to do.  Where no    *)
(* group observes, room is only made by popping records, as long as a      *)
(* group is there: that is what Standing is for.                           *)
Served == \A s \in Senders : spc[s] # "idle" => Standing \subseteq groups

WInv == RInv /\ Served /\ NoMissedRelease /\ NoMissedArrival

(* What the topic holds for its groups now. *)
HeldNow == Held(groups, observers, position, base, End)

(* A group that stays, stays. *)
LEMMA ServedIsInvariant == TypeOK /\ Served /\ [Next]_vars => Served'
<1> SUFFICES ASSUME TypeOK, Served, [Next]_vars PROVE Served'
  OBVIOUS
<1>1. Standing \subseteq groups => Standing \subseteq groups'
  <2>1. ASSUME NEW g \in Groups, Subscribe(g) \/ Observe(g)
        PROVE  groups \subseteq groups'
    BY <2>1 DEF Subscribe, Observe, Receiver
  <2>2. ASSUME NEW g \in Groups, Unsubscribe(g)
        PROVE  groups' = groups \ {g} /\ g \notin Standing
    BY <2>2 DEF Unsubscribe
  <2>3. ASSUME NEW s \in Senders, TakeBatch(s)
        PROVE  groups' = groups
    BY <2>3 DEF TakeBatch
  <2>4. ASSUME NEW g \in Groups, NEW n \in Nat, Deliver(g, n) \/ Acknowledge(g, n)
        PROVE  groups' = groups
    BY <2>4 DEF Deliver, Acknowledge
  <2> QED BY <2>1, <2>2, <2>3, <2>4, Steps DEF topic
<1>2. ASSUME NEW s \in Senders, NEW batch \in Batches, Send(s, batch)
      PROVE  Standing \subseteq groups
  BY <1>2 DEF Send
<1>3. ASSUME NEW s \in Senders, TakeBatch(s) \/ Cancel(s) \/ Retry(s) \/ AwaitRoom(s) \/ NotifyArrived(s),
             NEW t \in Senders, spc'[t] # "idle"
      PROVE  spc[t] # "idle"
  BY <1>3 DEF TypeOK, TakeBatch, Cancel, Retry, AwaitRoom, NotifyArrived
<1> QED BY <1>1, <1>2, <1>3, SenderSteps DEF Served

(* Without observers the floor is the least position, if there is any; the *)
(* topic holds what is after it, and release goes up to it.                *)
LEMMA FloorOfHolders ==
    ASSUME NEW mine \in SUBSET Groups, mine # {}, NEW at \in [Groups -> Nat],
           NEW from \in Nat, NEW to \in Nat, \A g \in mine : at[g] <= to
    PROVE  /\ \E g \in mine : Floor(mine, {}, at, from, to) = at[g]
           /\ \A g \in mine : Floor(mine, {}, at, from, to) <= at[g]
           /\ Released(mine, {}, at, from, to) = Larger(from, Floor(mine, {}, at, from, to))
<1> DEFINE S == {at[g] : g \in mine}
           limit == IF to > Capacity THEN to - Capacity ELSE 0
           floor == Floor(mine, {}, at, from, to)
<1>1. S \in SUBSET Nat /\ S # {} /\ mine \ {} = mine /\ mine \intersect {} = {}
  OBVIOUS
<1>2. Min(S) \in S /\ \A y \in S : Min(S) <= y
  BY <1>1, MinOfOffsets
<1>3. floor = Min(S)
  BY <1>1 DEF Floor
<1>4. Observed(mine, {}, at, to) = to
  BY <1>1 DEF Observed
<1>5. limit \in Nat /\ limit <= to
  BY CapacityAssumption
<1>6. floor \in Nat /\ floor <= to
  <2> HIDE DEF floor
  <2> QED BY <1>1, <1>2, <1>3
<1>7. Released(mine, {}, at, from, to) = Larger(from, Smaller(floor, Larger(to, limit)))
  BY <1>4 DEF Released
<1> HIDE DEF floor, limit
<1>8. Larger(to, limit) = to /\ Smaller(floor, to) = floor
  BY <1>5, <1>6 DEF Larger, Smaller
<1> QED BY <1>2, <1>3, <1>7, <1>8 DEF floor

(* So room is made by popping records only: the topic holds no less after  *)
(* a step, or those that wait were woken, or are about to be.              *)
LEMMA RoomIsAnnounced ==
    ASSUME Observers = {}, TypeOK, Positions, TypeOK', Positions', [Next]_vars,
           groups # {}, groups' # {}
    PROVE  \/ HeldNow' >= HeldNow
           \/ \A s \in Senders : spc[s] = "waiting" => swoken'[s]
           \/ \E g \in Groups : rpc'[g] = "released"
<1> DEFINE F == Floor(groups, {}, position, base, End)
           G == Floor(groups', {}, position', base', End')
<1>1. observers = {} /\ observers' = {}
  BY DEF Positions
<1>2. /\ base \in Nat /\ base' \in Nat /\ End \in Nat /\ End' \in Nat
      /\ groups \in SUBSET Groups /\ groups' \in SUBSET Groups
      /\ position \in [Groups -> Nat] /\ position' \in [Groups -> Nat]
  <2>1. /\ base \in Nat /\ records \in Seq(Payloads) /\ base' \in Nat /\ records' \in Seq(Payloads)
        /\ groups \in SUBSET Groups /\ groups' \in SUBSET Groups
        /\ position \in [Groups -> Nat] /\ position' \in [Groups -> Nat]
    BY DEF TypeOK
  <2>2. End = base + Len(records) /\ End' = base' + Len(records')
    BY DEF End
  <2>3. Len(records) \in Nat /\ Len(records') \in Nat
    BY <2>1
  <2> QED BY <2>1, <2>2, <2>3
<1>3. /\ \A g \in groups : base <= position[g] /\ position[g] <= End
      /\ \A g \in groups' : base' <= position'[g] /\ position'[g] <= End'
  BY <1>2 DEF Positions, NothingHeldIsReleased
<1>4. /\ \E g \in groups : F = position[g]
      /\ \A g \in groups : F <= position[g]
  BY <1>2, <1>3, FloorOfHolders
<1>5. /\ \E g \in groups' : G = position'[g]
      /\ \A g \in groups' : G <= position'[g]
      /\ Released(groups', {}, position', base', End') = Larger(base', G)
  BY <1>2, <1>3, FloorOfHolders
<1>6. HeldNow = End - Larger(F, base) /\ HeldNow' = End' - Larger(G, base')
  BY <1>1 DEF HeldNow, Held
<1> HIDE DEF F, G
<1>7. F \in Nat /\ G \in Nat /\ base <= F /\ base' <= G /\ F <= End /\ G <= End'
  BY <1>2, <1>3, <1>4, <1>5
<1>8. HeldNow = End - F /\ HeldNow' = End' - G
  BY <1>2, <1>6, <1>7 DEF Larger
<1>9. ASSUME End' >= End, G <= F
      PROVE  HeldNow' >= HeldNow
  <2>1. \A a, b, f, g \in Nat : a >= b /\ g <= f => a - g >= b - f
    OBVIOUS
  <2>2. End' - G >= End - F
    BY <1>2, <1>7, <1>9, <2>1
  <2> QED BY <1>8, <2>2
<1>10. ASSUME NEW g \in Groups, Subscribe(g) \/ Observe(g)
       PROVE  HeldNow' >= HeldNow
  <2>1. /\ UNCHANGED <<base, records>> /\ groups \subseteq groups'
        /\ \A h \in groups : position'[h] = position[h]
    BY <1>2, <1>10 DEF Subscribe, Observe, Receiver
  <2>2. End' = End
    BY <2>1 DEF End
  <2>3. G <= F
    BY <1>4, <1>5, <2>1
  <2> QED BY <1>2, <1>9, <2>2, <2>3
<1>11. ASSUME NEW g \in Groups, Unsubscribe(g)
       PROVE  \/ HeldNow' >= HeldNow
              \/ \A s \in Senders : spc[s] = "waiting" => swoken'[s]
  <2>1. /\ groups' = groups \ {g}
        /\ base' = Released(groups', {}, position, base, End)
        /\ base' > base => WakeSenders
        /\ position' = [position EXCEPT ![g] = 0]
    BY <1>1, <1>11 DEF Unsubscribe
  <2>2. End' = End /\ base <= base'
    BY <1>11, QueueSteps
  <2>3. CASE base' > base
    BY <2>1, <2>3 DEF TypeOK, WakeSenders
  <2>4. CASE base' = base
    <3> DEFINE H == Floor(groups', {}, position, base, End)
    <3>1. /\ \A h \in groups' : position[h] <= End /\ position'[h] = position[h]
      BY <1>2, <1>3, <2>1
    <3>2. /\ \E h \in groups' : H = position[h]
          /\ \A h \in groups' : H <= position[h]
          /\ base' = Larger(base, H)
      <4>1. /\ \E h \in groups' : H = position[h]
            /\ \A h \in groups' : H <= position[h]
            /\ Released(groups', {}, position, base, End) = Larger(base, H)
        BY <1>2, <3>1, FloorOfHolders
      <4> QED BY <2>1, <4>1
    <3> HIDE DEF H
    <3>3. H \in Nat /\ H <= base
      BY <1>2, <2>4, <3>2 DEF Larger
    <3>4. G <= H
      BY <1>5, <3>1, <3>2
    <3> QED BY <1>2, <1>7, <1>9, <2>2, <3>3, <3>4
  <2> QED BY <1>2, <2>2, <2>3, <2>4
<1>12. ASSUME NEW s \in Senders, TakeBatch(s)
       PROVE  HeldNow' >= HeldNow
  <2>1. UNCHANGED <<groups, position>> /\ End' >= End
    <3>1. UNCHANGED <<groups, position>>
      BY <1>12 DEF TakeBatch
    <3>2. End' = End + Len(pending[s])
      BY <1>12, QueueSteps
    <3>3. Len(pending[s]) \in Nat
      BY DEF TypeOK
    <3> QED BY <1>2, <3>1, <3>2, <3>3
  <2>2. G <= F
    BY <1>4, <1>5, <2>1
  <2> QED BY <1>2, <1>9, <2>1, <2>2
<1>13. ASSUME NEW g \in Groups, NEW n \in Nat, Acknowledge(g, n)
       PROVE  HeldNow' >= HeldNow \/ rpc'[g] = "released"
  <2>1. /\ UNCHANGED groups
        /\ base' = Released(groups', {}, position', base, End)
        /\ base' > base => rpc'[g] = "released"
    BY <1>1, <1>13 DEF Acknowledge, TypeOK
  <2>2. End' = End /\ base <= base'
    BY <1>13, QueueSteps
  <2>3. CASE base' = base
    <3>1. base' = Larger(base', G)
      BY <1>5, <2>1, <2>2, <2>3
    <3> QED BY <1>2, <1>7, <1>9, <2>2, <2>3, <3>1 DEF Larger
  <2> QED BY <1>2, <2>1, <2>2, <2>3
<1>14. ASSUME NEW g \in Groups, NEW n \in Nat, Deliver(g, n)
       PROVE  HeldNow' = HeldNow
  BY <1>14 DEF Deliver, HeldNow, End
<1>15. ASSUME UNCHANGED <<topic, next>>
       PROVE  HeldNow' = HeldNow
  BY <1>15 DEF topic, HeldNow, End
<1>16. HeldNow \in Int
  BY <1>2, <1>7, <1>8
<1> QED BY <1>10, <1>11, <1>12, <1>13, <1>14, <1>15, <1>16, Steps

(* A sender that waits after a step waited before it, with the same batch  *)
(* and woken if it was, or has just found that its batch does not fit.     *)
LEMMA WaitersWait ==
    ASSUME TypeOK, TypeOK', [Next]_vars, NEW s \in Senders, spc'[s] = "waiting"
    PROVE  \/ AwaitRoom(s)
           \/ /\ spc[s] = "waiting" /\ pending'[s] = pending[s]
              /\ swoken[s] => swoken'[s]
<1>1. ASSUME NEW t \in Senders, NEW batch \in Batches, Send(t, batch)
      PROVE  spc[s] = "waiting" /\ pending'[s] = pending[s] /\ swoken'[s] = swoken[s]
  BY <1>1 DEF Send, TypeOK
<1>2. ASSUME NEW t \in Senders, TakeBatch(t) \/ Retry(t) \/ Cancel(t) \/ NotifyArrived(t)
      PROVE  spc[s] = "waiting" /\ pending'[s] = pending[s] /\ swoken'[s] = swoken[s]
  <2>1. CASE TakeBatch(t)
    BY <2>1 DEF TakeBatch, TypeOK
  <2>2. CASE Retry(t)
    BY <2>2 DEF Retry, TypeOK
  <2>3. CASE Cancel(t)
    BY <2>3 DEF Cancel, TypeOK
  <2>4. CASE NotifyArrived(t)
    BY <2>4 DEF NotifyArrived, TypeOK
  <2> QED BY <1>2, <2>1, <2>2, <2>3, <2>4
<1>3. ASSUME NEW t \in Senders, AwaitRoom(t)
      PROVE  \/ AwaitRoom(s)
             \/ spc[s] = "waiting" /\ pending'[s] = pending[s] /\ swoken'[s] = swoken[s]
  <2>1. CASE t = s
    BY <1>3, <2>1
  <2>2. CASE t # s
    BY <1>3, <2>2 DEF AwaitRoom, TypeOK
  <2> QED BY <2>1, <2>2
<1>4. ASSUME NEW g \in Groups, Unsubscribe(g) \/ NotifyReleased(g)
      PROVE  /\ spc[s] = "waiting" /\ pending'[s] = pending[s]
             /\ swoken[s] => swoken'[s]
  <2>1. spc' = spc /\ pending' = pending /\ (WakeSenders \/ UNCHANGED swoken)
    BY <1>4 DEF Unsubscribe, NotifyReleased
  <2> QED BY <2>1 DEF WakeSenders
<1>5. ASSUME NEW g \in Groups, NEW n,
             \/ Subscribe(g) \/ Observe(g) \/ Acknowledge(g, n)
             \/ Receive(g) \/ TakeSkipped(g) \/ ReceiveFails(g) \/ AwaitRecords(g)
             \/ Recheck(g) \/ TimeOut(g) \/ Deliver(g, n)
      PROVE  UNCHANGED senders
  BY <1>5 DEF Subscribe, Observe, Receiver, Acknowledge, Receive, TakeSkipped, ReceiveFails,
              AwaitRecords, Recheck, TimeOut, Deliver
<1>6. CASE UNCHANGED senders
  BY <1>6 DEF senders
<1>7. UNCHANGED vars => UNCHANGED senders
  BY DEF vars
<1> QED BY <1>1, <1>2, <1>3, <1>4, <1>5, <1>6, <1>7, GroupsAssumption DEF Next, SenderStep, ReceiverStep

(* A receiver that released records wakes the senders before it goes on. *)
LEMMA ReleasedWakes ==
    ASSUME TypeOK, [Next]_vars, NEW g \in Groups, rpc[g] = "released"
    PROVE  rpc'[g] = "released" \/ NotifyReleased(g)
<1>1. rpc \in [Groups -> ReceiverStates]
  BY DEF TypeOK
<1>2. ASSUME NEW h \in Groups, NEW n,
             \/ Subscribe(h) \/ Observe(h) \/ Acknowledge(h, n)
             \/ Receive(h) \/ ReceiveFails(h) \/ AwaitRecords(h)
             \/ Recheck(h) \/ TimeOut(h) \/ Deliver(h, n)
      PROVE  rpc[h] # "released" /\ \E x : rpc' = [rpc EXCEPT ![h] = x]
  BY <1>2 DEF Subscribe, Observe, Receiver, Acknowledge, Receive, ReceiveFails,
              AwaitRecords, Recheck, TimeOut, Deliver
<1>3. ASSUME NEW h \in Groups, NotifyReleased(h)
      PROVE  rpc' = [rpc EXCEPT ![h] = "idle"]
  BY <1>3 DEF NotifyReleased
<1>4. ASSUME NEW h \in Groups, Unsubscribe(h) \/ TakeSkipped(h)
      PROVE  UNCHANGED rpc
  BY <1>4 DEF Unsubscribe, TakeSkipped, receivers
<1>5. ASSUME NEW s \in Senders, NEW batch \in Batches, Send(s, batch)
      PROVE  UNCHANGED rpc
  BY <1>5 DEF Send, receivers
<1>6. ASSUME NEW s \in Senders, SenderStep(s) \/ Cancel(s)
      PROVE  UNCHANGED rpc
  BY <1>6 DEF SenderStep, TakeBatch, AwaitRoom, Retry, Cancel, NotifyArrived, receivers
<1>7. CASE UNCHANGED vars
  BY <1>7 DEF vars, receivers
<1>8. ASSUME NEW h \in Groups, rpc[h] # "released", NEW x, rpc' = [rpc EXCEPT ![h] = x]
      PROVE  rpc'[g] = "released"
  BY <1>1, <1>8
<1>9. ASSUME NEW h \in Groups, NotifyReleased(h), h # g
      PROVE  rpc'[g] = "released"
  BY <1>1, <1>3, <1>9
<1> QED BY <1>2, <1>4, <1>5, <1>6, <1>7, <1>8, <1>9, GroupsAssumption DEF Next, ReceiverStep

(* No step leaves a sender asleep whose batch would be taken. *)
LEMMA NoMissedReleaseIsInvariant ==
    ASSUME Observers = {}, Standing # {}, RInv, RInv', Served, Served', NoMissedRelease,
           [Next]_vars
    PROVE  NoMissedRelease'
<1>0. TypeOK /\ TypeOK' /\ Positions /\ Positions'
  BY DEF RInv, IInv
<1> SUFFICES ASSUME NEW s \in Senders, spc'[s] = "waiting", ~swoken'[s],
                    Fits(Len(pending[s]))'
             PROVE  \E g \in Groups : rpc'[g] = "released"
  BY DEF NoMissedRelease
<1> DEFINE n == Len(pending[s])
<1>1. HeldNow' = 0 \/ HeldNow' + n' <= Capacity
  BY DEF Fits, HeldNow
<1>2. CASE AwaitRoom(s)
  <2>1. ~(HeldNow = 0 \/ HeldNow + n <= Capacity)
    BY <1>2 DEF AwaitRoom, Fits, HeldNow
  <2>2. HeldNow' = HeldNow /\ n' = n
    BY <1>2 DEF AwaitRoom, topic, HeldNow, End
  <2> QED BY <1>1, <2>1, <2>2
<1>3. CASE /\ spc[s] = "waiting" /\ pending'[s] = pending[s]
           /\ swoken[s] => swoken'[s]
  <2>1. groups # {} /\ groups' # {}
    BY <1>3 DEF Served
  <2>2. CASE \E g \in Groups : rpc'[g] = "released"
    BY <2>2
  <2>3. CASE HeldNow' >= HeldNow
    <3>1. HeldNow \in Nat /\ HeldNow' \in Nat
      <4>1. ASSUME TypeOK, Positions
            PROVE  HeldNow \in Nat
        <5> DEFINE F == Floor(groups, observers, position, base, End)
        <5>1. base \in Nat /\ End \in Nat /\ base <= End /\ groups \in SUBSET Groups
          BY <4>1 DEF TypeOK, End
        <5>2. observers = {} /\ \A g \in groups : position[g] <= End
          BY <4>1 DEF Positions, TypeOK
        <5>3. F \in Nat /\ F <= End
          <6>1. CASE groups = {}
            BY <5>1, <5>2, <6>1 DEF Floor
          <6>2. CASE groups # {}
            <7>1. position \in [Groups -> Nat]
              BY <4>1 DEF TypeOK
            <7>2. \E g \in groups : F = position[g]
              BY <5>1, <5>2, <6>2, <7>1, FloorOfHolders
            <7> QED BY <5>1, <5>2, <7>1, <7>2
          <6> QED BY <6>1, <6>2
        <5> HIDE DEF F
        <5>4. HeldNow = End - Larger(F, base)
          BY DEF HeldNow, Held, F
        <5> QED BY <5>1, <5>3, <5>4 DEF Larger
      <4>2. HeldNow' \in Nat
        <5> DEFINE F == Floor(groups', observers', position', base', End')
        <5>1. base' \in Nat /\ End' \in Nat /\ base' <= End' /\ groups' \in SUBSET Groups
          BY <1>0 DEF TypeOK, End
        <5>2. observers' = {} /\ \A g \in groups' : position'[g] <= End'
          BY <1>0 DEF Positions, TypeOK
        <5>3. F \in Nat /\ F <= End'
          <6>1. position' \in [Groups -> Nat]
            BY <1>0 DEF TypeOK
          <6>2. \E g \in groups' : F = position'[g]
            BY <2>1, <5>1, <5>2, <6>1, FloorOfHolders
          <6> QED BY <5>1, <5>2, <6>1, <6>2
        <5> HIDE DEF F
        <5>4. HeldNow' = End' - Larger(F, base')
          BY DEF HeldNow, Held, F
        <5>5. \A a, b, f \in Nat : f <= a /\ b <= a => a - Larger(f, b) \in Nat
          BY DEF Larger
        <5>6. End' - Larger(F, base') \in Nat
          BY <5>1, <5>3, <5>5
        <5> QED BY <5>4, <5>6
      <4> QED BY <1>0, <4>1, <4>2
    <3>2. n \in Nat /\ n' = n /\ Capacity \in Nat
      BY <1>0, <1>3, CapacityAssumption DEF TypeOK
    <3> HIDE DEF n
    <3>3. HeldNow = 0 \/ HeldNow + n <= Capacity
      <4>1. \A a, b, c, m \in Nat : (a = 0 \/ a + m <= c) /\ a >= b => b = 0 \/ b + m <= c
        OBVIOUS
      <4> QED BY <1>1, <2>3, <3>1, <3>2, <4>1
    <3>4. Fits(Len(pending[s]))
      BY <3>3 DEF Fits, HeldNow, n
    <3>5. PICK g \in Groups : rpc[g] = "released"
      BY <1>3, <3>4 DEF NoMissedRelease
    <3>6. NotifyReleased(g) => swoken'[s]
      BY <1>3 DEF NotifyReleased, WakeSenders
    <3> QED BY <1>0, <3>5, <3>6, ReleasedWakes
  <2> QED BY <1>0, <1>3, <2>1, <2>2, <2>3, RoomIsAnnounced
<1> QED BY <1>0, <1>2, <1>3, WaitersWait

(* What is in the topic and not before the base is what a receiver finds:   *)
(* one that finds nothing has got to the end, also if it observes and was   *)
(* moved past records.                                                      *)
LEMMA NothingLeftToFind ==
    ASSUME RInv, Holders \intersect Observers = {}, NEW g \in Groups, AwaitRecords(g)
    PROVE  next[g] >= End
<1>0. /\ base \in Nat /\ End \in Nat /\ next[g] \in Nat /\ position[g] \in Nat
      /\ position[g] <= next[g] /\ Capacity \in Nat \ {0}
  BY CapacityAssumption DEF RInv, IInv, TypeOK, Ahead, End
<1>1. From(g) >= End /\ From(g) = IF next[g] > base THEN next[g] ELSE base
  BY DEF AwaitRecords, From, Larger
<1>2. CASE g \in observers
  <2>1. base > position[g] => End - base >= Capacity
    BY <1>2 DEF RInv, Spared
  <2> QED BY <1>0, <1>1, <2>1
<1>3. CASE g \notin observers
  BY <1>0, <1>1, <1>3, HoldersMissNothing DEF AwaitRecords
<1> QED BY <1>2, <1>3

(* A receiver that waits after a step waited before it and was not woken    *)
(* since, unless it was already, or has just found nothing.                 *)
LEMMA ReceiversWait ==
    ASSUME TypeOK, [Next]_vars, NEW g \in Groups, rpc'[g] = "waiting"
    PROVE  \/ AwaitRecords(g)
           \/ rpc[g] = "waiting" /\ next'[g] = next[g] /\ (rwoken[g] => rwoken'[g])
<1>1. ASSUME NEW h \in Groups, NEW n,
             \/ Subscribe(h) \/ Observe(h) \/ Acknowledge(h, n) \/ Receive(h)
             \/ ReceiveFails(h) \/ Recheck(h) \/ TimeOut(h) \/ NotifyReleased(h)
             \/ Deliver(h, n)
      PROVE  rpc[g] = "waiting" /\ next'[g] = next[g] /\ rwoken'[g] = rwoken[g]
  <2>1. PICK x \in ReceiverStates \ {"waiting"} : rpc' = [rpc EXCEPT ![h] = x]
    BY <1>1 DEF Subscribe, Observe, Receiver, Acknowledge, Receive, ReceiveFails, Recheck,
                TimeOut, NotifyReleased, Deliver, ReceiverStates
  <2>2. h # g /\ rpc[g] = "waiting"
    BY <2>1 DEF TypeOK
  <2>3. /\ next' = next \/ \E y : next' = [next EXCEPT ![h] = y]
        /\ rwoken' = rwoken \/ \E y : rwoken' = [rwoken EXCEPT ![h] = y]
    BY <1>1 DEF Subscribe, Observe, Receiver, Acknowledge, Receive, ReceiveFails, Recheck,
                TimeOut, NotifyReleased, Deliver
  <2> QED BY <2>2, <2>3 DEF TypeOK
<1>2. ASSUME NEW h \in Groups, AwaitRecords(h)
      PROVE  \/ AwaitRecords(g)
             \/ rpc[g] = "waiting" /\ next'[g] = next[g] /\ rwoken'[g] = rwoken[g]
  <2>1. CASE h = g
    BY <1>2, <2>1
  <2>2. CASE h # g
    BY <1>2, <2>2 DEF AwaitRecords, TypeOK
  <2> QED BY <2>1, <2>2
<1>3. ASSUME NEW h \in Groups, Unsubscribe(h) \/ TakeSkipped(h)
      PROVE  UNCHANGED <<rpc, next, rwoken>>
  BY <1>3 DEF Unsubscribe, TakeSkipped, receivers
<1>4. ASSUME NEW s \in Senders, NEW batch \in Batches, Send(s, batch)
      PROVE  UNCHANGED <<rpc, next, rwoken>>
  BY <1>4 DEF Send, receivers
<1>5. ASSUME NEW s \in Senders, TakeBatch(s) \/ AwaitRoom(s) \/ Retry(s) \/ Cancel(s)
      PROVE  UNCHANGED <<rpc, next, rwoken>>
  BY <1>5 DEF TakeBatch, AwaitRoom, Retry, Cancel, receivers
<1>6. ASSUME NEW s \in Senders, NotifyArrived(s)
      PROVE  rpc' = rpc /\ next' = next /\ (rwoken[g] => rwoken'[g])
  BY <1>6 DEF NotifyArrived, WakeReceivers
<1>7. CASE UNCHANGED vars
  BY <1>7 DEF vars, receivers
<1> QED BY <1>1, <1>2, <1>3, <1>4, <1>5, <1>6, <1>7, GroupsAssumption
        DEF Next, SenderStep, ReceiverStep

(* A sender that appended wakes the receivers before it returns. *)
LEMMA AppendedWakes ==
    ASSUME TypeOK, [Next]_vars, NEW s \in Senders, spc[s] = "appended"
    PROVE  spc'[s] = "appended" \/ NotifyArrived(s)
<1>1. spc \in [Senders -> SenderStates]
  BY DEF TypeOK
<1>2. ASSUME NEW t \in Senders, NEW batch \in Batches,
             Send(t, batch)
      PROVE  spc[t] # "appended" /\ \E x : spc' = [spc EXCEPT ![t] = x]
  BY <1>2 DEF Send
<1>3. ASSUME NEW t \in Senders, TakeBatch(t) \/ Cancel(t) \/ Retry(t) \/ AwaitRoom(t)
      PROVE  spc[t] # "appended" /\ \E x : spc' = [spc EXCEPT ![t] = x]
  BY <1>3 DEF TakeBatch, Cancel, Retry, AwaitRoom
<1>4. ASSUME NEW t \in Senders, spc[t] # "appended", NEW x, spc' = [spc EXCEPT ![t] = x]
      PROVE  spc'[s] = "appended"
  BY <1>1, <1>4
<1>5. ASSUME NEW t \in Senders, NotifyArrived(t), t # s
      PROVE  spc'[s] = "appended"
  BY <1>1, <1>5 DEF NotifyArrived
<1> QED BY <1>2, <1>3, <1>4, <1>5, SenderSteps

(* The topic only gets longer by a batch that was appended. *)
LEMMA LongerIsAppended ==
    ASSUME TypeOK, Positions, [Next]_vars
    PROVE  End' = End \/ \E s \in Senders : spc'[s] = "appended"
<1>1. ASSUME NEW g \in Groups, Subscribe(g) \/ Observe(g)
      PROVE  End' = End
  BY <1>1 DEF Subscribe, Observe, Receiver, End
<1>2. ASSUME NEW g \in Groups, NEW n \in Nat, Unsubscribe(g) \/ Acknowledge(g, n)
      PROVE  End' = End
  BY <1>2, QueueSteps
<1>3. ASSUME NEW g \in Groups, NEW n \in Nat, Deliver(g, n)
      PROVE  End' = End
  BY <1>3 DEF Deliver, End
<1>4. ASSUME NEW s \in Senders, TakeBatch(s)
      PROVE  spc'[s] = "appended"
  BY <1>4 DEF TakeBatch, TypeOK
<1>5. CASE UNCHANGED <<topic, next>>
  BY <1>5 DEF topic, End
<1> QED BY <1>1, <1>2, <1>3, <1>4, <1>5, Steps

(* No step leaves a receiver asleep on records. *)
LEMMA NoMissedArrivalIsInvariant ==
    ASSUME Holders \intersect Observers = {}, RInv, NoMissedArrival, [Next]_vars
    PROVE  NoMissedArrival'
<1>0. TypeOK /\ Positions
  BY DEF RInv, IInv
<1> SUFFICES ASSUME NEW g \in groups', rpc'[g] = "waiting", ~rwoken'[g], next'[g] < End',
                    ~\E s \in Senders : spc'[s] = "appended"
             PROVE  FALSE
  BY DEF NoMissedArrival
<1>1. End' = End
  BY <1>0, LongerIsAppended
<1>2. g \in Groups
  <2>1. TypeOK'
    BY <1>0, TypeIsInvariant
  <2> QED BY <2>1 DEF TypeOK
<1>3. CASE AwaitRecords(g)
  <2>1. next[g] >= End
    BY <1>2, <1>3, NothingLeftToFind
  <2>2. next'[g] = next[g] /\ next[g] \in Nat /\ End \in Nat
    BY <1>0, <1>2, <1>3 DEF AwaitRecords, TypeOK, End
  <2> QED BY <1>1, <2>1, <2>2
<1>4. CASE rpc[g] = "waiting" /\ next'[g] = next[g] /\ (rwoken[g] => rwoken'[g])
  <2>1. g \in groups
    <3>1. ASSUME NEW h \in Groups, Subscribe(h) \/ Observe(h)
          PROVE  h # g /\ groups' = groups \union {h}
      <4>1. rpc' = [rpc EXCEPT ![h] = "idle"] /\ groups' = groups \union {h}
        BY <3>1 DEF Subscribe, Observe, Receiver
      <4> QED BY <1>0, <1>2, <4>1 DEF TypeOK
    <3>2. ASSUME NEW h \in Groups, Unsubscribe(h)
          PROVE  groups' \subseteq groups
      BY <3>2 DEF Unsubscribe
    <3>3. ASSUME NEW s \in Senders, TakeBatch(s)
          PROVE  groups' = groups
      BY <3>3 DEF TakeBatch
    <3>4. ASSUME NEW h \in Groups, NEW n \in Nat, Deliver(h, n) \/ Acknowledge(h, n)
          PROVE  groups' = groups
      BY <3>4 DEF Deliver, Acknowledge
    <3> QED BY <3>1, <3>2, <3>3, <3>4, Steps DEF topic
  <2>2. PICK s \in Senders : spc[s] = "appended"
    BY <1>1, <1>4, <2>1 DEF NoMissedArrival
  <2>3. NotifyArrived(s) => rwoken'[g]
    BY <1>2, <1>4 DEF NotifyArrived, WakeReceivers
  <2> QED BY <1>0, <2>2, <2>3, AppendedWakes
<1> QED BY <1>0, <1>2, <1>3, <1>4, ReceiversWait

(* In the beginning nobody sleeps, ... *)
LEMMA WakeupsBegin ==
    ASSUME Holders \intersect Observers = {}
    PROVE  Init => WInv
<1> SUFFICES ASSUME Init PROVE WInv
  OBVIOUS
<1>1. RInv
  BY RInvBegins
<1> QED BY <1>1 DEF Init, WInv, Served, NoMissedRelease, NoMissedArrival

(* ... and no step makes anybody miss what it waits for. *)
LEMMA WakeupsKeep ==
    ASSUME Observers = {}, Standing # {}
    PROVE  WInv /\ [Next]_vars => WInv'
<1> SUFFICES ASSUME WInv, [Next]_vars PROVE WInv'
  OBVIOUS
<1>1. Holders \intersect Observers = {}
  OBVIOUS
<1>2. RInv'
  BY <1>1, RInvKeeps DEF WInv
<1>3. Served'
  BY ServedIsInvariant DEF WInv, RInv, IInv
<1>4. NoMissedArrival'
  BY <1>1, NoMissedArrivalIsInvariant DEF WInv
<1>5. NoMissedRelease'
  BY <1>2, <1>3, NoMissedReleaseIsInvariant DEF WInv
<1> QED BY <1>2, <1>3, <1>4, <1>5 DEF WInv

(* In memory nobody sleeps on what is there for him: no sender while its   *)
(* batch would be taken, no receiver on records, unless whoever made room  *)
(* or appended is still about to wake him.  Some group is there when       *)
(* records are sent, and none observes.                                    *)
THEOREM SleepersAreWoken ==
    ASSUME Observers = {}, Standing # {}
    PROVE  Spec => [](NoMissedRelease /\ NoMissedArrival)
<1>1. Init => WInv
  BY WakeupsBegin
<1>2. WInv /\ [Next]_vars => WInv'
  BY WakeupsKeep
<1>3. WInv => NoMissedRelease /\ NoMissedArrival
  BY DEF WInv
<1> QED BY <1>1, <1>2, <1>3, PTL DEF Spec
=============================================================================
