--------------------------- MODULE DiskTopic_proofs ---------------------------
(***************************************************************************)
(* Files and index always agree with one another and with the log, for any *)
(* groups, records, sizes and bounds.  The argument is about the state the *)
(* process could open: while it runs, what the index lists; after a crash, *)
(* what opening makes of the files, the last of which may end in a part of *)
(* a batch.  Both are a chain of segments that hold the end of the log and *)
(* go back to the position of every holding group (Kept, Reaches).  What   *)
(* follows shows that every send that is taken leaves no more than the     *)
(* capacity in between, whatever a crash left there; that this is the      *)
(* topic goliath-pipe promises, step by step; and that nobody sleeps on    *)
(* what is there for him (WInv).                                           *)
(***************************************************************************)
EXTENDS DiskTopic, Integers, NaturalsInduction, WellFoundedInduction, FiniteSetTheorems,
        FunctionTheorems, SequenceTheorems, TLAPS

(* A set of numbers that is not empty has a least one. *)
LEMMA LeastOf ==
    ASSUME NEW S \in SUBSET Nat, S # {}
    PROVE  \E x \in S : \A y \in S : x <= y
<1>1. PICK x \in S : \A y \in S : ~(<<y, x>> \in OpToRel(<, Nat))
  BY NatLessThanWellFounded, WFMin
<1>2. \A y \in S : ~(y < x)
  BY <1>1 DEF OpToRel
<1> QED BY <1>2

(* Min is the least of a set of numbers that is not empty. *)
LEMMA MinIs ==
    ASSUME NEW S \in SUBSET Nat, S # {}
    PROVE  Min(S) \in S /\ \A y \in S : Min(S) <= y
BY LeastOf DEF Min

(* Max is the member that none exceeds. *)
LEMMA MaxIs ==
    ASSUME NEW S \in SUBSET Nat, NEW m \in S, \A y \in S : y <= m
    PROVE  Max(S) = m
<1>1. \A x \in S : (\A y \in S : x >= y) <=> x = m
  OBVIOUS
<1> QED BY <1>1 DEF Max

(* The first records of a file that are whole. *)
LEMMA WholeIs ==
    ASSUME NEW S, NEW records \in Seq(S)
    PROVE  \E n \in 0..Len(records) :
              /\ Whole(records) = SubSeq(records, 1, n)
              /\ \A i \in 1..n : records[i] # Torn
              /\ n < Len(records) => records[n + 1] = Torn
<1> DEFINE Cut == {j \in DOMAIN records : records[j] = Torn}
           Ends == {Len(records)} \union {i - 1 : i \in Cut}
<1>1. PICK len : len = Len(records) /\ len \in Nat /\ DOMAIN records = 1..len
  OBVIOUS
<1>2. \A j : j \in Cut <=> j \in 1..len /\ records[j] = Torn
  BY <1>1
<1>3. Whole(records) = SubSeq(records, 1, Min(Ends))
  BY Zenon DEF Whole
<1> HIDE DEF Cut
<1>4. \A y : y \in Ends <=> (y = len \/ \E j \in Cut : y = j - 1)
  BY <1>1
<1> HIDE DEF Ends
<1>5. \A y \in Ends : y \in 0..len
  <2>1. \A j \in Cut : j - 1 \in 0..len
    BY <1>1, <1>2
  <2>2. len \in 0..len
    BY <1>1
  <2> QED BY <1>4, <2>1, <2>2
<1>6. Ends \in SUBSET Nat /\ Ends # {}
  <2>1. 0..len \subseteq Nat
    BY <1>1
  <2> QED BY <1>4, <1>5, <2>1
<1>7. PICK n \in Ends : n = Min(Ends) /\ \A y \in Ends : n <= y
  BY <1>6, MinIs
<1>8. n \in 0..len /\ Whole(records) = SubSeq(records, 1, n)
  BY <1>3, <1>5, <1>7
<1>9. ASSUME NEW i \in 1..n, records[i] = Torn PROVE FALSE
  <2>1. i \in 1..len /\ i \in Nat /\ n \in Nat /\ i <= n
    BY <1>1, <1>8
  <2>2. i - 1 \in Ends
    BY <1>2, <1>4, <1>9, <2>1
  <2>3. n <= i - 1
    BY <1>7, <2>2
  <2> QED BY <2>1, <2>3
<1>10. ASSUME n < len PROVE records[n + 1] = Torn
  <2>1. n # len
    BY <1>1, <1>8, <1>10
  <2>2. PICK j \in Cut : n = j - 1
    BY <1>4, <2>1
  <2>3. j \in Nat /\ n + 1 = j
    BY <1>1, <1>2, <2>2
  <2> QED BY <1>2, <2>3
<1> QED BY <1>1, <1>8, <1>9, <1>10

(* A file without a torn record is whole. *)
LEMMA WholeIsAll ==
    ASSUME NEW S, NEW records \in Seq(S), Torn \notin S
    PROVE  Whole(records) = records
<1>1. PICK n \in 0..Len(records) :
              /\ Whole(records) = SubSeq(records, 1, n)
              /\ n < Len(records) => records[n + 1] = Torn
  BY WholeIs
<1>2. n = Len(records)
  <2>1. CASE n < Len(records)
    <3>1. n + 1 \in 1..Len(records)
      BY <2>1
    <3>2. records[n + 1] \in S
      BY <3>1
    <3> QED BY <1>1, <2>1, <3>2
  <2> QED BY <2>1
<1>3. SubSeq(records, 1, Len(records)) = records
  OBVIOUS
<1> QED BY <1>1, <1>2, <1>3

(* A torn record at the end is all that is left out. *)
LEMMA WholeLeavesTorn ==
    ASSUME NEW S, NEW records \in Seq(S), Torn \notin S
    PROVE  Whole(Append(records, Torn)) = records
<1> DEFINE all == Append(records, Torn)
<1>1. all \in Seq(S \union {Torn}) /\ Len(all) = Len(records) + 1 /\ Len(records) \in Nat
  OBVIOUS
<1>2. \A i \in 1..Len(records) : all[i] = records[i] /\ all[i] # Torn
  OBVIOUS
<1>3. all[Len(records) + 1] = Torn
  OBVIOUS
<1>4. SubSeq(all, 1, Len(records)) = records
  OBVIOUS
<1> HIDE DEF all
<1>5. PICK n \in 0..Len(all) :
              /\ Whole(all) = SubSeq(all, 1, n)
              /\ \A i \in 1..n : all[i] # Torn
              /\ n < Len(all) => all[n + 1] = Torn
  BY <1>1, WholeIs
<1>6. n = Len(records)
  <2>1. CASE n < Len(records)
    <3>1. n + 1 \in 1..Len(records)
      BY <2>1, <1>1
    <3> QED BY <1>1, <1>2, <1>5, <2>1, <3>1
  <2>2. CASE n > Len(records)
    <3>1. Len(records) + 1 \in 1..n
      BY <2>2, <1>1
    <3> QED BY <1>3, <1>5, <3>1
  <2> QED BY <2>1, <2>2, <1>1
<1>7. Whole(all) = records
  BY <1>4, <1>5, <1>6
<1> QED BY <1>7 DEF all

-----------------------------------------------------------------------------
(* The place of a number in a set, and the set in order. *)
Place(S, x) == Cardinality({y \in S : y < x})

(* The place of a member is a number below the size of the set. *)
LEMMA PlaceIs ==
    ASSUME NEW S \in SUBSET Nat, IsFiniteSet(S), NEW x \in S
    PROVE  Place(S, x) \in 0..(Cardinality(S) - 1)
<1> DEFINE B == {y \in S : y < x}
<1>1. B \in SUBSET S /\ x \notin B /\ B # S
  OBVIOUS
<1>2. IsFiniteSet(B) /\ Cardinality(B) <= Cardinality(S) /\ Cardinality(B) # Cardinality(S)
  <2> HIDE DEF B
  <2> QED BY <1>1, FS_Subset
<1>3. Cardinality(B) \in Nat /\ Cardinality(S) \in Nat
  BY <1>2, FS_CardinalityType
<1>4. Place(S, x) = Cardinality(B)
  BY DEF Place
<1> HIDE DEF B
<1> QED BY <1>2, <1>3, <1>4

(* A larger member has a later place. *)
LEMMA PlaceGrows ==
    ASSUME NEW S \in SUBSET Nat, IsFiniteSet(S), NEW x \in S, NEW z \in S, x < z
    PROVE  Place(S, x) < Place(S, z)
<1> DEFINE B == {y \in S : y < x}
           C == {y \in S : y < z}
<1>1. B \in SUBSET C /\ x \in C /\ x \notin B /\ C \in SUBSET S
  <2>1. \A y \in S : y \in Nat /\ (y < x => y < z)
    OBVIOUS
  <2>2. x < z /\ ~(x < x)
    OBVIOUS
  <2> QED BY <2>1, <2>2
<1>2. IsFiniteSet(C)
  BY <1>1, FS_Subset
<1>3. IsFiniteSet(B) /\ Cardinality(B) <= Cardinality(C) /\ Cardinality(B) # Cardinality(C)
  BY <1>1, <1>2, FS_Subset
<1>4. Cardinality(B) \in Nat /\ Cardinality(C) \in Nat
  BY <1>2, <1>3, FS_CardinalityType
<1> QED BY <1>3, <1>4 DEF Place

(* No two members have the same place. *)
LEMMA PlacesDiffer ==
    ASSUME NEW S \in SUBSET Nat, IsFiniteSet(S), NEW x \in S, NEW z \in S,
           Place(S, x) = Place(S, z)
    PROVE  x = z
<1>1. Place(S, x) \in 0..(Cardinality(S) - 1) /\ Cardinality(S) \in Nat
  BY PlaceIs, FS_CardinalityType
<1>2. CASE x < z
  BY <1>1, <1>2, PlaceGrows
<1>3. CASE z < x
  <2>1. Place(S, z) < Place(S, x)
    BY <1>3, PlaceGrows
  <2> QED BY <1>1, <2>1
<1> QED BY <1>2, <1>3

(* InOrder gives every member once, each at its place. *)
LEMMA InOrderIs ==
    ASSUME NEW S \in SUBSET Nat, IsFiniteSet(S)
    PROVE  /\ InOrder(S) \in Seq(S) /\ Len(InOrder(S)) = Cardinality(S)
           /\ \A i \in 1..Cardinality(S) : InOrder(S)[i] \in S /\ Place(S, InOrder(S)[i]) = i - 1
<1> DEFINE n == Cardinality(S)
           place == [x \in S |-> Place(S, x)]
<1>1. n \in Nat
  BY FS_CardinalityType
<1>2. place \in [S -> 0..(n - 1)]
  BY PlaceIs
<1>3. \A x, z \in S : place[x] = place[z] => x = z
  BY PlacesDiffer
<1>4. place \in Injection(S, 0..(n - 1))
  BY <1>2, <1>3, Fun_IsInj
<1>5. IsFiniteSet(0..(n - 1)) /\ Cardinality(0..(n - 1)) = n
  <2>1. 0 \in Int /\ n - 1 \in Int
    BY <1>1
  <2> QED BY <1>1, <2>1, FS_Interval
<1>6. place \in Surjection(S, 0..(n - 1))
  BY <1>4, <1>5, FS_Injection
<1>7. \A k \in 0..(n - 1) : \E x \in S : place[x] = k
  <2> HIDE DEF place, n
  <2> QED BY <1>6 DEF Surjection
<1> DEFINE nth(i) == CHOOSE x \in S : Cardinality({y \in S : y < x}) = i - 1
<1>8. InOrder(S) = [i \in 1..n |-> nth(i)]
  BY Zenon DEF InOrder
<1>9. ASSUME NEW i \in 1..n PROVE nth(i) \in S /\ Place(S, nth(i)) = i - 1
  <2>1. i - 1 \in 0..(n - 1)
    BY <1>1
  <2>2. \E x \in S : Place(S, x) = i - 1
    BY <2>1, <1>7
  <2>3. nth(i) = CHOOSE x \in S : Place(S, x) = i - 1
    BY Zenon DEF Place
  <2> HIDE DEF nth
  <2> QED BY <2>2, <2>3
<1> HIDE DEF nth, n
<1>10. \A i \in 1..n : InOrder(S)[i] = nth(i)
  BY <1>8
<1>11. InOrder(S) \in [1..n -> S]
  BY <1>8, <1>9
<1>12. InOrder(S) \in Seq(S) /\ Len(InOrder(S)) = n
  BY <1>1, <1>11
<1> QED BY <1>9, <1>10, <1>12 DEF n

Entries == [base : Nat, count : Nat]

(* Segments that follow one another, of which only the last may be empty. *)
Chain(segs) ==
    /\ segs \in Seq(Entries) /\ Len(segs) > 0
    /\ \A i \in 1..(Len(segs) - 1) : segs[i].count > 0 /\ segs[i + 1].base = EndOf(segs[i])
    /\ \A i, j \in 1..Len(segs) : i < j => /\ EndOf(segs[i]) <= segs[j].base
                                           /\ segs[i].base < segs[j].base

Bases(segs) == {segs[i].base : i \in 1..Len(segs)}

(* Files of whole records, as the index has them. *)
Lists(segs, fs) ==
    /\ Chain(segs)
    /\ fs \in [Bases(segs) -> Seq(Payloads)]
    /\ \A i \in 1..Len(segs) : Len(fs[segs[i].base]) = segs[i].count

(* What every segment of a chain is, between the first and the last. *)
LEMMA Chained ==
    ASSUME NEW segs, Chain(segs)
    PROVE  /\ Len(segs) \in Nat \ {0}
           /\ \A i \in 1..Len(segs) : /\ segs[i] \in Entries
                                      /\ segs[i].base \in Nat /\ segs[i].count \in Nat
                                      /\ EndOf(segs[i]) \in Nat
                                      /\ segs[i].base <= EndOf(segs[i])
                                      /\ Base(segs) <= segs[i].base
                                      /\ segs[i].base <= Last(segs).base
                                      /\ EndOf(segs[i]) <= End(segs)
           /\ \A i \in 1..Len(segs) : EndOf(segs[i]) = segs[i].base + segs[i].count
           /\ \A i \in 1..(Len(segs) - 1) : EndOf(segs[i]) <= Last(segs).base
           /\ Last(segs) = segs[Len(segs)]
           /\ Base(segs) \in Nat /\ End(segs) \in Nat /\ Base(segs) <= End(segs)
           /\ End(segs) = EndOf(Last(segs)) /\ Last(segs).base \in Bases(segs)
           /\ Last(segs).base \in Nat /\ Last(segs).count \in Nat
<1>1. Len(segs) \in Nat \ {0}
  <2>1. segs \in Seq(Entries) /\ Len(segs) > 0
    BY DEF Chain
  <2>2. Len(segs) \in Nat
    BY <2>1
  <2> QED BY <2>1, <2>2
<1>2. \A i \in 1..Len(segs) : segs[i] \in Entries
  <2>1. segs \in Seq(Entries)
    BY DEF Chain
  <2> QED BY <2>1
<1>3. \A i \in 1..Len(segs) : segs[i].base \in Nat /\ segs[i].count \in Nat
  BY <1>2 DEF Entries
<1>4. \A i \in 1..Len(segs) : EndOf(segs[i]) = segs[i].base + segs[i].count
  BY DEF EndOf
<1>5. \A i \in 1..Len(segs) : EndOf(segs[i]) \in Nat /\ segs[i].base <= EndOf(segs[i])
  BY <1>3, <1>4
<1>6. 1 \in 1..Len(segs) /\ Len(segs) \in 1..Len(segs)
  BY <1>1
<1>7. \A i \in 1..Len(segs) : Base(segs) <= segs[i].base
  <2> TAKE i \in 1..Len(segs)
  <2>1. CASE i = 1
    BY <2>1, <1>3 DEF Base
  <2>2. CASE i # 1
    <3>1. 1 < i
      BY <2>2
    <3>2. segs[1].base < segs[i].base
      BY <3>1, <1>6 DEF Chain
    <3> QED BY <3>2, <1>3, <1>6 DEF Base
  <2> QED BY <2>1, <2>2
<1>8. Last(segs) = segs[Len(segs)] /\ End(segs) = EndOf(segs[Len(segs)])
  BY DEF Last, End
<1>9. \A i \in 1..(Len(segs) - 1) : EndOf(segs[i]) <= segs[Len(segs)].base
  <2> TAKE i \in 1..(Len(segs) - 1)
  <2>1. i \in 1..Len(segs) /\ i < Len(segs)
    BY <1>1
  <2> QED BY <2>1, <1>6 DEF Chain
<1>10. \A i \in 1..Len(segs) : /\ EndOf(segs[i]) <= EndOf(segs[Len(segs)])
                               /\ segs[i].base <= segs[Len(segs)].base
  <2> TAKE i \in 1..Len(segs)
  <2>1. CASE i = Len(segs)
    BY <2>1, <1>3, <1>5
  <2>2. CASE i # Len(segs)
    <3>1. i \in 1..(Len(segs) - 1)
      BY <2>2, <1>1
    <3>2. EndOf(segs[i]) <= segs[Len(segs)].base
      BY <3>1, <1>9
    <3> QED BY <3>2, <1>3, <1>5, <1>6
  <2> QED BY <2>1, <2>2
<1>11. Base(segs) = segs[1].base
  BY DEF Base
<1>12. Base(segs) \in Nat /\ End(segs) \in Nat /\ Base(segs) <= End(segs)
  BY <1>3, <1>5, <1>6, <1>8, <1>10, <1>11
<1>13. Last(segs).base \in Bases(segs)
  BY <1>6, <1>8 DEF Bases
<1> QED BY <1>1, <1>2, <1>3, <1>4, <1>5, <1>6, <1>7, <1>8, <1>9, <1>10, <1>12, <1>13

(* Two segments of a chain do not begin at the same place. *)
LEMMA BasesDiffer ==
    ASSUME NEW segs, Chain(segs), NEW i \in 1..Len(segs), NEW j \in 1..Len(segs),
           segs[i].base = segs[j].base
    PROVE  i = j
<1>1. segs[i].base \in Nat /\ segs[j].base \in Nat /\ Len(segs) \in Nat
  BY Chained
<1>2. CASE i < j
  BY <1>1, <1>2 DEF Chain
<1>3. CASE j < i
  BY <1>1, <1>3 DEF Chain
<1> QED BY <1>1, <1>2, <1>3

(* Every record between the first and the last is in one of the segments. *)
LEMMA Covered ==
    ASSUME NEW segs, Chain(segs), NEW offset \in Nat, Base(segs) <= offset, offset < End(segs)
    PROVE  \E i \in 1..Len(segs) : segs[i].base <= offset /\ offset < EndOf(segs[i])
<1> DEFINE After == {i \in 1..Len(segs) : offset < EndOf(segs[i])}
<1>1. Len(segs) \in After /\ After \in SUBSET Nat
  BY Chained
<1>2. PICK i \in After : \A j \in After : i <= j
  <2> HIDE DEF After
  <2> QED BY <1>1, LeastOf
<1>3. i \in 1..Len(segs) /\ offset < EndOf(segs[i]) /\ Len(segs) \in Nat
  BY Chained
<1>4. segs[i].base <= offset
  <2>1. CASE i = 1
    BY <2>1 DEF Base
  <2>2. CASE i # 1
    <3>1. i - 1 \in 1..(Len(segs) - 1) /\ i - 1 \in 1..Len(segs) /\ (i - 1) + 1 = i
      BY <2>2, <1>3
    <3>2. i - 1 \notin After
      <4> HIDE DEF After
      <4> QED BY <1>2, <1>3
    <3>3. EndOf(segs[i - 1]) \in Nat /\ ~(offset < EndOf(segs[i - 1]))
      BY <3>1, <3>2, Chained
    <3>4. segs[i].base = EndOf(segs[i - 1])
      BY <3>1 DEF Chain
    <3> QED BY <3>3, <3>4
  <2> QED BY <2>1, <2>2
<1> QED BY <1>3, <1>4

(* The bases of a chain, in order, are the bases of its segments. *)
LEMMA BasesInOrder ==
    ASSUME NEW segs, Chain(segs)
    PROVE  /\ Bases(segs) \in SUBSET Nat /\ IsFiniteSet(Bases(segs))
           /\ Cardinality(Bases(segs)) = Len(segs)
           /\ InOrder(Bases(segs)) = [i \in 1..Len(segs) |-> segs[i].base]
<1> DEFINE n == Len(segs)
           D == Bases(segs)
           base == [i \in 1..n |-> segs[i].base]
<1>1. n \in Nat \ {0} /\ \A i \in 1..n : segs[i].base \in Nat
  BY Chained
<1>2. \A i, j \in 1..n : segs[i].base = segs[j].base => i = j
  BY BasesDiffer
<1>3. D \in SUBSET Nat
  BY <1>1 DEF Bases
<1>4. \A k \in 0..n : /\ IsFiniteSet(1..k) /\ Cardinality(1..k) = k
                      /\ IsFiniteSet({segs[i].base : i \in 1..k})
                      /\ Cardinality({segs[i].base : i \in 1..k}) = k
  <2> TAKE k \in 0..n
  <2> DEFINE T == {segs[i].base : i \in 1..k}
             f == [i \in 1..k |-> segs[i].base]
  <2>1. k \in Nat /\ 1 \in Int /\ k \in Int /\ 1..k \subseteq 1..n
    BY <1>1
  <2>2. IsFiniteSet(1..k) /\ Cardinality(1..k) = k
    BY <2>1, FS_Interval
  <2>3. f \in [1..k -> T] /\ (\A t \in T : \E i \in 1..k : f[i] = t)
    OBVIOUS
  <2>4. \A i, j \in 1..k : f[i] = f[j] => i = j
    BY <1>2, <2>1
  <2>5. f \in Bijection(1..k, T)
    <3> HIDE DEF f, T
    <3> QED BY <2>3, <2>4, Fun_IsBij
  <2>6. ExistsBijection(1..k, T)
    BY <2>5, Fun_ExistsBij
  <2>7. IsFiniteSet(T) /\ Cardinality(T) = k
    <3> HIDE DEF T
    <3> QED BY <2>2, <2>6, FS_Bijection
  <2> QED BY <2>2, <2>7
<1>5. IsFiniteSet(D) /\ Cardinality(D) = n
  <2>1. n \in 0..n
    BY <1>1
  <2> QED BY <1>4, <2>1 DEF Bases
<1>6. \A i \in 1..n : segs[i].base \in D /\ Place(D, segs[i].base) = i - 1
  <2> TAKE i \in 1..n
  <2>1. segs[i].base \in D
    BY DEF Bases
  <2>2. {y \in D : y < segs[i].base} = {segs[j].base : j \in 1..(i - 1)}
    <3>1. \A j \in 1..n : segs[j].base < segs[i].base <=> j \in 1..(i - 1)
      <4> TAKE j \in 1..n
      <4>1. CASE j < i
        BY <4>1, <1>1 DEF Chain
      <4>2. CASE j = i
        BY <4>2, <1>1
      <4>3. CASE i < j
        BY <4>3, <1>1 DEF Chain
      <4> QED BY <1>1, <4>1, <4>2, <4>3
    <3>2. 1..(i - 1) \subseteq 1..n
      BY <1>1
    <3> QED BY <3>1, <3>2 DEF Bases
  <2>3. i - 1 \in 0..n
    BY <1>1
  <2>4. Place(D, segs[i].base) = Cardinality({y \in D : y < segs[i].base})
    BY DEF Place
  <2> QED BY <1>4, <2>1, <2>2, <2>3, <2>4
<1> HIDE DEF D
<1>7. \A i \in 1..n : InOrder(D)[i] = segs[i].base
  <2> TAKE i \in 1..n
  <2>1. \A j \in 1..Cardinality(D) : InOrder(D)[j] \in D /\ Place(D, InOrder(D)[j]) = j - 1
    BY <1>3, <1>5, InOrderIs
  <2>2. InOrder(D)[i] \in D /\ Place(D, InOrder(D)[i]) = i - 1
    <3> HIDE DEF n
    <3> QED BY <1>5, <2>1
  <2>3. segs[i].base \in D /\ Place(D, segs[i].base) = i - 1
    BY <1>6
  <2>4. \A x, z \in D : Place(D, x) = Place(D, z) => x = z
    BY <1>3, <1>5, PlacesDiffer
  <2> QED BY <2>2, <2>3, <2>4
<1>8. InOrder(D) = [i \in 1..n |-> InOrder(D)[i]]
  <2>1. InOrder(D) = [i \in 1..Cardinality(D) |-> InOrder(D)[i]]
    <3>1. InOrder(D) \in Seq(D) /\ Len(InOrder(D)) = Cardinality(D)
      BY <1>3, <1>5, InOrderIs
    <3> HIDE DEF D
    <3> QED BY <3>1
  <2>2. Cardinality(D) = n
    BY <1>5
  <2> HIDE DEF n
  <2> QED BY <2>1, <2>2
<1>9. InOrder(D) = base
  <2> HIDE DEF n
  <2> QED BY <1>7, <1>8
<1> QED BY <1>3, <1>5, <1>9 DEF D

(* The index that is read from the files is the one they are listed in. *)
LEMMA IndexedIs ==
    ASSUME NEW segs, NEW fs, Lists(segs, fs)
    PROVE  Indexed(fs) = segs
<1> DEFINE n == Len(segs)
           bases == InOrder(DOMAIN fs)
<1>1. Chain(segs) /\ DOMAIN fs = Bases(segs)
  BY DEF Lists
<1>2. bases = [i \in 1..n |-> segs[i].base]
  BY <1>1, BasesInOrder
<1>3. Indexed(fs) = [i \in DOMAIN bases |-> [base |-> bases[i], count |-> Len(fs[bases[i]])]]
  BY DEF Indexed
<1> HIDE DEF bases
<1>4. Indexed(fs) = [i \in 1..n |-> [base |-> segs[i].base, count |-> Len(fs[segs[i].base])]]
  BY <1>2, <1>3
<1>5. \A i \in 1..n : segs[i] = [base |-> segs[i].base, count |-> Len(fs[segs[i].base])]
  <2> TAKE i \in 1..n
  <2>1. segs[i] \in Entries
    BY <1>1, Chained
  <2>2. Len(fs[segs[i].base]) = segs[i].count
    BY DEF Lists
  <2> QED BY <2>1, <2>2 DEF Entries
<1>6. segs = [i \in 1..n |-> segs[i]]
  <2>1. segs \in Seq(Entries)
    BY <1>1 DEF Chain
  <2> QED BY <2>1
<1>7. [i \in 1..n |-> segs[i]] = [i \in 1..n |-> [base |-> segs[i].base, count |-> Len(fs[segs[i].base])]]
  <2> HIDE DEF n
  <2> QED BY <1>5
<1> QED BY <1>4, <1>6, <1>7

(* The floor is a number that no holding group is below. *)
LEMMA FloorIs ==
    ASSUME NEW segs, Chain(segs), NEW mine \in SUBSET Groups, NEW watching,
           NEW at \in [Groups -> Nat]
    PROVE  /\ Floor(segs, mine, watching, at) \in Nat
           /\ \A g \in mine \ watching : Floor(segs, mine, watching, at) <= at[g]
           /\ Observed(segs, mine, watching, at) \in Nat
<1> DEFINE S == {at[g] : g \in mine \ watching}
           W == {at[g] : g \in mine \intersect watching}
<1>1. S \in SUBSET Nat /\ W \in SUBSET Nat
  OBVIOUS
<1>2. Base(segs) \in Nat /\ End(segs) \in Nat
  BY Chained
<1>3. Observed(segs, mine, watching, at) \in Nat
  <2>1. CASE mine \intersect watching = {}
    BY <1>2, <2>1 DEF Observed
  <2>2. CASE mine \intersect watching # {}
    <3>1. W # {} /\ Observed(segs, mine, watching, at) = Min(W)
      BY <2>2 DEF Observed
    <3> HIDE DEF W
    <3> QED BY <1>1, <3>1, MinIs
  <2> QED BY <2>1, <2>2
<1>4. CASE mine \ watching # {}
  <2>1. S # {} /\ Floor(segs, mine, watching, at) = Min(S)
    BY <1>4 DEF Floor
  <2>2. \A g \in mine \ watching : at[g] \in S
    OBVIOUS
  <2> HIDE DEF S
  <2>3. Min(S) \in Nat /\ \A y \in S : Min(S) <= y
    BY <1>1, <2>1, MinIs
  <2> QED BY <1>3, <2>1, <2>2, <2>3
<1>5. CASE mine \ watching = {}
  <2>1. Floor(segs, mine, watching, at) \in {Base(segs), End(segs)}
    BY <1>5 DEF Floor
  <2> QED BY <1>2, <1>3, <1>5, <2>1
<1> QED BY <1>4, <1>5

(* What is released are the segments up to the first that may not be       *)
(* deleted, which there always is.                                         *)
LEMMA ReleasedIs ==
    ASSUME NEW segs, Chain(segs), NEW mine, NEW watching, NEW at
    PROVE  LET n == Released(segs, mine, watching, at)
               floor == Floor(segs, mine, watching, at)
               observed == Observed(segs, mine, watching, at)
           IN  /\ n \in 0..(Len(segs) - 1)
               /\ \A i \in 1..n : Deletable(segs, i, floor, observed)
               /\ ~Deletable(segs, n + 1, floor, observed)
<1> DEFINE n == Released(segs, mine, watching, at)
           floor == Floor(segs, mine, watching, at)
           observed == Observed(segs, mine, watching, at)
           Kept == {j \in 1..Len(segs) : ~Deletable(segs, j, floor, observed)}
           Ends == {Len(segs)} \union {i - 1 : i \in Kept}
<1>1. Len(segs) \in Nat \ {0}
  BY Chained
<1>2. Len(segs) \in Kept
  BY <1>1 DEF Deletable
<1>3. n = Min(Ends)
  BY Zenon DEF Released
<1>4. Kept \subseteq 1..Len(segs)
  OBVIOUS
<1> HIDE DEF n
<1>5. Ends \in SUBSET Nat /\ Len(segs) - 1 \in Ends
  <2> HIDE DEF Kept
  <2>1. \A i \in Kept : i - 1 \in Nat
    BY <1>1, <1>4
  <2> QED BY <1>1, <1>2, <2>1
<1>6. n \in Ends /\ \A y \in Ends : n <= y
  <2> HIDE DEF Ends
  <2> QED BY <1>3, <1>5, MinIs
<1>7. n \in 0..(Len(segs) - 1)
  <2> HIDE DEF Ends
  <2> QED BY <1>1, <1>5, <1>6
<1>8. n + 1 \in Kept
  <2>1. n # Len(segs)
    BY <1>1, <1>7
  <2>2. PICK i \in Kept : n = i - 1
    <3> HIDE DEF Kept
    <3> QED BY <1>6, <2>1
  <2>3. i = n + 1
    <3> HIDE DEF Kept
    <3> QED BY <1>1, <1>4, <2>2
  <2> QED BY <2>3
<1>9. \A i \in 1..n : i \notin Kept
  <2> SUFFICES ASSUME NEW i \in 1..n, i \in Kept PROVE FALSE
    OBVIOUS
  <2> HIDE DEF Kept
  <2>1. i - 1 \in Ends
    OBVIOUS
  <2>2. n <= i - 1
    <3> HIDE DEF Ends
    <3> QED BY <1>6, <2>1
  <2> QED BY <1>7, <2>2
<1>10. \A i \in 1..n : Deletable(segs, i, floor, observed)
  <2> HIDE DEF floor, observed
  <2>1. \A i \in 1..n : i \in 1..Len(segs)
    BY <1>1, <1>7
  <2> QED BY <1>9, <2>1
<1>11. ~Deletable(segs, n + 1, floor, observed)
  <2> HIDE DEF floor, observed
  <2> QED BY <1>8
<1> QED BY <1>7, <1>10, <1>11 DEF n

-----------------------------------------------------------------------------
(* What is left after a release. *)
LEMMA RestIsChain ==
    ASSUME NEW segs, Chain(segs), NEW n \in 0..(Len(segs) - 1)
    PROVE  LET rest == Without(segs, n) IN
           /\ Chain(rest)
           /\ Len(rest) = Len(segs) - n
           /\ \A i \in 1..Len(rest) : rest[i] = segs[n + i]
           /\ Base(rest) = segs[n + 1].base /\ rest[1] = segs[n + 1]
           /\ Last(rest) = Last(segs) /\ End(rest) = End(segs)
<1> DEFINE rest == SubSeq(segs, n + 1, Len(segs))
<1>0. Len(segs) \in Nat \ {0} /\ n \in Nat
  BY Chained
<1>1. segs \in Seq(Entries)
  BY DEF Chain
<1>2. rest \in Seq(Entries) /\ Len(rest) = Len(segs) - n
  BY <1>0, <1>1
<1>3. \A i \in 1..Len(rest) : rest[i] = segs[n + i] /\ n + i \in 1..Len(segs)
  BY <1>0, <1>1
<1>4. Without(segs, n) = rest
  BY DEF Without
<1> HIDE DEF rest
<1>5. Len(rest) > 0
  BY <1>0, <1>2
<1>6. \A i \in 1..(Len(rest) - 1) : rest[i].count > 0 /\ rest[i + 1].base = EndOf(rest[i])
  <2> TAKE i \in 1..(Len(rest) - 1)
  <2>1. i \in 1..Len(rest) /\ i + 1 \in 1..Len(rest) /\ n + i \in 1..(Len(segs) - 1)
        /\ (n + i) + 1 = n + (i + 1)
    BY <1>0, <1>2
  <2>2. rest[i] = segs[n + i] /\ rest[i + 1] = segs[(n + i) + 1]
    BY <1>3, <2>1
  <2>3. segs[n + i].count > 0 /\ segs[(n + i) + 1].base = EndOf(segs[n + i])
    BY <2>1 DEF Chain
  <2> QED BY <2>2, <2>3
<1>7. \A i, j \in 1..Len(rest) : i < j => /\ EndOf(rest[i]) <= rest[j].base
                                          /\ rest[i].base < rest[j].base
  <2> TAKE i, j \in 1..Len(rest)
  <2> HAVE i < j
  <2>1. n + i < n + j
    BY <1>0
  <2>2. n + i \in 1..Len(segs) /\ n + j \in 1..Len(segs)
    BY <1>3
  <2>3. EndOf(segs[n + i]) <= segs[n + j].base /\ segs[n + i].base < segs[n + j].base
    BY <2>1, <2>2 DEF Chain
  <2> QED BY <1>3, <2>3
<1>8. Chain(rest)
  BY <1>2, <1>5, <1>6, <1>7 DEF Chain
<1>9. rest[1] = segs[n + 1]
  <2>1. 1 \in 1..Len(rest)
    BY <1>0, <1>2
  <2> QED BY <1>3, <2>1
<1>10. Last(rest) = Last(segs)
  <2>1. Len(rest) \in 1..Len(rest) /\ n + Len(rest) = Len(segs)
    BY <1>0, <1>2
  <2>2. rest[Len(rest)] = segs[Len(segs)]
    BY <1>3, <2>1
  <2> QED BY <2>2 DEF Last
<1> QED BY <1>2, <1>3, <1>4, <1>8, <1>9, <1>10 DEF Base, End

(* The files that are left after a release are those of the index that     *)
(* is.                                                                     *)
LEMMA RestIsListed ==
    ASSUME NEW segs, NEW fs, Lists(segs, fs), NEW n \in 0..(Len(segs) - 1)
    PROVE  LET rest == Without(segs, n)
               left == FilesWithout(fs, segs, n)
           IN  /\ Lists(rest, left)
               /\ \A i \in (n + 1)..Len(segs) : segs[i].base \in Bases(rest)
               /\ Bases(rest) \subseteq Bases(segs)
               /\ \A b \in Bases(rest) : left[b] = fs[b]
<1> DEFINE rest == Without(segs, n)
           left == FilesWithout(fs, segs, n)
           gone == {segs[i].base : i \in 1..n}
<1>0. Chain(segs) /\ Len(segs) \in Nat \ {0} /\ n \in Nat /\ DOMAIN fs = Bases(segs)
  BY Chained DEF Lists
<1>1. /\ Chain(rest)
      /\ Len(rest) = Len(segs) - n
      /\ \A i \in 1..Len(rest) : rest[i] = segs[n + i]
  BY <1>0, RestIsChain
<1> HIDE DEF rest
<1>2. \A i \in (n + 1)..Len(segs) : segs[i].base \in Bases(rest)
  <2> TAKE i \in (n + 1)..Len(segs)
  <2>1. i - n \in 1..Len(rest) /\ n + (i - n) = i
    BY <1>0, <1>1
  <2>2. rest[i - n] = segs[i]
    BY <1>1, <2>1
  <2> QED BY <2>1, <2>2 DEF Bases
<1>3. Bases(rest) = Bases(segs) \ gone
  <2>1. ASSUME NEW b \in Bases(rest) PROVE b \in Bases(segs) /\ b \notin gone
    <3>1. PICK i \in 1..Len(rest) : b = rest[i].base
      BY DEF Bases
    <3>2. b = segs[n + i].base /\ n + i \in 1..Len(segs)
      BY <1>0, <1>1, <3>1
    <3>3. ASSUME NEW j \in 1..n, b = segs[j].base PROVE FALSE
      <4>1. j \in 1..Len(segs) /\ j # n + i
        BY <1>0
      <4> QED BY <1>0, <3>2, <3>3, <4>1, BasesDiffer
    <3> QED BY <3>2, <3>3 DEF Bases
  <2>2. ASSUME NEW b \in Bases(segs), b \notin gone PROVE b \in Bases(rest)
    <3>1. PICK i \in 1..Len(segs) : b = segs[i].base
      BY DEF Bases
    <3>2. i \notin 1..n
      BY <2>2, <3>1
    <3>3. i \in (n + 1)..Len(segs)
      BY <1>0, <3>2
    <3> QED BY <1>2, <3>1, <3>3
  <2> QED BY <2>1, <2>2
<1>4. left = [b \in Bases(rest) |-> fs[b]]
  BY <1>0, <1>3 DEF FilesWithout, Restrict
<1> HIDE DEF left
<1>5. left \in [Bases(rest) -> Seq(Payloads)]
  <2>1. \A b \in Bases(segs) : fs[b] \in Seq(Payloads)
    BY DEF Lists
  <2> QED BY <1>3, <1>4, <2>1
<1>6. \A b \in Bases(rest) : left[b] = fs[b]
  BY <1>4
<1>7. \A i \in 1..Len(rest) : Len(left[rest[i].base]) = rest[i].count
  <2> TAKE i \in 1..Len(rest)
  <2>1. rest[i] = segs[n + i] /\ n + i \in 1..Len(segs) /\ rest[i].base \in Bases(rest)
    BY <1>0, <1>1 DEF Bases
  <2>2. Len(fs[segs[n + i].base]) = segs[n + i].count
    BY <2>1 DEF Lists
  <2> QED BY <1>6, <2>1, <2>2
<1>8. Lists(rest, left)
  BY <1>1, <1>5, <1>7 DEF Lists
<1>9. Bases(rest) \subseteq Bases(segs)
  BY <1>3
<1> QED BY <1>2, <1>6, <1>8, <1>9 DEF rest, left

(* The index and the files once a batch is written to the last of them. *)
More(segs, n) == [segs EXCEPT ![Len(segs)].count = @ + n]
Longer(segs, fs, batch) == [fs EXCEPT ![Last(segs).base] = @ \o batch]

(* A batch makes the last segment longer and leaves the others. *)
LEMMA MoreIsChain ==
    ASSUME NEW segs, Chain(segs), NEW n \in Nat
    PROVE  LET more == More(segs, n) IN
           /\ Chain(more)
           /\ Len(more) = Len(segs)
           /\ \A i \in 1..Len(segs) : more[i].base = segs[i].base
           /\ \A i \in 1..(Len(segs) - 1) : more[i] = segs[i]
           /\ Last(more).count = Last(segs).count + n
           /\ Last(more).base = Last(segs).base
           /\ End(more) = End(segs) + n /\ Base(more) = Base(segs)
           /\ EndOf(segs[1]) <= EndOf(more[1])
           /\ Bases(more) = Bases(segs)
<1> DEFINE more == More(segs, n)
           m == Len(segs)
<1>0. m \in Nat \ {0} /\ segs \in Seq(Entries) /\ 1 \in 1..m /\ m \in 1..m
  <2>1. m \in Nat \ {0}
    BY Chained
  <2> QED BY <2>1 DEF Chain
<1>a. \A i \in 1..m : segs[i] \in Entries
  BY <1>0
<1>1. \A i \in 1..m : segs[i].base \in Nat /\ segs[i].count \in Nat
                      /\ segs[i] = [base |-> segs[i].base, count |-> segs[i].count]
  BY <1>a DEF Entries
<1>2. more = [i \in 1..m |-> IF i = m THEN [base |-> segs[m].base, count |-> segs[m].count + n]
                                      ELSE segs[i]]
  <2>1. DOMAIN segs = 1..m
    BY <1>0
  <2>2. [segs[m] EXCEPT !.count = @ + n] = [base |-> segs[m].base, count |-> segs[m].count + n]
    <3>1. PICK e : e = segs[m]
      OBVIOUS
    <3>2. PICK x, y : x = segs[m].base /\ y = segs[m].count
      OBVIOUS
    <3>3. e = [base |-> x, count |-> y]
      BY <1>0, <1>1, <3>1, <3>2
    <3>4. [e EXCEPT !.count = @ + n] = [base |-> x, count |-> y + n]
      BY <3>3
    <3> QED BY <3>1, <3>2, <3>4
  <2> QED BY <2>1, <2>2 DEF More
<1> HIDE DEF more
<1>3. more \in Seq(Entries) /\ Len(more) = m
  <2>1. \A i \in 1..m : (IF i = m THEN [base |-> segs[m].base, count |-> segs[m].count + n]
                                  ELSE segs[i]) \in Entries
    <3>1. segs[m].base \in Nat /\ segs[m].count \in Nat
      <4> HIDE DEF m
      <4> QED BY <1>0, <1>1
    <3>2. segs[m].base \in Nat /\ segs[m].count + n \in Nat
      BY <3>1
    <3>3. [base |-> segs[m].base, count |-> segs[m].count + n] \in Entries
      BY <3>2 DEF Entries
    <3> QED BY <1>a, <3>3
  <2> HIDE DEF m
  <2>2. \A i \in 1..m : more[i] \in Entries
    BY <1>2, <2>1
  <2>3. more = [i \in 1..m |-> more[i]]
    BY <1>2
  <2> QED BY <1>0, <2>2, <2>3
<1>4. \A i \in 1..m : /\ i # m => more[i] = segs[i]
                      /\ more[i].base = segs[i].base
                      /\ i = m => more[i].count = segs[i].count + n
  <2> HIDE DEF m
  <2> QED BY <1>2
<1>5. \A i \in 1..(m - 1) : i \in 1..m /\ i # m /\ i + 1 \in 1..m
  BY <1>0
<1>6. \A i \in 1..(m - 1) : more[i] = segs[i] /\ more[i + 1].base = segs[i + 1].base
  <2> HIDE DEF m
  <2> QED BY <1>4, <1>5
<1>7. Chain(more)
  <2>1. \A i \in 1..(m - 1) : more[i].count > 0 /\ more[i + 1].base = EndOf(more[i])
    BY <1>6 DEF Chain
  <2>2. ASSUME NEW i \in 1..m, NEW j \in 1..m, i < j
        PROVE  EndOf(more[i]) <= more[j].base /\ more[i].base < more[j].base
    <3>1. i # m
      BY <1>0, <2>2
    <3>2. more[i] = segs[i] /\ more[j].base = segs[j].base
      BY <1>4, <3>1
    <3>3. EndOf(segs[i]) <= segs[j].base /\ segs[i].base < segs[j].base
      BY <2>2 DEF Chain
    <3> QED BY <3>2, <3>3
  <2> QED BY <1>0, <1>3, <2>1, <2>2 DEF Chain
<1>8. Last(more) = more[m] /\ Last(segs) = segs[m] /\ Base(more) = more[1].base /\ Base(segs) = segs[1].base
  BY <1>3 DEF Last, Base
<1>9. Last(more).count = Last(segs).count + n /\ Last(more).base = Last(segs).base
  BY <1>0, <1>4, <1>8
<1>10. Base(more) = Base(segs)
  BY <1>0, <1>4, <1>8
<1>11. End(more) = End(segs) + n
  <2>1. Last(segs).base \in Nat /\ Last(segs).count \in Nat
    BY <1>0, <1>1, <1>8
  <2> QED BY <1>9, <2>1 DEF End, EndOf
<1>12. EndOf(segs[1]) <= EndOf(more[1])
  <2>1. segs[1].base \in Nat /\ segs[1].count \in Nat
    BY <1>0, <1>1
  <2>2. more[1].base = segs[1].base
    BY <1>0, <1>4
  <2>3. more[1].count = segs[1].count \/ more[1].count = segs[1].count + n
    BY <1>0, <1>4
  <2> QED BY <2>1, <2>2, <2>3 DEF EndOf
<1>13. Bases(more) = Bases(segs)
  BY <1>3, <1>4 DEF Bases
<1> QED BY <1>3, <1>4, <1>6, <1>7, <1>9, <1>10, <1>11, <1>12, <1>13 DEF more

(* The file of the last segment is as much longer. *)
LEMMA MoreIsListed ==
    ASSUME NEW segs, NEW fs, Lists(segs, fs), NEW batch \in Seq(Payloads)
    PROVE  /\ Lists(More(segs, Len(batch)), Longer(segs, fs, batch))
           /\ \A b \in Bases(segs) : b # Last(segs).base => Longer(segs, fs, batch)[b] = fs[b]
           /\ Longer(segs, fs, batch)[Last(segs).base] = fs[Last(segs).base] \o batch
<1> DEFINE more == More(segs, Len(batch))
           longer == Longer(segs, fs, batch)
           top == Last(segs).base
<1>0. Chain(segs) /\ fs \in [Bases(segs) -> Seq(Payloads)] /\ Len(batch) \in Nat
      /\ \A i \in 1..Len(segs) : Len(fs[segs[i].base]) = segs[i].count
  BY DEF Lists
<1>1. top \in Bases(segs) /\ top = segs[Len(segs)].base /\ Len(segs) \in Nat \ {0}
  BY <1>0, Chained
<1>2. /\ Chain(more) /\ Len(more) = Len(segs) /\ Bases(more) = Bases(segs)
      /\ \A i \in 1..Len(segs) : more[i].base = segs[i].base
      /\ \A i \in 1..(Len(segs) - 1) : more[i] = segs[i]
      /\ Last(more).count = Last(segs).count + Len(batch)
  BY <1>0, MoreIsChain
<1> HIDE DEF more
<1>3. /\ longer = [b \in Bases(segs) |-> IF b = top THEN fs[b] \o batch ELSE fs[b]]
  BY <1>0, <1>1 DEF Longer
<1> HIDE DEF longer
<1>4. fs[top] \in Seq(Payloads) /\ fs[top] \o batch \in Seq(Payloads)
      /\ Len(fs[top] \o batch) = Len(fs[top]) + Len(batch)
  BY <1>0, <1>1
<1>5. longer \in [Bases(segs) -> Seq(Payloads)]
  <2> HIDE DEF top
  <2>1. \A b \in Bases(segs) : (IF b = top THEN fs[b] \o batch ELSE fs[b]) \in Seq(Payloads)
    BY <1>0, <1>4
  <2> QED BY <1>3, <2>1
<1>6. longer[top] = fs[top] \o batch /\ \A b \in Bases(segs) : b # top => longer[b] = fs[b]
  <2> HIDE DEF top
  <2> QED BY <1>1, <1>3
<1>7. \A i \in 1..Len(more) : Len(longer[more[i].base]) = more[i].count
  <2> TAKE i \in 1..Len(more)
  <2>1. i \in 1..Len(segs) /\ more[i].base = segs[i].base /\ segs[i].base \in Bases(segs)
    BY <1>2 DEF Bases
  <2>2. CASE i = Len(segs)
    <3>1. Len(fs[top]) = segs[i].count
      BY <1>0, <1>1, <2>1, <2>2
    <3>2. more[i].count = segs[i].count + Len(batch)
      BY <1>2, <2>2 DEF Last
    <3>3. longer[more[i].base] = fs[top] \o batch
      BY <1>1, <1>6, <2>1, <2>2
    <3> QED BY <1>4, <3>1, <3>2, <3>3
  <2>3. CASE i # Len(segs)
    <3>1. i \in 1..(Len(segs) - 1)
      BY <1>1, <2>1, <2>3
    <3>2. more[i] = segs[i]
      BY <1>2, <3>1
    <3>3. segs[i].base # top
      <4>1. Len(segs) \in 1..Len(segs)
        BY <1>1
      <4> QED BY <1>0, <1>1, <2>1, <2>3, <4>1, BasesDiffer
    <3>4. longer[segs[i].base] = fs[segs[i].base]
      BY <1>6, <2>1, <3>3
    <3> QED BY <1>0, <2>1, <3>2, <3>4
  <2> QED BY <2>2, <2>3
<1>8. Lists(more, longer)
  BY <1>2, <1>5, <1>7 DEF Lists
<1> QED BY <1>6, <1>8 DEF more, longer

(* ... and once a new file is begun after a last one that is not empty. *)
LEMMA RolledIsChain ==
    ASSUME NEW segs, Chain(segs), Last(segs).count > 0
    PROVE  LET rolled == Rolled(segs) IN
           /\ Chain(rolled)
           /\ Len(rolled) = Len(segs) + 1
           /\ \A i \in 1..Len(segs) : rolled[i] = segs[i]
           /\ rolled[Len(segs) + 1] = [base |-> End(segs), count |-> 0]
           /\ Last(rolled) = [base |-> End(segs), count |-> 0]
           /\ End(rolled) = End(segs) /\ Base(rolled) = Base(segs)
           /\ Bases(rolled) = Bases(segs) \union {End(segs)}
           /\ End(segs) \notin Bases(segs)
<1> DEFINE rolled == Rolled(segs)
           new == [base |-> End(segs), count |-> 0]
           m == Len(segs)
<1>0. m \in Nat \ {0} /\ segs \in Seq(Entries) /\ 1 \in 1..m /\ m \in 1..m /\ End(segs) \in Nat
  <2>1. m \in Nat \ {0} /\ End(segs) \in Nat
    BY Chained
  <2> QED BY <2>1 DEF Chain
<1>1. new \in Entries
  BY <1>0 DEF Entries
<1>2. rolled = Append(segs, new)
  BY DEF Rolled
<1> HIDE DEF rolled
<1>3. rolled \in Seq(Entries) /\ Len(rolled) = m + 1 /\ rolled[m + 1] = new
      /\ \A i \in 1..m : rolled[i] = segs[i]
  <2> HIDE DEF new
  <2> QED BY <1>0, <1>1, <1>2
<1>4. new.base = End(segs) /\ new.count = 0
  OBVIOUS
<1> HIDE DEF new
<1>5. \A i \in 1..m : segs[i].base < End(segs) /\ EndOf(segs[i]) <= End(segs)
  <2>1. \A i \in 1..m : segs[i].base <= Last(segs).base /\ EndOf(segs[i]) <= End(segs)
                        /\ segs[i].base \in Nat
    BY Chained
  <2>2. Last(segs).base \in Nat /\ Last(segs).count \in Nat
        /\ End(segs) = Last(segs).base + Last(segs).count
    BY Chained DEF EndOf
  <2>3. Last(segs).base < End(segs)
    BY <2>2
  <2> QED BY <1>0, <2>1, <2>2, <2>3
<1>6. \A i \in 1..((m + 1) - 1) : rolled[i].count > 0 /\ rolled[i + 1].base = EndOf(rolled[i])
  <2> TAKE i \in 1..((m + 1) - 1)
  <2>0. i \in 1..m
    BY <1>0
  <2>1. CASE i = m
    <3>1. rolled[i] = Last(segs)
      BY <1>3, <2>0, <2>1 DEF Last
    <3>2. rolled[i + 1].base = End(segs)
      BY <1>3, <1>4, <2>1
    <3> QED BY <3>1, <3>2 DEF End
  <2>2. CASE i # m
    <3>1. i \in 1..(m - 1) /\ i + 1 \in 1..m
      BY <1>0, <2>0, <2>2
    <3>2. rolled[i] = segs[i] /\ rolled[i + 1] = segs[i + 1]
      BY <1>3, <2>0, <3>1
    <3>3. segs[i].count > 0 /\ segs[i + 1].base = EndOf(segs[i])
      BY <3>1 DEF Chain
    <3> QED BY <3>2, <3>3
  <2> QED BY <2>1, <2>2
<1>7. \A i, j \in 1..(m + 1) : i < j => /\ EndOf(rolled[i]) <= rolled[j].base
                                        /\ rolled[i].base < rolled[j].base
  <2> TAKE i, j \in 1..(m + 1)
  <2> HAVE i < j
  <2>0. i \in 1..m
    BY <1>0
  <2>1. CASE j = m + 1
    BY <1>3, <1>4, <1>5, <2>0, <2>1
  <2>2. CASE j # m + 1
    <3>1. j \in 1..m
      BY <1>0, <2>2
    <3>2. EndOf(segs[i]) <= segs[j].base /\ segs[i].base < segs[j].base
      BY <2>0, <3>1 DEF Chain
    <3> QED BY <1>3, <2>0, <3>1, <3>2
  <2> QED BY <2>1, <2>2
<1>8. Len(rolled) > 0
  BY <1>0, <1>3
<1>9. Chain(rolled)
  <2> HIDE DEF m
  <2> QED BY <1>3, <1>6, <1>7, <1>8 DEF Chain
<1>10. Last(rolled) = new /\ End(rolled) = End(segs)
  <2>1. Last(rolled) = new
    BY <1>3 DEF Last
  <2>2. EndOf(new) = End(segs)
    BY <1>0, <1>4 DEF EndOf
  <2> QED BY <2>1, <2>2 DEF End
<1>11. Base(rolled) = Base(segs)
  BY <1>0, <1>3 DEF Base
<1>12. Bases(rolled) = Bases(segs) \union {End(segs)}
  <2>1. 1..(m + 1) = 1..m \union {m + 1}
    BY <1>0
  <2>2. \A i \in 1..m : rolled[i].base = segs[i].base
    BY <1>3
  <2>3. rolled[m + 1].base = End(segs)
    BY <1>3, <1>4
  <2> HIDE DEF m
  <2> QED BY <1>3, <2>1, <2>2, <2>3 DEF Bases, m
<1>13. End(segs) \notin Bases(segs)
  <2>1. \A i \in 1..m : segs[i].base # End(segs)
    <3>1. \A i \in 1..m : segs[i].base \in Nat
      BY Chained
    <3> QED BY <1>0, <1>5, <3>1
  <2> QED BY <2>1 DEF Bases
<1> QED BY <1>3, <1>9, <1>10, <1>11, <1>12, <1>13 DEF rolled, new

(* The file of a new segment is empty, and in no other's place. *)
LEMMA RolledIsListed ==
    ASSUME NEW segs, NEW fs, Lists(segs, fs), Last(segs).count > 0
    PROVE  LET more == With(fs, End(segs), <<>>) IN
           /\ Lists(Rolled(segs), more)
           /\ \A b \in Bases(segs) : more[b] = fs[b]
           /\ more[End(segs)] = <<>>
<1> DEFINE more == With(fs, End(segs), <<>>)
           rolled == Rolled(segs)
<1>0. Chain(segs) /\ fs \in [Bases(segs) -> Seq(Payloads)] /\ Len(segs) \in Nat \ {0}
      /\ \A i \in 1..Len(segs) : Len(fs[segs[i].base]) = segs[i].count
  BY Chained DEF Lists
<1>1. /\ Chain(rolled)
      /\ Len(rolled) = Len(segs) + 1
      /\ \A i \in 1..Len(segs) : rolled[i] = segs[i]
      /\ rolled[Len(segs) + 1] = [base |-> End(segs), count |-> 0]
      /\ Bases(rolled) = Bases(segs) \union {End(segs)}
      /\ End(segs) \notin Bases(segs)
  BY <1>0, RolledIsChain
<1> HIDE DEF rolled
<1>2. more = [b \in Bases(segs) \union {End(segs)} |-> IF b = End(segs) THEN <<>> ELSE fs[b]]
  BY <1>0 DEF With
<1> HIDE DEF more
<1>3. more[End(segs)] = <<>> /\ \A b \in Bases(segs) : more[b] = fs[b]
  BY <1>1, <1>2
<1>4. more \in [Bases(rolled) -> Seq(Payloads)]
  <2>1. <<>> \in Seq(Payloads) /\ \A b \in Bases(segs) : fs[b] \in Seq(Payloads)
    BY <1>0
  <2>2. \A b \in Bases(rolled) : (IF b = End(segs) THEN <<>> ELSE fs[b]) \in Seq(Payloads)
    BY <1>1, <2>1
  <2> QED BY <1>1, <1>2, <2>2
<1>5. \A i \in 1..Len(rolled) : Len(more[rolled[i].base]) = rolled[i].count
  <2> TAKE i \in 1..Len(rolled)
  <2>1. CASE i = Len(segs) + 1
    <3>1. rolled[i].base = End(segs) /\ rolled[i].count = 0
      BY <1>1, <2>1
    <3> QED BY <1>3, <3>1
  <2>2. CASE i # Len(segs) + 1
    <3>1. i \in 1..Len(segs)
      BY <1>0, <1>1, <2>2
    <3>2. rolled[i] = segs[i] /\ segs[i].base \in Bases(segs)
      BY <1>1, <3>1 DEF Bases
    <3>3. more[segs[i].base] = fs[segs[i].base]
      BY <1>3, <3>2
    <3> QED BY <1>0, <3>1, <3>2, <3>3
  <2> QED BY <2>1, <2>2
<1>6. Lists(rolled, more)
  BY <1>1, <1>4, <1>5 DEF Lists
<1> QED BY <1>3, <1>6 DEF more, rolled

(* Files that hold what is in the log, each record at its offset. *)
OfLog(fs, lg) ==
    \A b \in DOMAIN fs : /\ b + Len(fs[b]) <= Len(lg)
                         /\ \A i \in 1..Len(fs[b]) : fs[b][i] = lg[b + i]

Kept(segs, fs, lg) == Lists(segs, fs) /\ OfLog(fs, lg) /\ End(segs) = Len(lg)

Between(segs) == Last(segs).base <= EndOf(segs[1]) + Larger(Capacity, MaxBatch)

Reaches(segs, held, at) == \A g \in held : Base(segs) <= at[g]

(* A release leaves every record where it was. *)
LEMMA RestIsKept ==
    ASSUME NEW segs, NEW fs, NEW lg, Kept(segs, fs, lg), NEW n \in 0..(Len(segs) - 1)
    PROVE  Kept(Without(segs, n), FilesWithout(fs, segs, n), lg)
<1> DEFINE rest == Without(segs, n)
           left == FilesWithout(fs, segs, n)
<1>1. Lists(segs, fs) /\ Chain(segs) /\ DOMAIN fs = Bases(segs)
  BY DEF Kept, Lists
<1>2. /\ Lists(rest, left) /\ Bases(rest) \subseteq Bases(segs)
      /\ \A b \in Bases(rest) : left[b] = fs[b]
  BY <1>1, RestIsListed
<1>3. End(rest) = End(segs)
  BY <1>1, RestIsChain
<1> HIDE DEF rest, left
<1>4. DOMAIN left = Bases(rest)
  BY <1>2 DEF Lists
<1>5. OfLog(left, lg)
  <2>1. \A b \in Bases(segs) : /\ b + Len(fs[b]) <= Len(lg)
                               /\ \A i \in 1..Len(fs[b]) : fs[b][i] = lg[b + i]
    BY <1>1 DEF Kept, OfLog
  <2> QED BY <1>2, <1>4, <2>1 DEF OfLog
<1> QED BY <1>2, <1>3, <1>5 DEF Kept, rest, left

(* A release moves the end of the first segment, and no other, forward.    *)
LEMMA RestIsCloser ==
    ASSUME NEW segs, Chain(segs), NEW n \in 0..(Len(segs) - 1)
    PROVE  /\ EndOf(segs[1]) <= EndOf(Without(segs, n)[1])
           /\ Last(Without(segs, n)) = Last(segs)
<1> DEFINE rest == Without(segs, n)
<1>1. rest[1] = segs[n + 1] /\ Last(rest) = Last(segs)
  BY RestIsChain
<1>2. Len(segs) \in Nat \ {0} /\ n \in Nat /\ 1 \in 1..Len(segs) /\ n + 1 \in 1..Len(segs)
  BY Chained
<1>3. EndOf(segs[1]) \in Nat /\ EndOf(segs[n + 1]) \in Nat /\ segs[n + 1].base <= EndOf(segs[n + 1])
  BY <1>2, Chained
<1>4. EndOf(segs[1]) <= EndOf(segs[n + 1])
  <2>1. CASE n = 0
    BY <1>3, <2>1
  <2>2. CASE n # 0
    <3>1. 1 < n + 1
      BY <1>2, <2>2
    <3>2. EndOf(segs[1]) <= segs[n + 1].base
      BY <1>2, <3>1 DEF Chain
    <3>3. segs[n + 1].base \in Nat
      BY <1>2, Chained
    <3> QED BY <1>3, <3>2, <3>3
  <2> QED BY <2>1, <2>2
<1> QED BY <1>1, <1>4

(* It never passes a record that a holding group has not acknowledged,     *)
(* wherever it ends.                                                       *)
LEMMA ReleasedIsBelow ==
    ASSUME NEW segs, Chain(segs), NEW mine \in SUBSET Groups, NEW watching,
           NEW at \in [Groups -> Nat], NEW g \in mine \ watching, Base(segs) <= at[g],
           NEW n \in 0..Released(segs, mine, watching, at)
    PROVE  segs[n + 1].base <= at[g]
<1> DEFINE all == Released(segs, mine, watching, at)
           floor == Floor(segs, mine, watching, at)
           observed == Observed(segs, mine, watching, at)
<1>1. all \in 0..(Len(segs) - 1) /\ \A i \in 1..all : Deletable(segs, i, floor, observed)
  BY ReleasedIs
<1>2. floor \in Nat /\ floor <= at[g] /\ at[g] \in Nat
  BY FloorIs
<1>3. Len(segs) \in Nat \ {0}
  BY Chained
<1> HIDE DEF all, floor, observed
<1>4. CASE n = 0
  BY <1>4 DEF Base
<1>5. CASE n # 0
  <2>1. n \in 1..all /\ n \in 1..(Len(segs) - 1) /\ n \in 1..Len(segs)
    BY <1>1, <1>3, <1>5 DEF all
  <2>2. EndOf(segs[n]) <= floor
    BY <1>1, <2>1 DEF Deletable
  <2>3. segs[n + 1].base = EndOf(segs[n]) /\ EndOf(segs[n]) \in Nat
    BY <2>1, Chained DEF Chain
  <2> QED BY <1>2, <2>2, <2>3
<1> QED BY <1>4, <1>5

(* A batch is written behind what is in the log. *)
LEMMA MoreIsKept ==
    ASSUME NEW segs, NEW fs, NEW lg \in Seq(Payloads), Kept(segs, fs, lg),
           NEW batch \in Seq(Payloads)
    PROVE  Kept(More(segs, Len(batch)), Longer(segs, fs, batch), lg \o batch)
<1> DEFINE more == More(segs, Len(batch))
           longer == Longer(segs, fs, batch)
           top == Last(segs).base
           all == lg \o batch
<1>1. Lists(segs, fs) /\ Chain(segs) /\ fs \in [Bases(segs) -> Seq(Payloads)] /\ End(segs) = Len(lg)
  BY DEF Kept, Lists
<1>2. /\ Lists(more, longer)
      /\ \A b \in Bases(segs) : b # top => longer[b] = fs[b]
      /\ longer[top] = fs[top] \o batch
  BY <1>1, MoreIsListed
<1>3. Len(batch) \in Nat /\ Len(lg) \in Nat
  OBVIOUS
<1>4. End(more) = End(segs) + Len(batch) /\ Bases(more) = Bases(segs)
  BY <1>1, <1>3, MoreIsChain
<1>5. all \in Seq(Payloads) /\ Len(all) = Len(lg) + Len(batch)
      /\ (\A i \in 1..Len(lg) : all[i] = lg[i])
      /\ (\A i \in 1..Len(batch) : all[Len(lg) + i] = batch[i])
  OBVIOUS
<1>6. top \in Bases(segs) /\ top \in Nat /\ Bases(segs) \subseteq Nat
      /\ fs[top] \in Seq(Payloads) /\ Len(fs[top]) \in Nat
  <2>1. top \in Bases(segs) /\ top \in Nat
    BY <1>1, Chained
  <2>2. Bases(segs) \subseteq Nat
    BY <1>1, BasesInOrder
  <2> QED BY <1>1, <2>1, <2>2
<1>7. Len(fs[top] \o batch) = Len(fs[top]) + Len(batch)
      /\ (\A i \in 1..Len(fs[top]) : (fs[top] \o batch)[i] = fs[top][i])
      /\ (\A i \in 1..Len(batch) : (fs[top] \o batch)[Len(fs[top]) + i] = batch[i])
  <2>1. PICK was : was = fs[top]
    OBVIOUS
  <2>2. was \in Seq(Payloads)
    BY <1>6, <2>1
  <2>3. /\ Len(was \o batch) = Len(was) + Len(batch)
        /\ (\A i \in 1..Len(was) : (was \o batch)[i] = was[i])
        /\ (\A i \in 1..Len(batch) : (was \o batch)[Len(was) + i] = batch[i])
    BY ONLY <2>2, batch \in Seq(Payloads)
  <2> QED BY <2>1, <2>3
<1>8. top + Len(fs[top]) = Len(lg)
  <2>1. Len(segs) \in 1..Len(segs) /\ Last(segs) = segs[Len(segs)] /\ End(segs) = EndOf(Last(segs))
    BY <1>1, Chained
  <2>2. Len(fs[top]) = Last(segs).count
    BY <1>1, <2>1 DEF Lists
  <2> QED BY <1>1, <2>1, <2>2 DEF EndOf
<1> HIDE DEF more, longer, top, all
<1>9. ASSUME NEW b \in Bases(segs)
      PROVE  /\ b + Len(longer[b]) <= Len(all)
             /\ \A i \in 1..Len(longer[b]) : longer[b][i] = all[b + i]
  <2>0. /\ b + Len(fs[b]) <= Len(lg) /\ \A i \in 1..Len(fs[b]) : fs[b][i] = lg[b + i]
    BY <1>1 DEF Kept, OfLog
  <2>1. b \in Nat /\ fs[b] \in Seq(Payloads) /\ Len(fs[b]) \in Nat
    BY <1>1, <1>6
  <2>2. \A i \in 1..Len(fs[b]) : b + i \in 1..Len(lg)
    BY <1>3, <2>0, <2>1
  <2>3. \A i \in 1..Len(fs[b]) : fs[b][i] = all[b + i]
    BY <1>5, <2>0, <2>2
  <2>4. CASE b # top
    <3>1. longer[b] = fs[b]
      BY <1>2, <2>4
    <3>2. b + Len(fs[b]) <= Len(all)
      BY <1>3, <1>5, <2>0, <2>1
    <3> QED BY <2>3, <3>1, <3>2
  <2>5. CASE b = top
    <3>1. longer[b] = fs[top] \o batch /\ Len(longer[b]) = Len(fs[top]) + Len(batch)
      BY <1>2, <1>7, <2>5
    <3>2. b + Len(longer[b]) <= Len(all)
      BY <1>3, <1>5, <1>6, <1>8, <2>5, <3>1
    <3>3. ASSUME NEW i \in 1..Len(longer[b]) PROVE longer[b][i] = all[b + i]
      <4>1. CASE i \in 1..Len(fs[top])
        BY <1>7, <2>3, <2>5, <3>1, <4>1
      <4>2. CASE i \notin 1..Len(fs[top])
        <5>1. i - Len(fs[top]) \in 1..Len(batch) /\ i = Len(fs[top]) + (i - Len(fs[top]))
          BY <1>3, <1>6, <3>1, <4>2
        <5>2. b + i = Len(lg) + (i - Len(fs[top]))
          <6>1. PICK x, y, z, j : x = Len(fs[top]) /\ y = Len(lg) /\ z = top /\ j = i
            OBVIOUS
          <6>2. x \in Nat /\ y \in Nat /\ z \in Nat /\ j \in Nat /\ z + x = y
            BY <1>3, <1>6, <1>8, <3>1, <6>1
          <6>3. z + j = y + (j - x)
            BY ONLY <6>2
          <6> QED BY <2>5, <6>1, <6>3
        <5>3. (fs[top] \o batch)[i] = batch[i - Len(fs[top])]
          BY <1>7, <5>1
        <5>4. all[b + i] = batch[i - Len(fs[top])]
          BY <1>5, <5>1, <5>2
        <5> QED BY <3>1, <5>3, <5>4
      <4> QED BY <4>1, <4>2
    <3> QED BY <3>2, <3>3
  <2> QED BY <2>4, <2>5
<1>10. DOMAIN longer = Bases(segs)
  BY <1>2, <1>4 DEF Lists
<1>11. OfLog(longer, all)
  BY <1>9, <1>10 DEF OfLog
<1>12. End(more) = Len(all)
  BY <1>1, <1>4, <1>5
<1> QED BY <1>2, <1>11, <1>12 DEF Kept, more, longer, all

(* A new segment moves no record. *)
LEMMA RolledIsKept ==
    ASSUME NEW segs, NEW fs, NEW lg \in Seq(Payloads), Kept(segs, fs, lg), Last(segs).count > 0
    PROVE  Kept(Rolled(segs), With(fs, End(segs), <<>>), lg)
<1> DEFINE rolled == Rolled(segs)
           more == With(fs, End(segs), <<>>)
<1>1. Lists(segs, fs) /\ Chain(segs) /\ DOMAIN fs = Bases(segs) /\ End(segs) = Len(lg)
  BY DEF Kept, Lists
<1>2. Lists(rolled, more) /\ (\A b \in Bases(segs) : more[b] = fs[b]) /\ more[End(segs)] = <<>>
  BY <1>1, RolledIsListed
<1>3. End(rolled) = End(segs) /\ Bases(rolled) = Bases(segs) \union {End(segs)}
  BY <1>1, RolledIsChain
<1> HIDE DEF rolled, more
<1>4. DOMAIN more = Bases(segs) \union {End(segs)}
  BY <1>2, <1>3 DEF Lists
<1>5. OfLog(more, lg)
  <2>1. \A b \in Bases(segs) : /\ b + Len(fs[b]) <= Len(lg)
                               /\ \A i \in 1..Len(fs[b]) : fs[b][i] = lg[b + i]
    BY <1>1 DEF Kept, OfLog
  <2>2. End(segs) + 0 <= Len(lg) /\ Len(<<>>) = 0
    BY <1>1
  <2> QED BY <1>2, <1>4, <2>1, <2>2 DEF OfLog
<1> QED BY <1>1, <1>2, <1>3, <1>5 DEF Kept, rolled, more

(* What is sent fits, and what does not was released: both sides of the    *)
(* argument that a batch leaves no more than the capacity between the      *)
(* first and the active segment, whatever lay there before.                *)
LEMMA BatchFits ==
    ASSUME NEW segs, Chain(segs),
           NEW mine \in SUBSET Groups, NEW watching, NEW at \in [Groups -> Nat],
           NEW n \in 0..MaxBatch,
           LET waiting == BytesFrom(segs, Floor(segs, mine, watching, at))
           IN  waiting = 0 \/ waiting + n <= Capacity,
           NEW rolled, Chain(rolled), End(rolled) = End(segs) + n, Base(rolled) = Base(segs)
    PROVE  Between(Without(rolled, Released(rolled, mine, watching, at)))
<1> DEFINE m == Released(rolled, mine, watching, at)
           floor == Floor(segs, mine, watching, at)
           newFloor == Floor(rolled, mine, watching, at)
           observed == Observed(rolled, mine, watching, at)
           waiting == BytesFrom(segs, floor)
           L == Larger(Capacity, MaxBatch)
           rest == Without(rolled, m)
           e == EndOf(rolled[m + 1])
           b == rolled[m + 1].base
           top == Last(rolled).base
<1>0. L \in Nat /\ Capacity \in Nat /\ MaxBatch \in Nat /\ Capacity <= L /\ MaxBatch <= L
  BY OptionsAssumption, BoundsAssumption DEF Larger
<1>1. m \in 0..(Len(rolled) - 1) /\ ~Deletable(rolled, m + 1, newFloor, observed)
  BY ReleasedIs
<1>2. rest[1] = rolled[m + 1] /\ Last(rest) = Last(rolled)
  BY <1>1, RestIsChain
<1>3. Len(rolled) \in Nat \ {0} /\ m + 1 \in 1..Len(rolled)
  <2>1. Len(rolled) \in Nat \ {0}
    BY Chained
  <2> QED BY <1>1, <2>1
<1>4. e \in Nat /\ b \in Nat /\ b <= e /\ Base(segs) <= b /\ Base(segs) \in Nat
      /\ End(rolled) \in Nat /\ End(segs) \in Nat /\ Base(segs) <= End(segs)
  BY <1>3, Chained
<1>5. top \in Nat /\ top <= End(rolled)
  <2>1. Len(rolled) \in 1..Len(rolled) /\ Last(rolled) = rolled[Len(rolled)]
        /\ End(rolled) = EndOf(Last(rolled))
    BY Chained
  <2> QED BY <2>1, Chained
<1>6. SUFFICES top <= e + L
  BY <1>2 DEF Between
<1>7. floor \in Nat /\ newFloor \in Nat
  BY FloorIs
<1>8. newFloor = floor \/ (newFloor = End(rolled) /\ floor = End(segs))
  BY DEF Floor
<1>9. waiting = End(segs) - Smaller(End(segs), Larger(floor, Base(segs)))
  BY DEF BytesFrom
<1>10. waiting = 0 \/ waiting + n <= Capacity
  OBVIOUS
<1>11. ~(m + 1 < Len(rolled)) \/ ~(e <= newFloor) \/ End(rolled) - b <= Capacity
  <2>1. ~(m + 1 < Len(rolled)) \/ ~(e <= newFloor) \/ ~(End(rolled) - b > Capacity)
    <3> HIDE DEF m, newFloor, observed
    <3> QED BY <1>1 DEF Deletable
  <2>2. ~(End(rolled) - b > Capacity) => End(rolled) - b <= Capacity
    <3> HIDE DEF b, m
    <3> QED BY <1>0, <1>4
  <2> QED BY <2>1, <2>2
<1>12. End(rolled) = End(segs) + n /\ n \in Nat /\ n <= MaxBatch
  BY <1>0
<1>13. CASE ~(m + 1 < Len(rolled))
  <2>1. m + 1 = Len(rolled)
    BY <1>3, <1>13
  <2>2. b = top
    BY <2>1 DEF Last
  <2> HIDE DEF L, b, e, top
  <2> QED BY <1>0, <1>4, <1>5, <2>2
<1>14. CASE End(rolled) - b <= Capacity
  <2> HIDE DEF L, b, e, top
  <2> QED BY <1>0, <1>4, <1>5, <1>14
<1>15. CASE ~(e <= newFloor) /\ newFloor = floor
  <2> HIDE DEF L, b, e, floor, newFloor, waiting, top
  <2> QED BY <1>0, <1>4, <1>5, <1>7, <1>9, <1>10, <1>12, <1>15 DEF Smaller, Larger
<1>16. CASE ~(e <= newFloor) /\ newFloor = End(rolled) /\ floor = End(segs)
  <2> HIDE DEF L, b, e, floor, newFloor, waiting, top
  <2> QED BY <1>0, <1>4, <1>5, <1>16
<1> HIDE DEF L, b, e, floor, newFloor, waiting, top
<1> QED BY <1>8, <1>11, <1>13, <1>14, <1>15, <1>16

(* The failures after which the topic keeps what is claimed here: a file   *)
(* that cannot be deleted, a directory that cannot be synced and a cut that *)
(* fails after a failed write are not among them (see README.md).          *)
Tolerated == Failures \subseteq {"write", "create", "offset"}

Runs == [file : Nat, skip : Nat, count : Nat]

Types ==
    /\ up \in BOOLEAN /\ active \in Nat /\ log \in Seq(Payloads)
    /\ DOMAIN offsets \subseteq Groups /\ offsets \in [DOMAIN offsets -> Nat]
    /\ groups \subseteq Groups /\ observers \subseteq groups \intersect Observers
    /\ position \in [Groups -> Nat]
    /\ up => DOMAIN offsets = groups
    /\ ~up => segments = <<>> /\ groups = {} /\ \A g \in Groups : rpc[g] = "closed"
    /\ spc \in [Senders -> SenderStates] /\ swoken \in [Senders -> BOOLEAN]
    /\ pending \in [Senders -> Seq(Payloads)]
    /\ \A s \in Senders : Len(pending[s]) <= MaxBatch
    /\ rpc \in [Groups -> ReceiverStates] /\ rwoken \in [Groups -> BOOLEAN]
    /\ next \in [Groups -> Nat] /\ skipped \in [Groups -> Nat]
    /\ runs \in [Groups -> Seq(Runs)]
    /\ seen \in [Groups -> SUBSET Nat]

(* The files on disk are those that are listed, but that the last may be   *)
(* cut short, or there is none yet.                                        *)
CutShort(left, segs, fs) ==
    \/ /\ DOMAIN left = {}
       /\ segs = <<[base |-> 0, count |-> 0]>> /\ fs = [base \in {0} |-> <<>>]
    \/ /\ left \in [Bases(segs) -> Seq(Payloads \union {Torn, Blank})]
       /\ \A b \in Bases(segs) :
             fs[b] = IF b = Last(segs).base THEN Whole(left[b]) ELSE left[b]

OnDisk ==
    ~up => \E segs, fs : /\ Kept(segs, fs, log)
                         /\ Reaches(segs, DOMAIN offsets \ Observers, offsets)
                         /\ CutShort(files, segs, fs)

InIndex ==
    up => /\ Kept(segments, files, log)
          /\ active = Last(segments).base

(* A group that holds the topic has its position in it, and none on disk   *)
(* that is behind.                                                         *)
Holding == groups \ Observers
Positions == \A g \in Holding : position[g] <= offsets[g] /\ Base(segments) <= position[g]

-----------------------------------------------------------------------------
(* A file of records that were written whole is whole. *)
LEMMA WholePayloads == \A records \in Seq(Payloads) : Whole(records) = records
  BY WholeIsAll, FailuresAssumption

(* Opening reads the files of whole records, and their index. *)
LEMMA ScannedIs ==
    ASSUME NEW segs, NEW fs, NEW left, Lists(segs, fs), CutShort(left, segs, fs)
    PROVE  Scanned(left) = fs /\ Indexed(fs) = segs
<1>1. Indexed(fs) = segs
  BY IndexedIs
<1>2. Chain(segs) /\ fs \in [Bases(segs) -> Seq(Payloads)]
  BY DEF Lists
<1> DEFINE top == Last(segs).base
<1>3. top \in Bases(segs) /\ Bases(segs) \in SUBSET Nat /\ \A b \in Bases(segs) : b <= top
  <2>1. \A i \in 1..Len(segs) : segs[i].base <= Last(segs).base
    BY <1>2, Chained
  <2>2. top \in Bases(segs) /\ Bases(segs) \in SUBSET Nat
    BY <1>2, Chained, BasesInOrder
  <2> QED BY <2>1, <2>2 DEF Bases
<1>4. CASE DOMAIN left = {}
  <2>1. Scanned(left) = [base \in {0} |-> <<>>]
    BY <1>4 DEF Scanned
  <2>2. fs = [base \in {0} |-> <<>>]
    <3>1. ~(left \in [Bases(segs) -> Seq(Payloads \union {Torn, Blank})])
      BY <1>3, <1>4
    <3> QED BY <3>1 DEF CutShort
  <2> QED BY <1>1, <2>1, <2>2
<1>5. CASE DOMAIN left # {}
  <2>1. /\ left \in [Bases(segs) -> Seq(Payloads \union {Torn, Blank})]
        /\ \A b \in Bases(segs) : fs[b] = IF b = top THEN Whole(left[b]) ELSE left[b]
    BY <1>5 DEF CutShort
  <2> HIDE DEF top
  <2>2. Max(DOMAIN left) = top
    BY <1>3, <2>1, MaxIs
  <2>3. Scanned(left) = [left EXCEPT ![Max(DOMAIN left)] = Whole(@)]
    BY <1>5 DEF Scanned
  <2>4. Scanned(left) = [b \in Bases(segs) |-> IF b = top THEN Whole(left[b]) ELSE left[b]]
    BY <1>3, <2>1, <2>2, <2>3
  <2>5. fs = [b \in Bases(segs) |-> fs[b]]
    BY <1>2
  <2>6. [b \in Bases(segs) |-> fs[b]]
          = [b \in Bases(segs) |-> IF b = top THEN Whole(left[b]) ELSE left[b]]
    BY <2>1
  <2> QED BY <1>1, <2>4, <2>5, <2>6
<1> QED BY <1>4, <1>5

(* Opening brings the files that are kept into the index. *)
LEMMA OpenIs ==
    ASSUME Types, OnDisk, Open
    PROVE  /\ Kept(segments', files', log)
           /\ Reaches(segments', DOMAIN offsets \ Observers, offsets)
           /\ active' = Last(segments').base /\ up' = TRUE
<1>1. ~up /\ files' = Scanned(files) /\ segments' = Indexed(files')
      /\ active' = Last(segments').base /\ up' = TRUE
  BY DEF Open
<1>2. PICK segs, fs : /\ Kept(segs, fs, log)
                      /\ Reaches(segs, DOMAIN offsets \ Observers, offsets)
                      /\ CutShort(files, segs, fs)
  BY <1>1 DEF OnDisk
<1>3. Lists(segs, fs)
  BY <1>2 DEF Kept
<1>4. Scanned(files) = fs /\ Indexed(fs) = segs
  BY <1>2, <1>3, ScannedIs
<1>5. files' = fs /\ segments' = segs
  BY <1>1, <1>4
<1> QED BY <1>1, <1>2, <1>5

(* What a release leaves, wherever it ends: everything that a holding      *)
(* group has not passed.                                                   *)
LEMMA ReleasingLeaves ==
    ASSUME NEW segs, NEW fs, NEW lg, Kept(segs, fs, lg), NEW mine \in SUBSET Groups,
           NEW watching, NEW at \in [Groups -> Nat],
           NEW n \in 0..Released(segs, mine, watching, at)
    PROVE  LET rest == Without(segs, n)
               left == FilesWithout(fs, segs, n)
           IN  /\ n \in 0..(Len(segs) - 1)
               /\ Kept(rest, left, lg) /\ Last(rest) = Last(segs)
               /\ \A g \in mine \ watching : Base(segs) <= at[g] => Base(rest) <= at[g]
               /\ \A b \in DOMAIN fs : \/ b \in DOMAIN left /\ left[b] = fs[b]
                                       \/ \A g \in mine \ watching : b + Len(fs[b]) <= at[g]
<1> DEFINE floor == Floor(segs, mine, watching, at)
           observed == Observed(segs, mine, watching, at)
           rest == Without(segs, n)
           left == FilesWithout(fs, segs, n)
<1>1. Lists(segs, fs) /\ Chain(segs) /\ DOMAIN fs = Bases(segs)
  BY DEF Kept, Lists
<1>2. n \in 0..(Len(segs) - 1) /\ \A i \in 1..n : Deletable(segs, i, floor, observed)
  <2>1. PICK all \in 0..(Len(segs) - 1) : /\ all = Released(segs, mine, watching, at)
                                          /\ \A i \in 1..all : Deletable(segs, i, floor, observed)
    BY <1>1, ReleasedIs
  <2>2. Len(segs) \in Nat \ {0}
    BY <1>1, Chained
  <2> HIDE DEF floor, observed
  <2>3. n \in 0..all
    BY <2>1
  <2>4. n \in 0..(Len(segs) - 1) /\ \A i \in 1..n : i \in 1..all
    BY ONLY <2>2, <2>3, all \in 0..(Len(segs) - 1)
  <2> QED BY <2>1, <2>4
<1>3. floor \in Nat /\ \A g \in mine \ watching : floor <= at[g]
  BY <1>1, FloorIs
<1>4. \A g \in mine \ watching : Base(segs) <= at[g] => segs[n + 1].base <= at[g]
  BY <1>1, ReleasedIsBelow
<1>5. Len(segs) \in Nat \ {0}
  BY <1>1, Chained
<1> HIDE DEF floor, observed
<1>6. Kept(rest, left, lg)
  BY <1>2, RestIsKept
<1>7. Last(rest) = Last(segs) /\ Base(rest) = segs[n + 1].base
  BY <1>1, <1>2, RestIsChain
<1>8. /\ \A i \in (n + 1)..Len(segs) : segs[i].base \in Bases(rest)
      /\ \A b \in Bases(rest) : left[b] = fs[b]
      /\ Lists(rest, left)
  BY <1>1, <1>2, RestIsListed
<1>9. ASSUME NEW b \in DOMAIN fs
      PROVE  \/ b \in DOMAIN left /\ left[b] = fs[b]
             \/ \A g \in mine \ watching : b + Len(fs[b]) <= at[g]
  <2>1. PICK i \in 1..Len(segs) : b = segs[i].base
    BY <1>1 DEF Bases
  <2>2. CASE i \in 1..n
    <3>1. EndOf(segs[i]) <= floor
      BY <1>2, <2>2 DEF Deletable
    <3>2. EndOf(segs[i]) = b + Len(fs[b])
      <4>1. Len(fs[b]) = segs[i].count
        BY <1>1, <2>1 DEF Lists
      <4> QED BY <2>1, <4>1 DEF EndOf
    <3>3. EndOf(segs[i]) \in Nat
      BY <1>1, Chained
    <3>4. \A g \in mine \ watching : at[g] \in Nat
      OBVIOUS
    <3> HIDE DEF rest, left
    <3> QED BY <1>3, <3>1, <3>2, <3>3, <3>4
  <2>3. CASE i \notin 1..n
    <3>1. i \in (n + 1)..Len(segs)
      BY <1>2, <1>5, <2>3
    <3>2. b \in Bases(rest)
      BY <1>8, <2>1, <3>1
    <3>3. DOMAIN left = Bases(rest)
      BY <1>8 DEF Lists
    <3> HIDE DEF rest, left
    <3> QED BY <1>8, <3>2, <3>3
  <2> QED BY <2>2, <2>3
<1> HIDE DEF rest, left
<1> QED BY <1>2, <1>4, <1>6, <1>7, <1>9 DEF rest, left

(* In the end, what it may delete is gone. *)
LEMMA ReleaseLeaves ==
    ASSUME NEW segs, NEW fs, NEW lg, Kept(segs, fs, lg), NEW mine \in SUBSET Groups,
           NEW watching, NEW at \in [Groups -> Nat]
    PROVE  LET n == Released(segs, mine, watching, at)
               rest == Without(segs, n)
               left == FilesWithout(fs, segs, n)
           IN  /\ n \in 0..(Len(segs) - 1)
               /\ Kept(rest, left, lg) /\ Last(rest) = Last(segs)
               /\ \A g \in mine \ watching : Base(segs) <= at[g] => Base(rest) <= at[g]
               /\ \A b \in DOMAIN fs : \/ b \in DOMAIN left /\ left[b] = fs[b]
                                       \/ \A g \in mine \ watching : b + Len(fs[b]) <= at[g]
<1>1. Chain(segs)
  BY DEF Kept, Lists
<1>2. PICK n \in 0..(Len(segs) - 1) : n = Released(segs, mine, watching, at)
  BY <1>1, ReleasedIs
<1>3. n \in 0..n
  OBVIOUS
<1>4. n \in 0..Released(segs, mine, watching, at)
  BY <1>2, <1>3
<1>5. LET rest == Without(segs, n)
          left == FilesWithout(fs, segs, n)
      IN  /\ n \in 0..(Len(segs) - 1)
          /\ Kept(rest, left, lg) /\ Last(rest) = Last(segs)
          /\ \A g \in mine \ watching : Base(segs) <= at[g] => Base(rest) <= at[g]
          /\ \A b \in DOMAIN fs : \/ b \in DOMAIN left /\ left[b] = fs[b]
                                  \/ \A g \in mine \ watching : b + Len(fs[b]) <= at[g]
  BY <1>4, ReleasingLeaves
<1> QED BY <1>2, <1>5

(* What a batch leaves in the index and the files before anything is       *)
(* released: it is written, and a full segment is followed by a new one.   *)
Rolling(segs) == IF IsFull(segs) THEN Rolled(segs) ELSE segs
RollingFiles(segs, fs) == IF IsFull(segs) THEN With(fs, End(segs), <<>>) ELSE fs

(* A batch and the segment that may follow it leave what was kept in       *)
(* place.                                                                  *)
LEMMA RollingIsKept ==
    ASSUME NEW segs, NEW fs, NEW lg \in Seq(Payloads), Kept(segs, fs, lg),
           NEW batch \in Seq(Payloads)
    PROVE  LET more == More(segs, Len(batch))
               longer == Longer(segs, fs, batch)
               rolled == Rolling(more)
               onDisk == RollingFiles(more, longer)
           IN  /\ Kept(rolled, onDisk, lg \o batch)
               /\ End(rolled) = End(segs) + Len(batch) /\ Base(rolled) = Base(segs)
               /\ \A b \in DOMAIN fs : b \in DOMAIN onDisk /\ Len(fs[b]) <= Len(onDisk[b])
<1> DEFINE more == More(segs, Len(batch))
           longer == Longer(segs, fs, batch)
           rolled == Rolling(more)
           onDisk == RollingFiles(more, longer)
           all == lg \o batch
<1>1. Lists(segs, fs) /\ Chain(segs) /\ fs \in [Bases(segs) -> Seq(Payloads)]
  BY DEF Kept, Lists
<1>2. Len(batch) \in Nat /\ all \in Seq(Payloads)
  OBVIOUS
<1>3. Kept(more, longer, all)
  BY MoreIsKept
<1>4. /\ Chain(more) /\ Last(more).base = Last(segs).base
      /\ End(more) = End(segs) + Len(batch) /\ Base(more) = Base(segs)
      /\ EndOf(segs[1]) <= EndOf(more[1])
      /\ Bases(more) = Bases(segs)
  BY <1>1, <1>2, MoreIsChain
<1>5. ASSUME NEW b \in DOMAIN fs
      PROVE  b \in DOMAIN longer /\ Len(fs[b]) <= Len(longer[b]) /\ Len(longer[b]) \in Nat
  <2>1. /\ Lists(more, longer)
        /\ \A c \in Bases(segs) : c # Last(segs).base => longer[c] = fs[c]
        /\ longer[Last(segs).base] = fs[Last(segs).base] \o batch
    BY <1>1, MoreIsListed
  <2> HIDE DEF more, longer
  <2>2. b \in Bases(segs) /\ b \in DOMAIN longer /\ fs[b] \in Seq(Payloads)
    BY <1>1, <1>4, <2>1 DEF Lists
  <2>3. CASE b = Last(segs).base
    <3>1. longer[b] = fs[b] \o batch
      BY <2>1, <2>3
    <3>2. Len(fs[b] \o batch) = Len(fs[b]) + Len(batch) /\ Len(fs[b]) \in Nat
      BY <2>2
    <3> QED BY <1>2, <2>2, <3>1, <3>2
  <2>4. CASE b # Last(segs).base
    <3>1. longer[b] = fs[b] /\ Len(fs[b]) \in Nat
      BY <2>1, <2>2, <2>4
    <3> QED BY <2>2, <3>1
  <2> QED BY <2>3, <2>4
<1> HIDE DEF more, longer, all
<1>6. CASE ~IsFull(more)
  <2>1. rolled = more /\ onDisk = longer
    BY <1>6 DEF Rolling, RollingFiles
  <2> HIDE DEF rolled, onDisk
  <2> QED BY <1>3, <1>4, <1>5, <2>1 DEF more, longer, rolled, onDisk, all
<1>7. CASE IsFull(more)
  <2>1. rolled = Rolled(more) /\ onDisk = With(longer, End(more), <<>>)
    BY <1>7 DEF Rolling, RollingFiles
  <2>2. Last(more).count > 0
    <3>1. Last(more).count >= Segment /\ Last(more).count \in Nat
      BY <1>4, <1>7, Chained DEF IsFull
    <3> QED BY <3>1, OptionsAssumption
  <2>3. Kept(rolled, onDisk, all)
    BY <1>2, <1>3, <2>1, <2>2, RolledIsKept
  <2>4. /\ Last(rolled) = [base |-> End(more), count |-> 0]
        /\ End(rolled) = End(more) /\ Base(rolled) = Base(more)
    BY <1>4, <2>1, <2>2, RolledIsChain
  <2>5. /\ Lists(more, longer) /\ DOMAIN longer = Bases(more)
    BY <1>3 DEF Kept, Lists
  <2>6. (\A b \in Bases(more) : onDisk[b] = longer[b]) /\ DOMAIN longer \subseteq DOMAIN onDisk
    BY <2>1, <2>2, <2>5, RolledIsListed DEF With
  <2> HIDE DEF rolled, onDisk
  <2>7. \A b \in DOMAIN fs : b \in DOMAIN onDisk /\ Len(fs[b]) <= Len(onDisk[b])
    BY <1>5, <2>5, <2>6
  <2>8. Last(rolled).base = End(rolled)
    BY <2>4
  <2> QED BY <1>4, <2>3, <2>4, <2>7, <2>8 DEF more, longer, rolled, onDisk, all
<1> QED BY <1>6, <1>7

(* A step that adds to the topic or releases a part of it.                 *)
Grows ==
    /\ up /\ up' = TRUE
    /\ Kept(segments', files', log') /\ active' = Last(segments').base
    /\ log' \in Seq(Payloads)
    /\ \A b \in DOMAIN files :
          \/ b \in DOMAIN files' /\ Len(files[b]) <= Len(files'[b])
          \/ \A g \in groups' \ observers' : b + Len(files[b]) <= position'[g]
    /\ \A g \in groups' \ observers' :
          Base(segments) <= position'[g] => Base(segments') <= position'[g]

(* A kept file is named by a number and holds records. *)
LEMMA FilesAre ==
    ASSUME NEW segs, NEW fs, NEW lg, Kept(segs, fs, lg), NEW b \in DOMAIN fs
    PROVE  b \in Nat /\ fs[b] \in Seq(Payloads) /\ Len(fs[b]) \in Nat
<1>1. Chain(segs) /\ fs \in [Bases(segs) -> Seq(Payloads)]
  BY DEF Kept, Lists
<1>2. Bases(segs) \in SUBSET Nat
  BY <1>1, BasesInOrder
<1>3. b \in Nat /\ fs[b] \in Seq(Payloads)
  BY <1>1, <1>2
<1> QED BY <1>3

(* A batch that is taken, and the release after it, grow the topic, by no  *)
(* more than is allowed.                                                   *)
LEMMA TakeBatchGrows ==
    ASSUME Tolerated, Types, InIndex, NEW s \in Senders, NEW ok \in BOOLEAN, TakeBatch(s, ok)
    PROVE  Grows /\ Between(segments')
<1> DEFINE batch == pending[s]
           more == More(segments, Len(batch))
           longer == Longer(segments, files, batch)
           rolled == Rolling(more)
           onDisk == RollingFiles(more, longer)
           n == Released(rolled, groups, observers, position)
           rest == Without(rolled, n)
           left == FilesWithout(onDisk, rolled, n)
<1>1. /\ up /\ up' = up /\ active' = Last(rolled).base
      /\ Release(onDisk, rolled, groups, observers, position, ok)
      /\ log' = log \o batch /\ Fits(Len(batch))
      /\ groups' = groups /\ observers' = observers /\ position' = position
  <2>1. active = Last(segments).base
    BY DEF InIndex, TakeBatch
  <2> QED BY <2>1 DEF TakeBatch, AppendedFiles, AppendedIndex, Counted, Written, More, Longer,
                      Rolling, RollingFiles, positions
<1>2. batch \in Seq(Payloads) /\ Len(batch) \in 0..MaxBatch /\ log \in Seq(Payloads)
  <2>1. batch \in Seq(Payloads) /\ Len(batch) <= MaxBatch /\ log \in Seq(Payloads)
    BY DEF Types
  <2> QED BY <2>1, BoundsAssumption
<1>3. Kept(segments, files, log) /\ Chain(segments)
  BY <1>1 DEF InIndex, Kept, Lists
<1>4. /\ Kept(rolled, onDisk, log \o batch)
      /\ End(rolled) = End(segments) + Len(batch) /\ Base(rolled) = Base(segments)
      /\ \A b \in DOMAIN files : b \in DOMAIN onDisk /\ Len(files[b]) <= Len(onDisk[b])
  BY <1>2, <1>3, RollingIsKept
<1>5. groups \in SUBSET Groups /\ position \in [Groups -> Nat]
  BY DEF Types
<1> HIDE DEF batch, more, longer, rolled, onDisk
<1>6. Chain(rolled)
  BY <1>4 DEF Kept, Lists
<1>7. Between(rest)
  <2>1. LET waiting == BytesFrom(segments, Floor(segments, groups, observers, position))
        IN  waiting = 0 \/ waiting + Len(batch) <= Capacity
    BY <1>1 DEF Fits
  <2> QED BY <1>2, <1>3, <1>4, <1>5, <1>6, <2>1, BatchFits
<1>8. /\ n \in 0..(Len(rolled) - 1)
      /\ Kept(rest, left, log \o batch) /\ Last(rest) = Last(rolled)
      /\ \A g \in groups \ observers : Base(rolled) <= position[g] => Base(rest) <= position[g]
      /\ \A b \in DOMAIN onDisk : \/ b \in DOMAIN left /\ left[b] = onDisk[b]
                                  \/ \A g \in groups \ observers : b + Len(onDisk[b]) <= position[g]
  BY <1>4, <1>5, ReleaseLeaves
<1>9. files' = left /\ segments' = rest
  <2>1. ok
    BY <1>1 DEF Release, Tolerated
  <2> QED BY <1>1, <2>1 DEF Release
<1> HIDE DEF n, rest, left
<1>10. ASSUME NEW b \in DOMAIN files
       PROVE  \/ b \in DOMAIN left /\ Len(files[b]) <= Len(left[b])
              \/ \A g \in groups \ observers : b + Len(files[b]) <= position[g]
  <2>1. b \in DOMAIN onDisk /\ Len(files[b]) <= Len(onDisk[b])
    BY <1>4
  <2>2. b \in Nat /\ Len(onDisk[b]) \in Nat /\ Len(files[b]) \in Nat
    BY <1>3, <1>4, <2>1, FilesAre
  <2>3. \A g \in groups \ observers : position[g] \in Nat
    BY <1>5
  <2>4. CASE b \in DOMAIN left /\ left[b] = onDisk[b]
    BY <2>1, <2>4
  <2>5. CASE \A g \in groups \ observers : b + Len(onDisk[b]) <= position[g]
    BY <2>1, <2>2, <2>3, <2>5
  <2> QED BY <1>8, <2>1, <2>4, <2>5
<1>11. log' \in Seq(Payloads)
  BY <1>1, <1>2
<1>12. Kept(segments', files', log') /\ active' = Last(segments').base /\ Between(segments')
  BY <1>1, <1>7, <1>8, <1>9
<1>13. \A b \in DOMAIN files :
          \/ b \in DOMAIN files' /\ Len(files[b]) <= Len(files'[b])
          \/ \A g \in groups' \ observers' : b + Len(files[b]) <= position'[g]
  BY <1>1, <1>9, <1>10
<1>14. \A g \in groups' \ observers' :
          Base(segments) <= position'[g] => Base(segments') <= position'[g]
  BY <1>1, <1>4, <1>8, <1>9
<1> QED BY <1>1, <1>11, <1>12, <1>13, <1>14 DEF Grows

(* So does a batch after which no segment could be started. *)
LEMMA RollFailsGrows ==
    ASSUME Tolerated, Types, InIndex, NEW s \in Senders, RollFails(s)
    PROVE  /\ Grows
           /\ EndOf(segments[1]) <= EndOf(segments'[1]) /\ Last(segments').base = Last(segments).base
<1> DEFINE batch == pending[s]
           more == More(segments, Len(batch))
           longer == Longer(segments, files, batch)
<1>1. /\ up /\ up' = up /\ active' = active
      /\ segments' = more /\ files' = longer
      /\ log' = log \o batch
      /\ groups' = groups /\ observers' = observers /\ position' = position
      /\ active = Last(segments).base
  <2>1. active = Last(segments).base
    BY DEF InIndex, RollFails
  <2>2. "sync" \notin Failures
    BY DEF Tolerated
  <2> QED BY <2>1, <2>2 DEF RollFails, Counted, Written, More, Longer, positions
<1>2. batch \in Seq(Payloads) /\ Len(batch) \in Nat /\ log \in Seq(Payloads)
  BY DEF Types
<1>3. Kept(segments, files, log) /\ Lists(segments, files) /\ Chain(segments)
      /\ files \in [Bases(segments) -> Seq(Payloads)]
  BY <1>1 DEF InIndex, Kept, Lists
<1>4. /\ Chain(more) /\ Last(more).base = Last(segments).base
      /\ Base(more) = Base(segments) /\ EndOf(segments[1]) <= EndOf(more[1])
  BY <1>2, <1>3, MoreIsChain
<1>5. Kept(more, longer, log \o batch)
  BY <1>2, <1>3, MoreIsKept
<1>6. /\ \A b \in Bases(segments) : b # Last(segments).base => longer[b] = files[b]
      /\ longer[Last(segments).base] = files[Last(segments).base] \o batch
      /\ DOMAIN longer = DOMAIN files
  BY <1>2, <1>3, MoreIsListed DEF Longer
<1> HIDE DEF batch, more, longer
<1>8. ASSUME NEW b \in DOMAIN files
      PROVE  b \in DOMAIN longer /\ Len(files[b]) <= Len(longer[b])
  <2>1. b \in Bases(segments) /\ files[b] \in Seq(Payloads) /\ Len(files[b]) \in Nat
    BY <1>3
  <2>2. CASE b = Last(segments).base
    <3>1. Len(files[b] \o batch) = Len(files[b]) + Len(batch)
      BY <1>2, <2>1
    <3> QED BY <1>2, <1>6, <2>1, <2>2, <3>1
  <2>3. CASE b # Last(segments).base
    BY <1>6, <2>1, <2>3
  <2> QED BY <2>2, <2>3
<1>9. log' \in Seq(Payloads)
  BY <1>1, <1>2
<1> QED BY <1>1, <1>4, <1>5, <1>8, <1>9 DEF Grows

(* A cut puts the file back to what the index has. *)
LEMMA WriteFailsLeaves ==
    ASSUME Tolerated, Types, InIndex, NEW s \in Senders, WriteFails(s)
    PROVE  files' = files
<1> DEFINE batch == pending[s]
<1>1. /\ up /\ active = Last(segments).base /\ "truncate" \notin Failures
      /\ \E left \in LeftBehind(batch) : files' = [files EXCEPT ![active] = left]
  BY DEF InIndex, WriteFails, Tolerated
<1>2. Kept(segments, files, log) /\ Lists(segments, files) /\ Chain(segments)
      /\ files \in [Bases(segments) -> Seq(Payloads)]
  BY <1>1 DEF InIndex, Kept, Lists
<1>3. active \in Bases(segments) /\ files[active] \in Seq(Payloads)
      /\ Len(files[active]) = Last(segments).count
  <2>1. Len(segments) \in 1..Len(segments) /\ Last(segments) = segments[Len(segments)]
        /\ Last(segments).base \in Bases(segments)
    BY <1>2, Chained
  <2> QED BY <1>1, <1>2, <2>1 DEF Lists
<1>4. PICK part \in CutOff(batch) :
         files' = [files EXCEPT ![active] = SetLen(files[active] \o part, Last(segments).count)]
  <2>1. PICK left \in LeftBehind(batch) : files' = [files EXCEPT ![active] = left]
    BY <1>1
  <2>2. \E part \in CutOff(batch) : left = SetLen(files[active] \o part, Last(segments).count)
    BY <1>1 DEF LeftBehind
  <2> QED BY <2>1, <2>2
<1>5. part \in Seq(Payloads \union {Torn})
  <2>1. batch \in Seq(Payloads)
    BY DEF Types
  <2> HIDE DEF batch
  <2>2. \A n \in 0..Len(batch) : SubSeq(batch, 1, n) \in Seq(Payloads)
    BY <2>1
  <2>3. \A t \in Seq(Payloads) : t \in Seq(Payloads \union {Torn}) /\ t \o <<Torn>> \in Seq(Payloads \union {Torn})
    OBVIOUS
  <2>4. \A n \in 0..(Len(batch) - 1) : n \in 0..Len(batch)
    BY <2>1
  <2> QED BY <2>2, <2>3, <2>4 DEF CutOff
<1>6. SetLen(files[active] \o part, Last(segments).count) = files[active]
  <2> DEFINE was == files[active]
  <2>1. was \in Seq(Payloads) /\ Len(was) = Last(segments).count
    BY <1>3
  <2> HIDE DEF was
  <2>2. \A i \in 1..Len(was) : i <= Len(was \o part) /\ (was \o part)[i] = was[i]
    BY <1>5, <2>1
  <2>3. SetLen(was \o part, Len(was)) = [i \in 1..Len(was) |-> was[i]]
    BY <2>2 DEF SetLen
  <2>4. was = [i \in 1..Len(was) |-> was[i]]
    BY <2>1
  <2>5. SetLen(was \o part, Last(segments).count) = was
    BY <2>1, <2>3, <2>4
  <2> QED BY <2>5 DEF was
<1> QED BY <1>2, <1>3, <1>4, <1>6

(* A release by a group that acknowledges or leaves. *)
LEMMA ReleaseGrows ==
    ASSUME Tolerated, Types, InIndex, up, up' = up, active' = active, log' = log,
           groups' \in SUBSET Groups,
           NEW at \in [Groups -> Nat], NEW ok \in BOOLEAN,
           Release(files, segments, groups', observers', at, ok),
           \A g \in groups' : position'[g] = at[g]
    PROVE  /\ Grows
           /\ EndOf(segments[1]) <= EndOf(segments'[1]) /\ Last(segments').base = Last(segments).base
<1> DEFINE mine == groups'
           watching == observers'
           n == Released(segments, mine, watching, at)
           rest == Without(segments, n)
           left == FilesWithout(files, segments, n)
<1>1. Kept(segments, files, log) /\ active = Last(segments).base
      /\ Chain(segments) /\ log \in Seq(Payloads)
  BY DEF InIndex, Kept, Lists, Types
<1>2. files' = left /\ segments' = rest
  <2>1. ok
    BY DEF Release, Tolerated
  <2> QED BY <2>1 DEF Release
<1> HIDE DEF mine, watching
<1>3. mine \in SUBSET Groups
  BY DEF mine
<1>4. /\ n \in 0..(Len(segments) - 1)
      /\ Kept(rest, left, log) /\ Last(rest) = Last(segments)
      /\ \A g \in mine \ watching : Base(segments) <= at[g] => Base(rest) <= at[g]
      /\ \A b \in DOMAIN files : \/ b \in DOMAIN left /\ left[b] = files[b]
                                 \/ \A g \in mine \ watching : b + Len(files[b]) <= at[g]
  BY <1>1, <1>3, ReleaseLeaves
<1>5. EndOf(segments[1]) <= EndOf(rest[1]) /\ Last(rest) = Last(segments)
  BY <1>1, <1>4, RestIsCloser
<1> HIDE DEF n, rest, left
<1>6. \A b \in DOMAIN files : Len(files[b]) \in Nat
  BY <1>1, FilesAre
<1>7. \A b \in DOMAIN files :
          \/ b \in DOMAIN files' /\ Len(files[b]) <= Len(files'[b])
          \/ \A g \in mine \ watching : b + Len(files[b]) <= position'[g]
  <2> TAKE b \in DOMAIN files
  <2>1. CASE b \in DOMAIN left /\ left[b] = files[b]
    <3>1. Len(files[b]) <= Len(left[b])
      BY <1>6, <2>1
    <3> QED BY <1>2, <2>1, <3>1
  <2>2. CASE \A g \in mine \ watching : b + Len(files[b]) <= at[g]
    BY <2>2 DEF mine
  <2> QED BY <1>4, <2>1, <2>2
<1>8. \A g \in mine \ watching : Base(segments) <= position'[g] => Base(segments') <= position'[g]
  BY <1>2, <1>4 DEF mine
<1>9. Kept(segments', files', log') /\ active' = Last(segments').base
  BY <1>1, <1>2, <1>4
<1> QED BY <1>1, <1>2, <1>5, <1>7, <1>8, <1>9 DEF Grows, mine, watching

(* What a crash in the middle of a write leaves can be opened: whole       *)
(* records behind those of the log, and perhaps a part of one more.        *)
LEMMA CutOffIs ==
    ASSUME NEW batch \in Seq(Payloads), NEW part \in CutOff(batch), NEW was \in Seq(Payloads)
    PROVE  /\ Whole(part) \in Seq(Payloads)
           /\ was \o part \in Seq(Payloads \union {Torn, Blank})
           /\ Whole(was \o part) = was \o Whole(part)
<1> DEFINE P == Payloads
<1>1. Torn \notin P
  BY FailuresAssumption
<1>2. \A n \in 0..Len(batch) : SubSeq(batch, 1, n) \in Seq(P)
  OBVIOUS
<1>3. CASE part \in Seq(P)
  <2>1. was \o part \in Seq(P)
    BY <1>3
  <2>2. Whole(part) = part /\ Whole(was \o part) = was \o part
    BY <1>3, <2>1, WholePayloads
  <2>3. was \o part \in Seq(P \union {Torn, Blank})
    BY <2>1
  <2> QED BY <1>3, <2>2, <2>3
<1>4. ASSUME NEW t \in Seq(P), part = t \o <<Torn>>
      PROVE  /\ Whole(part) \in Seq(P)
             /\ was \o part \in Seq(P \union {Torn, Blank})
             /\ Whole(was \o part) = was \o Whole(part)
  <2>1. part = Append(t, Torn) /\ was \o part = Append(was \o t, Torn) /\ was \o t \in Seq(P)
    BY <1>4
  <2>2. Whole(part) = t
    BY <1>1, <2>1, WholeLeavesTorn
  <2>3. Whole(was \o part) = was \o t
    <3> HIDE DEF P
    <3> QED BY <1>1, <2>1, WholeLeavesTorn
  <2>4. was \o part \in Seq(P \union {Torn, Blank})
    BY <1>4
  <2> QED BY <2>2, <2>3, <2>4
<1>5. part \in Seq(P) \/ \E t \in Seq(P) : part = t \o <<Torn>>
  <2>1. \A n \in 0..(Len(batch) - 1) : n \in 0..Len(batch)
    OBVIOUS
  <2> QED BY <1>2, <2>1 DEF CutOff
<1> QED BY <1>3, <1>4, <1>5

(* After a crash in the middle of a write, opening finds a part of the     *)
(* batch.                                                                  *)
LEMMA CrashWritingLeaves ==
    ASSUME Types, InIndex, Reaches(segments, DOMAIN offsets \ Observers, offsets),
           NEW s \in Senders, CrashWriting(s)
    PROVE  OnDisk' /\ log' \in Seq(Payloads)
<1> DEFINE batch == pending[s]
<1>1. up /\ batch \in Seq(Payloads) /\ log \in Seq(Payloads)
  BY DEF CrashWriting, Types
<1>2. Kept(segments, files, log) /\ active = Last(segments).base
      /\ Lists(segments, files) /\ Chain(segments)
      /\ files \in [Bases(segments) -> Seq(Payloads)]
  BY <1>1 DEF InIndex, Kept, Lists
<1>3. PICK part \in CutOff(batch) : files' = Written(part) /\ log' = log \o Whole(part)
  BY DEF CrashWriting
<1>4. offsets' = offsets
  BY DEF CrashWriting
<1>5. active \in Bases(segments) /\ files[active] \in Seq(Payloads)
  BY <1>2, Chained
<1> HIDE DEF batch
<1>6. /\ Whole(part) \in Seq(Payloads)
      /\ files[active] \o part \in Seq(Payloads \union {Torn, Blank})
      /\ Whole(files[active] \o part) = files[active] \o Whole(part)
  BY <1>1, <1>3, <1>5, CutOffIs
<1> DEFINE w == Whole(part)
           more == More(segments, Len(w))
           longer == Longer(segments, files, w)
<1> HIDE DEF w
<1>7. Kept(more, longer, log \o w)
  BY <1>1, <1>2, <1>6, MoreIsKept DEF w
<1>8. /\ Chain(more) /\ Last(more).base = Last(segments).base
      /\ Base(more) = Base(segments) /\ EndOf(segments[1]) <= EndOf(more[1])
      /\ Bases(more) = Bases(segments)
  BY <1>2, <1>6, MoreIsChain DEF w
<1>10. files' \in [Bases(segments) -> Seq(Payloads \union {Torn, Blank})]
  <2>1. \A b \in Bases(segments) : files[b] \in Seq(Payloads \union {Torn, Blank})
    <3>1. \A t \in Seq(Payloads) : t \in Seq(Payloads \union {Torn, Blank})
      OBVIOUS
    <3> QED BY <1>2, <3>1
  <2>2. files' = [files EXCEPT ![active] = files[active] \o part]
    BY <1>3 DEF Written
  <2> QED BY <1>2, <1>5, <1>6, <2>1, <2>2
<1>11. \A b \in Bases(segments) :
          longer[b] = IF b = active THEN Whole(files'[b]) ELSE files'[b]
  <2>1. files' = [files EXCEPT ![active] = files[active] \o part]
    BY <1>3 DEF Written
  <2>2. longer = [files EXCEPT ![active] = files[active] \o w]
    BY <1>2 DEF Longer
  <2>3. Whole(files[active] \o part) = files[active] \o w
    BY <1>6 DEF w
  <2> QED BY <1>2, <1>5, <2>1, <2>2, <2>3
<1> HIDE DEF more, longer
<1>12. PICK M, F, D, lg : M = more /\ F = longer /\ D = files' /\ lg = log'
  OBVIOUS
<1>13. /\ Kept(M, F, lg)
       /\ Reaches(M, DOMAIN offsets \ Observers, offsets)
  BY <1>3, <1>7, <1>8, <1>12 DEF Reaches, w
<1>14. CutShort(D, M, F)
  BY <1>2, <1>8, <1>10, <1>11, <1>12 DEF CutShort
<1>15. log' = log \o w /\ log \o w \in Seq(Payloads)
  BY <1>1, <1>3, <1>6 DEF w
<1>16. OnDisk'
  BY <1>4, <1>12, <1>13, <1>14 DEF OnDisk
<1> QED BY <1>15, <1>16

(* A group that holds the topic has received everything before its         *)
(* position, on disk and in memory, and everything before its reader.      *)
Caught ==
    /\ \A g \in DOMAIN offsets \ Observers : 0..(offsets[g] - 1) \subseteq seen[g]
    /\ \A g \in Holding : rpc[g] # "closed" =>
          position[g] <= next[g] /\ 0..(next[g] - 1) \subseteq seen[g]

(* What a holding group located is in the files, at or behind its reader.  *)
InFile(run, from, fs) ==
    /\ run.file \in DOMAIN fs /\ run.count > 0
    /\ run.skip + run.count <= Len(fs[run.file])
    /\ from <= run.file + run.skip

InFiles ==
    /\ \A g \in Groups : rpc[g] # "reading" => runs[g] = <<>>
    /\ \A g \in Holding : \A i \in DOMAIN runs[g] : InFile(runs[g][i], next[g], files)

IInv == Types /\ OnDisk /\ InIndex /\ Positions /\ Caught /\ InFiles

-----------------------------------------------------------------------------
(* Steps of a sender that change what it waits for only.                   *)
Sends ==
    /\ UNCHANGED <<disk, up, index, positions, rpc, next, skipped, last, runs, history>>
    /\ spc' \in [Senders -> SenderStates] /\ swoken' \in [Senders -> BOOLEAN]
    /\ pending' \in [Senders -> Seq(Payloads)]
    /\ \A s \in Senders : Len(pending'[s]) <= MaxBatch
    /\ rwoken' \in [Groups -> BOOLEAN]

(* A batch is a sequence of no more records than MaxBatch. *)
LEMMA BatchIs == \A batch \in Batches : batch \in Seq(Payloads) /\ Len(batch) <= MaxBatch
<1> SUFFICES ASSUME NEW batch \in Batches PROVE batch \in Seq(Payloads) /\ Len(batch) <= MaxBatch
  OBVIOUS
<1>1. PICK n \in 1..MaxBatch : batch \in [1..n -> Payloads]
  BY DEF Batches
<1>2. n \in Nat /\ n <= MaxBatch
  BY <1>1, BoundsAssumption
<1>3. batch \in Seq(Payloads) /\ Len(batch) = n
  BY <1>1, <1>2
<1> QED BY <1>2, <1>3

(* The steps of a sender that touch neither index nor files, a failed      *)
(* write that was cut back among them.                                     *)
LEMMA SendsAre ==
    ASSUME Tolerated, Types, InIndex, NEW s \in Senders,
           \/ \E batch \in Batches : Send(s, batch)
           \/ AwaitRoom(s) \/ Retry(s) \/ NotifyArrived(s) \/ Cancel(s) \/ WriteFails(s)
    PROVE  Sends
<1>0. /\ spc \in [Senders -> SenderStates] /\ swoken \in [Senders -> BOOLEAN]
      /\ pending \in [Senders -> Seq(Payloads)]
      /\ \A t \in Senders : Len(pending[t]) <= MaxBatch
      /\ rwoken \in [Groups -> BOOLEAN]
  BY DEF Types
<1>a. <<>> \in Seq(Payloads) /\ Len(<<>>) <= MaxBatch
  BY BoundsAssumption
<1>1. ASSUME NEW batch \in Batches, Send(s, batch) PROVE Sends
  <2>1. batch \in Seq(Payloads) /\ Len(batch) <= MaxBatch
    BY BatchIs
  <2>2. /\ UNCHANGED <<disk, up, index, positions, receivers, history>>
        /\ spc' = [spc EXCEPT ![s] = "registered"]
        /\ pending' = [pending EXCEPT ![s] = batch]
        /\ swoken' = [swoken EXCEPT ![s] = FALSE]
    BY <1>1 DEF Send
  <2> QED BY <1>0, <2>1, <2>2 DEF Sends, SenderStates, receivers
<1>2. CASE AwaitRoom(s)
  BY <1>0, <1>2 DEF AwaitRoom, Sends, SenderStates, receivers
<1>3. CASE Retry(s)
  BY <1>0, <1>3 DEF Retry, Sends, SenderStates, receivers
<1>4. CASE NotifyArrived(s)
  BY <1>0, <1>4 DEF NotifyArrived, WakeReceivers, Sends, SenderStates
<1>5. CASE Cancel(s)
  BY <1>0, <1>a, <1>5 DEF Cancel, Sends, SenderStates, receivers
<1>6. CASE WriteFails(s)
  <2>1. files' = files
    BY <1>6, WriteFailsLeaves
  <2> QED BY <1>0, <1>a, <1>6, <2>1 DEF WriteFails, Sends, SenderStates, receivers, disk
<1> QED BY <1>1, <1>2, <1>3, <1>4, <1>5, <1>6

(* They keep the invariant. *)
LEMMA SendsKeep == ASSUME IInv, Sends PROVE IInv'
<1>1. /\ files' = files /\ offsets' = offsets /\ up' = up /\ segments' = segments /\ active' = active
      /\ groups' = groups /\ position' = position /\ observers' = observers
      /\ rpc' = rpc /\ next' = next /\ skipped' = skipped /\ runs' = runs
      /\ log' = log /\ seen' = seen
  BY DEF Sends, disk, index, positions, history
<1>2. Types'
  BY <1>1 DEF IInv, Types, Sends
<1>3. OnDisk' /\ InIndex' /\ Positions'
  BY <1>1 DEF IInv, OnDisk, InIndex, Positions, Holding
<1>4. Caught' /\ InFiles'
  BY <1>1 DEF IInv, Caught, InFiles, Holding
<1> QED BY <1>2, <1>3, <1>4 DEF IInv

-----------------------------------------------------------------------------
(* Steps of a receiver that change what it waits for only.                 *)
Waits ==
    /\ UNCHANGED <<disk, up, index, positions, spc, pending, next, history>>
    /\ rpc' \in [Groups -> ReceiverStates] /\ rwoken' \in [Groups -> BOOLEAN]
    /\ swoken' \in [Senders -> BOOLEAN] /\ skipped' \in [Groups -> Nat]
    /\ runs' \in [Groups -> Seq(Runs)]
    /\ \A g \in Groups : \/ rpc'[g] = rpc[g] /\ runs'[g] = runs[g]
                         \/ rpc[g] # "closed" /\ rpc'[g] \notin {"closed", "reading"}
                            /\ runs'[g] = <<>>

(* The steps of a receiver that neither locate, read nor acknowledge. *)
LEMMA WaitsAre ==
    ASSUME Types, InFiles, NEW g \in Groups,
           \/ Receive(g) \/ ReceiveFails(g) \/ Recheck(g) \/ TimeOut(g)
           \/ NotifyReleased(g) \/ TakeSkipped(g) \/ ReadFails(g)
    PROVE  Waits
<1>0. /\ swoken \in [Senders -> BOOLEAN] /\ rpc \in [Groups -> ReceiverStates]
      /\ rwoken \in [Groups -> BOOLEAN] /\ skipped \in [Groups -> Nat]
      /\ runs \in [Groups -> Seq(Runs)]
      /\ \A h \in Groups : rpc[h] # "reading" => runs[h] = <<>>
  BY DEF Types, InFiles
<1>a. <<>> \in Seq(Runs)
  OBVIOUS
<1>1. CASE Receive(g)
  BY <1>0, <1>1 DEF Receive, Waits, ReceiverStates, senders
<1>2. CASE ReceiveFails(g)
  BY <1>0, <1>2 DEF ReceiveFails, Waits, ReceiverStates, senders
<1>3. CASE Recheck(g)
  BY <1>0, <1>3 DEF Recheck, Waits, ReceiverStates, senders
<1>4. CASE TimeOut(g)
  BY <1>0, <1>4 DEF TimeOut, Waits, ReceiverStates, senders
<1>5. CASE NotifyReleased(g)
  BY <1>0, <1>5 DEF NotifyReleased, WakeSenders, Waits, ReceiverStates
<1>6. CASE TakeSkipped(g)
  BY <1>0, <1>6 DEF TakeSkipped, Waits, ReceiverStates, senders
<1>7. CASE ReadFails(g)
  BY <1>0, <1>a, <1>7 DEF ReadFails, Waits, ReceiverStates, senders
<1> QED BY <1>1, <1>2, <1>3, <1>4, <1>5, <1>6, <1>7

(* They keep the invariant. *)
LEMMA WaitsKeep == ASSUME IInv, Waits PROVE IInv'
<1>1. /\ files' = files /\ offsets' = offsets /\ up' = up /\ segments' = segments /\ active' = active
      /\ groups' = groups /\ position' = position /\ observers' = observers
      /\ next' = next /\ spc' = spc /\ pending' = pending /\ log' = log /\ seen' = seen
  BY DEF Waits, disk, index, positions, history
<1>2. /\ \A g \in Groups : \/ rpc'[g] = rpc[g] /\ runs'[g] = runs[g]
                           \/ rpc[g] # "closed" /\ rpc'[g] \notin {"closed", "reading"}
                              /\ runs'[g] = <<>>
      /\ groups \subseteq Groups
  BY DEF Waits, IInv, Types
<1>3. Types'
  <2>1. ~up' => \A g \in Groups : rpc'[g] = "closed"
    BY <1>1, <1>2 DEF IInv, Types
  <2> QED BY <1>1, <2>1 DEF IInv, Types, Waits
<1>4. OnDisk' /\ InIndex' /\ Positions'
  BY <1>1 DEF IInv, OnDisk, InIndex, Positions, Holding
<1>5. Caught'
  <2>1. \A g \in Holding : rpc'[g] # "closed" => rpc[g] # "closed"
    BY <1>2 DEF Holding
  <2> QED BY <1>1, <2>1 DEF IInv, Caught, Holding
<1>6. InFiles'
  <2>1. \A g \in Groups : rpc'[g] # "reading" => runs'[g] = <<>>
    BY <1>2 DEF IInv, InFiles
  <2>2. \A g \in Holding : runs'[g] = runs[g] \/ runs'[g] = <<>>
    BY <1>2 DEF Holding
  <2>3. DOMAIN <<>> = {}
    OBVIOUS
  <2>4. \A g \in Holding : \A i \in DOMAIN runs'[g] : InFile(runs'[g][i], next[g], files)
    BY <2>2, <2>3 DEF IInv, InFiles
  <2> QED BY <1>1, <2>1, <2>4 DEF InFiles, Holding
<1> QED BY <1>3, <1>4, <1>5, <1>6 DEF IInv

(* What holds of the state goes on holding when the topic grows or a part  *)
(* of it is released: what a group located and has not read was not        *)
(* released, as its position is behind it.                                 *)
LEMMA GrowsKeep ==
    ASSUME IInv, Grows, Types', groups' \subseteq groups,
           next' = next, runs' = runs,
           \A g \in Groups : \/ rpc'[g] = rpc[g]
                             \/ /\ rpc[g] \notin {"closed", "reading"}
                                /\ rpc'[g] \notin {"closed", "reading"},
           \A g \in groups' \ Observers :
              /\ position[g] <= position'[g] /\ position'[g] <= offsets'[g]
              /\ rpc[g] # "closed" => position'[g] <= next[g]
              /\ seen'[g] = seen[g],
           \A g \in DOMAIN offsets' \ Observers : 0..(offsets'[g] - 1) \subseteq seen'[g]
    PROVE  IInv'
<1>1. /\ up /\ up' = TRUE /\ Kept(segments, files, log) /\ Chain(segments)
      /\ groups \subseteq Groups /\ position \in [Groups -> Nat] /\ next \in [Groups -> Nat]
      /\ runs \in [Groups -> Seq(Runs)]
  BY DEF Grows, IInv, InIndex, Kept, Lists, Types
<1>2. OnDisk'
  BY <1>1 DEF OnDisk
<1>3. InIndex'
  BY DEF Grows, InIndex
<1>4. observers' \subseteq Observers /\ position' \in [Groups -> Nat]
  BY DEF Types
<1>5. Base(segments) \in Nat
  BY <1>1, Chained
<1>6. Kept(segments', files', log') /\ Chain(segments')
  BY DEF Grows, Kept, Lists
<1>7. Base(segments') \in Nat
  BY <1>6, Chained
<1>8. Positions'
  <2> SUFFICES ASSUME NEW g \in groups' \ Observers
               PROVE  position'[g] <= offsets'[g] /\ Base(segments') <= position'[g]
    BY DEF Positions, Holding
  <2>1. Base(segments) <= position[g] /\ position[g] <= position'[g]
        /\ position[g] \in Nat /\ position'[g] \in Nat
    BY <1>1, <1>4 DEF IInv, Positions, Holding
  <2>2. Base(segments) <= position'[g]
    BY <1>5, <2>1
  <2>3. g \in groups' \ observers'
    BY <1>4
  <2>4. Base(segments') <= position'[g]
    BY <2>2, <2>3 DEF Grows
  <2> QED BY <2>4
<1>9. Caught'
  <2> SUFFICES ASSUME NEW g \in groups' \ Observers, rpc'[g] # "closed"
               PROVE  position'[g] <= next'[g] /\ 0..(next'[g] - 1) \subseteq seen'[g]
    BY DEF Caught, Holding
  <2>1. rpc[g] # "closed"
    BY <1>1
  <2>2. 0..(next[g] - 1) \subseteq seen[g]
    BY <2>1 DEF IInv, Caught, Holding
  <2> QED BY <2>1, <2>2
<1>10. InFiles'
  <2>1. ASSUME NEW g \in Groups, rpc'[g] # "reading" PROVE runs'[g] = <<>>
    BY <2>1 DEF IInv, InFiles
  <2>2. ASSUME NEW g \in groups' \ Observers, NEW i \in DOMAIN runs[g]
        PROVE  InFile(runs[g][i], next[g], files')
    <3> DEFINE run == runs[g][i]
    <3>1. g \in Groups /\ runs[g] \in Seq(Runs) /\ runs[g] # <<>>
      BY <1>1
    <3>2. InFile(run, next[g], files) /\ rpc[g] # "closed"
      BY <3>1 DEF IInv, InFiles, Holding
    <3>3. run \in Runs
      BY <3>1
    <3> HIDE DEF run
    <3>4. PICK b, skip, count, n, from, at :
             /\ b = run.file /\ skip = run.skip /\ count = run.count /\ n = Len(files[b])
             /\ from = next[g] /\ at = position'[g]
      OBVIOUS
    <3>5. b \in DOMAIN files /\ count > 0 /\ skip + count <= n /\ from <= b + skip /\ at <= from
      BY <3>2, <3>4 DEF InFile
    <3>6. b \in Nat /\ skip \in Nat /\ count \in Nat /\ n \in Nat /\ from \in Nat /\ at \in Nat
      <4>1. n \in Nat
        BY <1>1, <3>4, <3>5, FilesAre
      <4> QED BY <1>1, <1>4, <3>1, <3>3, <3>4, <4>1 DEF Runs
    <3>7. ~(b + n <= at)
      BY ONLY <3>5, <3>6
    <3>8. g \in groups' \ observers'
      BY <1>4
    <3>9. b \in DOMAIN files' /\ n <= Len(files'[b])
      BY <3>4, <3>5, <3>7, <3>8 DEF Grows
    <3>10. Len(files'[b]) \in Nat
      BY <1>6, <3>9, FilesAre
    <3>11. skip + count <= Len(files'[b])
      BY <3>5, <3>6, <3>9, <3>10
    <3>12. InFile(run, next[g], files')
      BY <3>4, <3>5, <3>9, <3>11 DEF InFile
    <3> QED BY <3>12 DEF run
  <2> QED BY <2>1, <2>2 DEF InFiles, Holding
<1> QED BY <1>2, <1>3, <1>8, <1>9, <1>10 DEF IInv

(* A sender that grows it leaves the groups and their receivers alone.      *)
LEMMA SenderGrowsKeep ==
    ASSUME IInv, Grows, offsets' = offsets, positions' = positions, swoken' = swoken,
           receivers' = receivers, seen' = seen,
           NEW s \in Senders, NEW to \in SenderStates,
           spc' = [spc EXCEPT ![s] = to], pending' = [pending EXCEPT ![s] = <<>>]
    PROVE  IInv'
<1>1. Types /\ up /\ up' = TRUE
  BY DEF IInv, Grows
<1>2. /\ groups' = groups /\ position' = position /\ observers' = observers
      /\ rpc' = rpc /\ next' = next /\ skipped' = skipped /\ rwoken' = rwoken /\ runs' = runs
  BY DEF positions, receivers
<1>3. active' \in Nat /\ log' \in Seq(Payloads)
  <2>1. active' = Last(segments').base /\ Chain(segments') /\ log' \in Seq(Payloads)
    BY DEF Grows, Kept, Lists
  <2> QED BY <2>1, Chained
<1>4. /\ spc' \in [Senders -> SenderStates] /\ pending' \in [Senders -> Seq(Payloads)]
      /\ \A t \in Senders : Len(pending'[t]) <= MaxBatch
  <2>1. Len(<<>>) <= MaxBatch /\ <<>> \in Seq(Payloads)
    BY BoundsAssumption
  <2> QED BY <1>1, <2>1 DEF Types
<1>5. Types'
  BY <1>1, <1>2, <1>3, <1>4 DEF Types
<1>6. groups' \subseteq groups
  BY <1>2
<1>7. next' = next /\ runs' = runs /\ \A g \in Groups : rpc'[g] = rpc[g]
  BY <1>2
<1>8. \A g \in groups' \ Observers :
         /\ position[g] <= position'[g] /\ position'[g] <= offsets'[g]
         /\ rpc[g] # "closed" => position'[g] <= next[g]
         /\ seen'[g] = seen[g]
  <2>1. \A g \in groups : position[g] <= position[g]
    BY <1>1 DEF Types
  <2> QED BY <1>2, <2>1 DEF IInv, Positions, Caught, Holding
<1>9. \A g \in DOMAIN offsets' \ Observers : 0..(offsets'[g] - 1) \subseteq seen'[g]
  BY DEF IInv, Caught
<1> QED BY <1>5, <1>6, <1>7, <1>8, <1>9, GrowsKeep

(* Taking a batch keeps the invariant. *)
LEMMA TakeBatchKeeps ==
    ASSUME Tolerated, IInv, NEW s \in Senders, NEW ok \in BOOLEAN, TakeBatch(s, ok)
    PROVE  IInv'
<1>1. Types /\ InIndex
  BY DEF IInv
<1>2. Grows
  BY <1>1, TakeBatchGrows
<1>3. /\ offsets' = offsets /\ positions' = positions /\ swoken' = swoken
      /\ receivers' = receivers /\ seen' = seen
      /\ pending' = [pending EXCEPT ![s] = <<>>]
  BY DEF TakeBatch
<1>4. PICK to \in SenderStates : spc' = [spc EXCEPT ![s] = to]
  <2>1. spc' = [spc EXCEPT ![s] = IF ok THEN "appended" ELSE "idle"]
    BY DEF TakeBatch
  <2> QED BY <2>1 DEF SenderStates
<1> QED BY <1>2, <1>3, <1>4, SenderGrowsKeep

(* A segment that is not started keeps the invariant. *)
LEMMA RollFailsKeeps ==
    ASSUME Tolerated, IInv, NEW s \in Senders, RollFails(s)
    PROVE  IInv'
<1>1. Types /\ InIndex
  BY DEF IInv
<1>2. Grows
  BY <1>1, RollFailsGrows
<1>3. /\ offsets' = offsets /\ positions' = positions /\ swoken' = swoken
      /\ receivers' = receivers /\ seen' = seen
      /\ pending' = [pending EXCEPT ![s] = <<>>] /\ spc' = [spc EXCEPT ![s] = "idle"]
  BY DEF RollFails
<1>4. "idle" \in SenderStates
  BY DEF SenderStates
<1> QED BY <1>2, <1>3, <1>4, SenderGrowsKeep

(* An acknowledgement keeps the invariant: what it covers was received. *)
LEMMA AcknowledgeKeeps ==
    ASSUME Tolerated, IInv, NEW g \in Groups, NEW offset \in Nat, NEW ok \in BOOLEAN,
           Acknowledge(g, offset, ok)
    PROVE  IInv'
<1> DEFINE at == [position EXCEPT ![g] = offset + 1]
<1>1. Types /\ InIndex
  BY DEF IInv
<1>2. /\ rpc[g] = "idle" /\ g \in groups /\ offset < next[g] /\ offset >= position[g]
      /\ offsets' = With(offsets, g, offset + 1) /\ position' = at
      /\ Release(files, segments, groups, observers, at, ok)
      /\ rpc' = [rpc EXCEPT ![g] = IF ok THEN "released" ELSE "idle"]
      /\ up' = up /\ active' = active /\ groups' = groups /\ observers' = observers
      /\ senders' = senders /\ next' = next /\ skipped' = skipped /\ rwoken' = rwoken
      /\ runs' = runs /\ log' = log /\ seen' = seen
  BY DEF Acknowledge, Received, WriteGroup, history
<1>3. up /\ at \in [Groups -> Nat] /\ groups \subseteq Groups /\ groups = DOMAIN offsets
      /\ position \in [Groups -> Nat] /\ next \in [Groups -> Nat]
  BY <1>1, <1>2 DEF Types
<1>4. \A h \in groups : position'[h] = at[h]
  BY <1>2
<1> HIDE DEF at
<1>5. Grows
  BY <1>1, <1>2, <1>3, <1>4, ReleaseGrows
<1>6. offsets \in [DOMAIN offsets -> Nat] /\ offset + 1 \in Nat
  BY <1>1 DEF Types
<1>7. /\ DOMAIN offsets' = groups /\ offsets' \in [DOMAIN offsets' -> Nat]
      /\ offsets'[g] = offset + 1
      /\ \A h \in groups : h # g => offsets'[h] = offsets[h]
  <2>0. PICK to \in Nat : to = offset + 1
    OBVIOUS
  <2> DEFINE new == With(offsets, g, to)
  <2>1. offsets' = new /\ offsets \in [DOMAIN offsets -> Nat]
    BY <2>0, <1>2, <1>3, <1>6
  <2>2. groups \union {g} = groups /\ DOMAIN offsets = groups
    BY <1>2, <1>3, <1>6
  <2>3. /\ DOMAIN new = DOMAIN offsets \union {g} /\ new \in [DOMAIN new -> Nat]
        /\ new[g] = to
        /\ \A h \in DOMAIN offsets : h # g => new[h] = offsets[h]
    BY <2>1 DEF With
  <2> HIDE DEF new
  <2> QED BY <2>0, <2>1, <2>2, <2>3
<1>8. Types'
  <2>1. active' \in Nat /\ position' \in [Groups -> Nat]
    BY <1>1, <1>2, <1>3 DEF Types
  <2>2. spc' = spc /\ pending' = pending /\ swoken' = swoken
    BY <1>2 DEF senders
  <2>3. rpc' \in [Groups -> ReceiverStates]
    BY <1>1, <1>2 DEF Types, ReceiverStates
  <2> QED BY <1>1, <1>2, <1>3, <1>7, <2>1, <2>2, <2>3 DEF Types
<1>9. \A h \in Groups : \/ rpc'[h] = rpc[h]
                        \/ /\ rpc[h] \notin {"closed", "reading"}
                           /\ rpc'[h] \notin {"closed", "reading"}
  BY <1>1, <1>2 DEF Types
<1>10. ASSUME NEW h \in groups' \ Observers
       PROVE  /\ position[h] <= position'[h] /\ position'[h] <= offsets'[h]
              /\ rpc[h] # "closed" => position'[h] <= next[h]
              /\ seen'[h] = seen[h]
  <2>1. h \in Holding /\ h \in Groups /\ position[h] \in Nat /\ next[h] \in Nat
    BY <1>2, <1>3 DEF Holding
  <2>2. CASE h = g
    BY <1>2, <1>3, <1>7, <2>1, <2>2 DEF at
  <2>3. CASE h # g
    <3>1. position'[h] = position[h] /\ offsets'[h] = offsets[h]
      BY <1>2, <1>3, <1>7, <2>1, <2>3 DEF at
    <3> QED BY <1>2, <2>1, <3>1 DEF IInv, Positions, Caught
  <2> QED BY <2>2, <2>3
<1>11. ASSUME NEW h \in DOMAIN offsets' \ Observers
       PROVE  0..(offsets'[h] - 1) \subseteq seen'[h]
  <2>1. CASE h = g
    <3>1. 0..(next[g] - 1) \subseteq seen[g]
      BY <1>2, <1>7, <2>1 DEF IInv, Caught, Holding
    <3>2. offsets'[g] <= next[g] /\ next[g] \in Nat /\ offsets'[g] \in Nat
      BY <1>2, <1>3, <1>7
    <3>3. 0..(offsets'[g] - 1) \subseteq 0..(next[g] - 1)
      BY <3>2
    <3> QED BY <1>2, <2>1, <3>1, <3>3
  <2>2. CASE h # g
    BY <1>2, <1>3, <1>7, <2>2 DEF IInv, Caught
  <2> QED BY <2>1, <2>2
<1>12. groups' \subseteq groups
  BY <1>2
<1> QED BY <1>2, <1>5, <1>8, <1>9, <1>10, <1>11, <1>12, GrowsKeep

(* So does one that reached the disk and not the memory. *)
LEMMA AcknowledgeFailsKeeps ==
    ASSUME IInv, NEW g \in Groups, NEW offset \in Nat, AcknowledgeFails(g, offset)
    PROVE  IInv'
<1>1. /\ rpc[g] = "idle" /\ g \in groups /\ offset < next[g] /\ offset >= position[g]
      /\ offsets' = With(offsets, g, offset + 1)
      /\ files' = files /\ up' = up /\ segments' = segments /\ active' = active
      /\ groups' = groups /\ position' = position /\ observers' = observers
      /\ spc' = spc /\ pending' = pending /\ swoken' = swoken
      /\ rpc' = rpc /\ next' = next /\ skipped' = skipped /\ rwoken' = rwoken
      /\ runs' = runs /\ log' = log /\ seen' = seen
  BY DEF AcknowledgeFails, Received, WriteGroup, index, positions, senders, receivers, history
<1>2. /\ up /\ groups = DOMAIN offsets /\ groups \subseteq Groups
      /\ position \in [Groups -> Nat] /\ next \in [Groups -> Nat]
      /\ offsets \in [DOMAIN offsets -> Nat] /\ offset + 1 \in Nat
  BY <1>1 DEF IInv, Types
<1>3. /\ DOMAIN offsets' = groups /\ offsets' \in [DOMAIN offsets' -> Nat]
      /\ offsets'[g] = offset + 1
      /\ \A h \in groups : h # g => offsets'[h] = offsets[h]
  <2>0. PICK to \in Nat : to = offset + 1
    OBVIOUS
  <2> DEFINE new == With(offsets, g, to)
  <2>1. offsets' = new /\ offsets \in [DOMAIN offsets -> Nat]
    BY <2>0, <1>1, <1>2
  <2>2. groups \union {g} = groups /\ DOMAIN offsets = groups
    BY <1>1, <1>2
  <2>3. /\ DOMAIN new = DOMAIN offsets \union {g} /\ new \in [DOMAIN new -> Nat]
        /\ new[g] = to
        /\ \A h \in DOMAIN offsets : h # g => new[h] = offsets[h]
    BY <2>1 DEF With
  <2> HIDE DEF new
  <2> QED BY <2>0, <2>1, <2>2, <2>3
<1>4. Types'
  BY <1>1, <1>2, <1>3 DEF IInv, Types
<1>5. OnDisk' /\ InIndex' /\ InFiles'
  BY <1>1, <1>2 DEF IInv, OnDisk, InIndex, InFiles, Holding
<1>6. Positions'
  <2> SUFFICES ASSUME NEW h \in Holding
               PROVE  position[h] <= offsets'[h] /\ Base(segments) <= position[h]
    BY <1>1 DEF Positions, Holding
  <2>1. position[h] <= offsets[h] /\ Base(segments) <= position[h] /\ h \in groups
    BY DEF IInv, Positions, Holding
  <2>2. CASE h = g
    BY <1>1, <1>2, <1>3, <2>1, <2>2
  <2>3. CASE h # g
    BY <1>3, <2>1, <2>3
  <2> QED BY <2>2, <2>3
<1>7. Caught'
  <2>1. ASSUME NEW h \in DOMAIN offsets' \ Observers
        PROVE  0..(offsets'[h] - 1) \subseteq seen[h]
    <3>1. CASE h = g
      <4>1. 0..(next[g] - 1) \subseteq seen[g]
        BY <1>1, <1>3, <3>1 DEF IInv, Caught, Holding
      <4>2. 0..(offsets'[g] - 1) \subseteq 0..(next[g] - 1)
        BY <1>1, <1>2, <1>3
      <4> QED BY <3>1, <4>1, <4>2
    <3>2. CASE h # g
      BY <1>2, <1>3, <3>2 DEF IInv, Caught
    <3> QED BY <3>1, <3>2
  <2> QED BY <1>1, <2>1 DEF IInv, Caught, Holding
<1> QED BY <1>4, <1>5, <1>6, <1>7 DEF IInv

(* The function FlattenSeq is defined by exists, up to any length, and      *)
(* gains what comes next.                                                  *)
LEMMA FlattenedBy ==
    ASSUME NEW S, NEW seqs \in Seq(Seq(S)), Len(seqs) # 0
    PROVE  \E g : /\ FlattenSeq(seqs) = g[Len(seqs)]
                  /\ g[1] = seqs[1]
                  /\ \A i \in 2..Len(seqs) : g[i] = g[i-1] \o seqs[i]
<1> DEFINE n == Len(seqs)
           Step(g, i) == IF i = 1 THEN seqs[i] ELSE g[i-1] \o seqs[i]
           Solves(g, k) == g = [i \in 1..k |-> Step(g, i)]
           flatten == CHOOSE g : Solves(g, n)
<1>2. n # 0
  OBVIOUS
<1>3. QED
  <2>1. FlattenSeq(seqs) = flatten[n]
    BY <1>2 DEF FlattenSeq
  <2>2. \A k \in 1..n : \E g : Solves(g, k)
    <3> DEFINE Unsolved == {k \in 1..n : ~\E g : Solves(g, k)}
    <3>1. SUFFICES ASSUME Unsolved # {} PROVE FALSE
      OBVIOUS
    <3>2. PICK k \in Unsolved : \A m \in Unsolved : k <= m
      <4> HIDE DEF Unsolved
      <4>1. Unsolved \subseteq Nat
        <5> HIDE DEF Solves
        <5> QED BY DEF Unsolved
      <4> QED BY <3>1, <4>1, LeastOf
    <3>3. CASE k = 1
      <4>1. Solves([i \in 1..1 |-> seqs[1]], 1)
        OBVIOUS
      <4> QED BY <3>3, <4>1
    <3>4. CASE k # 1
      <4>1. k \in 1..n
        <5> HIDE DEF Solves
        <5> QED BY DEF Unsolved
      <4>2. PICK g : Solves(g, k - 1)
        <5>1. k - 1 \in 1..n /\ k - 1 \notin Unsolved
          <6> HIDE DEF Unsolved
          <6> QED BY <3>2, <3>4, <4>1
        <5> HIDE DEF Solves
        <5> QED BY <5>1
      <4> DEFINE h == [i \in 1..k |-> IF i = k THEN g[k-1] \o seqs[k] ELSE g[i]]
      <4>3. \A i \in 1..k : h[i] = Step(h, i)
        <5>1. TAKE i \in 1..k
        <5>2. CASE i = k
          <6>1. k \in 1..k /\ k - 1 \in 1..k /\ k - 1 # k
            BY <3>4, <4>1
          <6>2. h[k] = g[k-1] \o seqs[k] /\ h[k-1] = g[k-1]
            <7> HIDE DEF Step, Without, n
            <7>1. h[k] = g[k-1] \o seqs[k]
              BY <6>1
            <7>2. h[k-1] = g[k-1]
              BY <6>1
            <7> QED BY <7>1, <7>2
          <6>3. Step(h, k) = h[k-1] \o seqs[k]
            <7> HIDE DEF h
            <7> QED BY <3>4
          <6> HIDE DEF h, Step
          <6> QED BY <5>2, <6>2, <6>3
        <5>3. CASE i # k
          <6>1. i \in 1..(k-1) /\ h[i] = g[i] /\ (i # 1 => h[i-1] = g[i-1])
            BY <5>3, <4>1
          <6>2. g[i] = Step(g, i)
            <7> HIDE DEF Step
            <7> QED BY <4>2, <6>1
          <6> QED BY <6>1, <6>2
        <5> QED BY <5>2, <5>3
      <4>4. Solves(h, k)
        <5> HIDE DEF Step
        <5>1. h = [i \in 1..k |-> h[i]]
          OBVIOUS
        <5>2. [i \in 1..k |-> h[i]] = [i \in 1..k |-> Step(h, i)]
          <6> HIDE DEF h
          <6> QED BY <4>3
        <5> QED BY <5>1, <5>2
      <4> QED BY <4>4
    <3> QED BY <3>3, <3>4
  <2>3. Solves(flatten, n)
    <3>1. n \in 1..n
      BY <1>2
    <3>2. \E g : Solves(g, n)
      <4> HIDE DEF n, Solves
      <4> QED BY <2>2, <3>1
    <3> HIDE DEF n, Solves
    <3> QED BY <3>2
  <2> HIDE DEF flatten
  <2>4. \A i \in 1..n : flatten[i] = Step(flatten, i)
    <3> HIDE DEF Step
    <3> QED BY <2>3
  <2>5. 1 \in 1..n /\ \A i \in 2..n : i \in 1..n /\ i # 1
    BY <1>2
  <2>6. flatten[1] = seqs[1]
    BY <2>4, <2>5
  <2>7. \A i \in 2..n : flatten[i] = flatten[i-1] \o seqs[i]
    BY <2>4, <2>5
  <2> QED BY <2>1, <2>6, <2>7

(* What is put together of sequences is one.                               *)
LEMMA FlattenedIs == ASSUME NEW S, NEW seqs \in Seq(Seq(S)) PROVE FlattenSeq(seqs) \in Seq(S)
<1> DEFINE n == Len(seqs)
<1>1. CASE n = 0
  BY <1>1 DEF FlattenSeq
<1>2. CASE n # 0
  <2>1. PICK flatten : /\ FlattenSeq(seqs) = flatten[n] /\ flatten[1] = seqs[1]
                       /\ \A i \in 2..n : flatten[i] = flatten[i-1] \o seqs[i]
    BY <1>2, FlattenedBy
  <2> DEFINE Bad == {k \in 1..n : flatten[k] \notin Seq(S)}
  <2>2. SUFFICES ASSUME Bad # {} PROVE FALSE
    <3>1. n \in 1..n
      BY <1>2
    <3> QED BY <2>1, <3>1
  <2>3. PICK k \in Bad : \A m \in Bad : k <= m
    <3>1. Bad \in SUBSET Nat
      OBVIOUS
    <3> HIDE DEF Bad
    <3> QED BY <2>2, <3>1, LeastOf
  <2>4. k \in 1..n /\ flatten[k] \notin Seq(S)
    OBVIOUS
  <2>5. k # 1
    BY <2>1, <2>4
  <2>6. k - 1 \in 1..n /\ k - 1 \notin Bad /\ k \in 2..n
    <3> HIDE DEF Bad
    <3> QED BY <2>3, <2>4, <2>5
  <2>7. flatten[k-1] \in Seq(S) /\ seqs[k] \in Seq(S)
    BY <2>4, <2>6
  <2>8. flatten[k] = flatten[k-1] \o seqs[k]
    <3> HIDE DEF Bad
    <3> QED BY <2>1, <2>6
  <2>9. flatten[k-1] \o seqs[k] \in Seq(S)
    BY <2>7
  <2> QED BY <2>4, <2>8, <2>9
<1> QED BY <1>1, <1>2

-----------------------------------------------------------------------------
(* Located gives places in files that are there, from the record asked for. *)
LEMMA LocatedIs ==
    ASSUME Kept(segments, files, log), NEW from \in Nat, NEW max \in Nat
    PROVE  /\ Located(from, max) \in Seq(Runs)
           /\ \A i \in DOMAIN Located(from, max) : InFile(Located(from, max)[i], from, files)
<1> DEFINE first(segment) == Larger(from, segment.base)
           end(segment) == Smaller(EndOf(segment), from + max)
           Some == {i \in DOMAIN segments : first(segments[i]) < end(segments[i])}
           holding == InOrder(Some)
           run(segment) == [file |-> segment.base, skip |-> first(segment) - segment.base,
                            count |-> end(segment) - first(segment)]
<1>1. Lists(segments, files) /\ Chain(segments) /\ DOMAIN files = Bases(segments)
  BY DEF Kept, Lists
<1>2. Len(segments) \in Nat /\ DOMAIN segments = 1..Len(segments)
  <2>1. segments \in Seq(Entries)
    BY <1>1 DEF Chain
  <2> QED BY <2>1
<1>3. Located(from, max) = [i \in DOMAIN holding |-> run(segments[holding[i]])]
  BY DEF Located
<1>4. Some \in SUBSET (1..Len(segments)) /\ Some \in SUBSET Nat /\ IsFiniteSet(Some)
  <2>1. Some \in SUBSET (1..Len(segments))
    BY <1>2
  <2>2. IsFiniteSet(1..Len(segments))
    BY <1>2, FS_Interval
  <2> HIDE DEF Some
  <2>3. Some \in SUBSET Nat
    BY <1>2, <2>1
  <2> QED BY <2>1, <2>2, <2>3, FS_Subset
<1>5. \A j \in Some : j \in 1..Len(segments) /\ first(segments[j]) < end(segments[j])
  BY <1>2
<1> HIDE DEF Some
<1>6. /\ holding \in Seq(Some)
      /\ \A i \in DOMAIN holding : holding[i] \in Some
  <2>1. holding \in Seq(Some)
    BY <1>4, InOrderIs
  <2> HIDE DEF holding
  <2> QED BY <2>1
<1>7. ASSUME NEW j \in Some
      PROVE  run(segments[j]) \in Runs /\ InFile(run(segments[j]), from, files)
  <2>1. PICK b, e, f, t, n : /\ b = segments[j].base /\ e = EndOf(segments[j])
                             /\ f = first(segments[j]) /\ t = end(segments[j])
                             /\ n = Len(files[segments[j].base])
    OBVIOUS
  <2>2. j \in 1..Len(segments) /\ f < t
    BY <1>5, <2>1
  <2>3. b \in Nat /\ e \in Nat /\ n = segments[j].count /\ n \in Nat /\ e = b + n
    <3>1. n = segments[j].count
      BY <1>1, <2>1, <2>2 DEF Lists
    <3> QED BY <1>1, <2>1, <2>2, <3>1, Chained
  <2>4. f = Larger(from, b) /\ t = Smaller(e, from + max)
    BY <2>1
  <2>5. /\ f - b \in Nat /\ t - f \in Nat /\ t - f > 0 /\ (f - b) + (t - f) <= n
        /\ from <= b + (f - b)
    <3>1. PICK x, m : x = from /\ m = max
      OBVIOUS
    <3>2. b \in Nat /\ e \in Nat /\ n \in Nat /\ x \in Nat /\ m \in Nat /\ e = b + n /\ f < t
      BY <2>2, <2>3, <3>1
    <3>3. f = IF x > b THEN x ELSE b
      BY <2>4, <3>1 DEF Larger
    <3>4. t = IF e < x + m THEN e ELSE x + m
      BY <2>4, <3>1 DEF Smaller
    <3>5. /\ f - b \in Nat /\ t - f \in Nat /\ t - f > 0 /\ (f - b) + (t - f) <= n
          /\ x <= b + (f - b)
      BY ONLY <3>2, <3>3, <3>4
    <3> QED BY <3>1, <3>5
  <2>6. run(segments[j]) = [file |-> b, skip |-> f - b, count |-> t - f]
    BY <2>1
  <2>7. b \in DOMAIN files /\ n = Len(files[b])
    BY <1>1, <2>1, <2>2 DEF Bases
  <2> HIDE DEF run
  <2> QED BY <2>3, <2>5, <2>6, <2>7 DEF Runs, InFile
<1> HIDE DEF run, holding
<1>8. \A i \in DOMAIN holding : run(segments[holding[i]]) \in Runs
                                /\ InFile(run(segments[holding[i]]), from, files)
  BY <1>6, <1>7
<1>9. Len(holding) \in Nat /\ DOMAIN holding = 1..Len(holding)
  BY <1>6
<1>10. [i \in DOMAIN holding |-> run(segments[holding[i]])] \in Seq(Runs)
  BY <1>8, <1>9
<1> QED BY <1>3, <1>8, <1>10

(* Locating keeps the invariant: a holding group is moved past nothing. *)
LEMMA LocateKeeps ==
    ASSUME IInv, NEW g \in Groups, NEW max \in Nat, Locate(g, max)
    PROVE  IInv'
<1> DEFINE from == From(g)
           found == IF from < End(segments) THEN Located(from, max) ELSE <<>>
<1>1. /\ rpc[g] = "registered" /\ g \in groups
      /\ next' = [next EXCEPT ![g] = from]
      /\ runs' = [runs EXCEPT ![g] = found]
      /\ rpc' = [rpc EXCEPT ![g] = IF from < End(segments) THEN "reading" ELSE "waiting"]
      /\ skipped' = IF g \in observers THEN [skipped EXCEPT ![g] = @ + (from - next[g])] ELSE skipped
      /\ files' = files /\ offsets' = offsets /\ up' = up
      /\ segments' = segments /\ active' = active
      /\ groups' = groups /\ position' = position /\ observers' = observers
      /\ spc' = spc /\ pending' = pending /\ swoken' = swoken
      /\ rwoken' = rwoken /\ log' = log /\ seen' = seen
  BY DEF Locate, disk, index, positions, senders, history
<1>2. /\ up /\ next \in [Groups -> Nat] /\ runs \in [Groups -> Seq(Runs)]
      /\ rpc \in [Groups -> ReceiverStates] /\ skipped \in [Groups -> Nat]
      /\ position \in [Groups -> Nat] /\ groups \subseteq Groups
  BY <1>1 DEF IInv, Types
<1>3. Kept(segments, files, log) /\ Chain(segments)
  BY <1>2 DEF IInv, InIndex, Kept, Lists
<1>4. Base(segments) \in Nat
  BY <1>3, Chained
<1>5. from \in Nat /\ next[g] <= from /\ from = Larger(next[g], Base(segments))
  BY <1>2, <1>4 DEF From, Larger
<1>6. g \in Holding => from = next[g]
  <2>1. ASSUME g \in Holding PROVE Base(segments) <= next[g]
    <3>1. Base(segments) <= position[g] /\ position[g] <= next[g]
      BY <1>1, <2>1 DEF IInv, Positions, Caught
    <3> QED BY <1>2, <1>4, <3>1
  <2> HIDE DEF from
  <2>2. next[g] \in Nat
    BY <1>2
  <2> QED BY <1>4, <1>5, <2>1, <2>2 DEF Larger
<1> HIDE DEF from
<1>7. found \in Seq(Runs) /\ \A i \in DOMAIN found : InFile(found[i], from, files)
  <2>1. /\ Located(from, max) \in Seq(Runs)
        /\ \A i \in DOMAIN Located(from, max) : InFile(Located(from, max)[i], from, files)
    BY <1>3, <1>5, LocatedIs
  <2>2. <<>> \in Seq(Runs) /\ DOMAIN <<>> = {}
    OBVIOUS
  <2> QED BY <2>1, <2>2
<1>8. from < End(segments) \/ found = <<>>
  OBVIOUS
<1> HIDE DEF found
<1>9. Types'
  <2>1. rpc' \in [Groups -> ReceiverStates]
    BY <1>1, <1>2 DEF ReceiverStates
  <2>2. next' \in [Groups -> Nat] /\ runs' \in [Groups -> Seq(Runs)]
    BY <1>1, <1>2, <1>5, <1>7
  <2>3. skipped' \in [Groups -> Nat]
    <3>1. skipped[g] + (from - next[g]) \in Nat
      BY <1>2, <1>5
    <3> QED BY <1>1, <1>2, <3>1
  <2> QED BY <1>1, <1>2, <2>1, <2>2, <2>3 DEF IInv, Types
<1>10. OnDisk' /\ InIndex' /\ Positions'
  BY <1>1 DEF IInv, OnDisk, InIndex, Positions, Holding
<1>11. \A h \in Holding : next'[h] = next[h] /\ (rpc'[h] # "closed" => rpc[h] # "closed")
  BY <1>1, <1>2, <1>6 DEF Holding
<1>12. Caught'
  BY <1>1, <1>11 DEF IInv, Caught, Holding
<1>13. InFiles'
  <2>1. \A h \in Groups : rpc'[h] # "reading" => runs'[h] = <<>>
    BY <1>1, <1>2, <1>8 DEF IInv, InFiles
  <2>2. ASSUME NEW h \in Holding, NEW i \in DOMAIN runs'[h]
        PROVE  InFile(runs'[h][i], next'[h], files)
    <3>1. CASE h = g
      BY <1>1, <1>2, <1>6, <1>7, <2>2, <3>1
    <3>2. CASE h # g
      <4>1. runs'[h] = runs[h]
        BY <1>1, <3>2
      <4> QED BY <1>11, <2>2, <4>1 DEF IInv, InFiles
    <3> QED BY <3>1, <3>2
  <2> QED BY <1>1, <2>1, <2>2 DEF InFiles, Holding
<1> QED BY <1>9, <1>10, <1>12, <1>13 DEF IInv

(* Reading keeps the invariant: what is read is what follows. *)
LEMMA ReadKeeps ==
    ASSUME IInv, NEW g \in Groups, Read(g)
    PROVE  IInv'
<1> DEFINE part(run) == SubSeq(files[run.file], run.skip + 1, run.skip + run.count)
           parts == [i \in DOMAIN runs[g] |-> part(runs[g][i])]
           to == next[g] + Len(FlattenSeq(parts))
<1>1. /\ rpc[g] = "reading" /\ \A i \in DOMAIN runs[g] : Readable(runs[g][i])
      /\ next' = [next EXCEPT ![g] = to]
      /\ seen' = [seen EXCEPT ![g] = IF g \in observers THEN @ ELSE @ \union next[g]..(to - 1)]
      /\ runs' = [runs EXCEPT ![g] = <<>>] /\ rpc' = [rpc EXCEPT ![g] = "idle"]
      /\ files' = files /\ offsets' = offsets /\ up' = up
      /\ segments' = segments /\ active' = active
      /\ groups' = groups /\ position' = position /\ observers' = observers
      /\ spc' = spc /\ pending' = pending /\ swoken' = swoken
      /\ skipped' = skipped /\ rwoken' = rwoken /\ log' = log
  BY DEF Read, disk, index, positions, senders
<1>2. /\ up /\ next \in [Groups -> Nat] /\ runs \in [Groups -> Seq(Runs)]
      /\ rpc \in [Groups -> ReceiverStates] /\ seen \in [Groups -> SUBSET Nat]
      /\ position \in [Groups -> Nat] /\ groups \subseteq Groups
      /\ observers \subseteq Observers /\ offsets \in [DOMAIN offsets -> Nat]
      /\ DOMAIN offsets = groups
  BY <1>1 DEF IInv, Types
<1>3. files \in [Bases(segments) -> Seq(Payloads)]
  BY <1>2 DEF IInv, InIndex, Kept, Lists
<1>4. parts \in Seq(Seq(Payloads))
  <2>1. runs[g] \in Seq(Runs) /\ DOMAIN runs[g] = 1..Len(runs[g]) /\ Len(runs[g]) \in Nat
    <3>1. runs[g] \in Seq(Runs)
      BY <1>2
    <3> QED BY <3>1
  <2>2. ASSUME NEW i \in DOMAIN runs[g] PROVE part(runs[g][i]) \in Seq(Payloads)
    <3>1. PICK run : run = runs[g][i]
      OBVIOUS
    <3>2. run \in Runs /\ run.file \in DOMAIN files /\ run.skip + run.count <= Len(files[run.file])
      BY <1>1, <2>1, <3>1 DEF Readable
    <3>3. PICK all, skip, count : all = files[run.file] /\ skip = run.skip /\ count = run.count
      OBVIOUS
    <3>4. all \in Seq(Payloads) /\ skip \in Nat /\ count \in Nat /\ skip + count <= Len(all)
      BY <1>3, <3>2, <3>3 DEF Runs
    <3>5. SubSeq(all, skip + 1, skip + count) \in Seq(Payloads)
      BY <3>4
    <3> QED BY <3>1, <3>3, <3>5
  <2> HIDE DEF part
  <2> QED BY <2>1, <2>2
<1>5. to \in Nat /\ next[g] <= to /\ next[g] \in Nat
  <2> HIDE DEF parts
  <2>1. FlattenSeq(parts) \in Seq(Payloads)
    BY <1>4, FlattenedIs
  <2>2. Len(FlattenSeq(parts)) \in Nat
    BY <2>1
  <2> QED BY <1>2, <2>2
<1> HIDE DEF to
<1>6. Types'
  <2>1. rpc' \in [Groups -> ReceiverStates] /\ next' \in [Groups -> Nat]
    BY <1>1, <1>2, <1>5 DEF ReceiverStates
  <2>2. runs' \in [Groups -> Seq(Runs)]
    <3>1. <<>> \in Seq(Runs)
      OBVIOUS
    <3> QED BY <1>1, <1>2, <3>1
  <2>3. seen' \in [Groups -> SUBSET Nat]
    <3>1. next[g]..(to - 1) \subseteq Nat
      BY <1>5
    <3> QED BY <1>1, <1>2, <3>1
  <2> QED BY <1>1, <1>2, <2>1, <2>2, <2>3 DEF IInv, Types
<1>7. OnDisk' /\ InIndex' /\ Positions'
  BY <1>1 DEF IInv, OnDisk, InIndex, Positions, Holding
<1>8. \A h \in Groups : seen[h] \subseteq seen'[h]
  BY <1>1, <1>2
<1>9. ASSUME NEW h \in Holding, rpc'[h] # "closed"
      PROVE  position[h] <= next'[h] /\ 0..(next'[h] - 1) \subseteq seen'[h]
  <2>1. rpc[h] # "closed" /\ h \in Groups
    BY <1>1, <1>2, <1>9 DEF Holding
  <2>2. position[h] <= next[h] /\ 0..(next[h] - 1) \subseteq seen[h]
    BY <2>1 DEF IInv, Caught
  <2>3. CASE h = g
    <3>1. next'[g] = to /\ seen'[g] = seen[g] \union next[g]..(to - 1)
      BY <1>1, <1>2, <2>3 DEF Holding
    <3>2. 0..(to - 1) \subseteq 0..(next[g] - 1) \union next[g]..(to - 1)
      BY <1>5
    <3>3. position[g] <= to
      BY <1>2, <1>5, <2>2, <2>3
    <3> QED BY <2>2, <2>3, <3>1, <3>2, <3>3
  <2>4. CASE h # g
    BY <1>1, <2>1, <2>2, <2>4
  <2> QED BY <2>3, <2>4
<1>10. Caught'
  <2>1. \A h \in DOMAIN offsets \ Observers : 0..(offsets[h] - 1) \subseteq seen'[h]
    BY <1>2, <1>8 DEF IInv, Caught
  <2> QED BY <1>1, <1>9, <2>1 DEF Caught, Holding
<1>11. InFiles'
  <2>1. \A h \in Groups : rpc'[h] # "reading" => runs'[h] = <<>>
    BY <1>1, <1>2 DEF IInv, InFiles
  <2>2. ASSUME NEW h \in Holding, NEW i \in DOMAIN runs'[h]
        PROVE  InFile(runs'[h][i], next'[h], files)
    <3>1. CASE h = g
      <4>1. runs'[h] = <<>> /\ DOMAIN <<>> = {}
        BY <1>1, <1>2, <3>1
      <4> QED BY <2>2, <4>1
    <3>2. CASE h # g
      <4>1. runs'[h] = runs[h] /\ next'[h] = next[h]
        BY <1>1, <1>2, <3>2 DEF Holding
      <4> QED BY <2>2, <4>1 DEF IInv, InFiles
    <3> QED BY <3>1, <3>2
  <2> QED BY <1>1, <2>1, <2>2 DEF InFiles, Holding
<1> QED BY <1>6, <1>7, <1>10, <1>11 DEF IInv

(* A receiver goes on at its group's position, or at the end if that is    *)
(* new.                                                                    *)
LEMMA ReceiverKeeps ==
    ASSUME IInv, NEW g \in Groups, NEW asObserver \in BOOLEAN, asObserver => g \in Observers,
           Receiver(g, asObserver)
    PROVE  IInv'
<1> DEFINE known == g \in groups
           at == IF known THEN position[g] ELSE End(segments)
<1>1. /\ up
      /\ offsets' = IF known THEN offsets ELSE With(offsets, g, at)
      /\ groups' = groups \union {g}
      /\ position' = [position EXCEPT ![g] = at]
      /\ observers' = IF asObserver THEN observers \union {g} ELSE observers \ {g}
      /\ seen' = IF known THEN seen ELSE [seen EXCEPT ![g] = 0..(at - 1)]
      /\ rpc' = [rpc EXCEPT ![g] = "idle"]
      /\ next' = [next EXCEPT ![g] = at]
      /\ skipped' = [skipped EXCEPT ![g] = 0]
      /\ rwoken' = [rwoken EXCEPT ![g] = FALSE]
      /\ runs' = [runs EXCEPT ![g] = <<>>]
      /\ files' = files /\ up' = up /\ segments' = segments /\ active' = active
      /\ spc' = spc /\ pending' = pending /\ swoken' = swoken /\ log' = log
  BY DEF Receiver, WriteGroup, index, senders
<1>2. /\ next \in [Groups -> Nat] /\ runs \in [Groups -> Seq(Runs)]
      /\ rpc \in [Groups -> ReceiverStates] /\ seen \in [Groups -> SUBSET Nat]
      /\ skipped \in [Groups -> Nat] /\ rwoken \in [Groups -> BOOLEAN]
      /\ position \in [Groups -> Nat] /\ groups \subseteq Groups
      /\ observers \subseteq groups \intersect Observers
      /\ offsets \in [DOMAIN offsets -> Nat] /\ DOMAIN offsets = groups
  BY <1>1 DEF IInv, Types
<1>3. Chain(segments)
  BY <1>1 DEF IInv, InIndex, Kept, Lists
<1>4. Base(segments) \in Nat /\ End(segments) \in Nat /\ Base(segments) <= End(segments)
  BY <1>3, Chained
<1>5. at \in Nat
  BY <1>2, <1>4
<1>6. (known => at = position[g]) /\ (~known => at = End(segments))
  OBVIOUS
<1> HIDE DEF at
<1>7. /\ DOMAIN offsets' = groups' /\ offsets' \in [DOMAIN offsets' -> Nat]
      /\ (~known => offsets'[g] = at) /\ (known => offsets'[g] = offsets[g])
      /\ \A h \in groups : h # g => offsets'[h] = offsets[h]
  <2>1. CASE known
    <3>1. offsets' = offsets /\ groups' = groups
      BY <1>1, <1>2, <2>1
    <3> QED BY <1>2, <2>1, <3>1
  <2>2. CASE ~known
    BY <1>1, <1>2, <1>5, <2>2 DEF With
  <2> QED BY <2>1, <2>2
<1>8. Types'
  <2>1. groups' \subseteq Groups /\ observers' \subseteq groups' \intersect Observers
    BY <1>1, <1>2
  <2>2. position' \in [Groups -> Nat] /\ next' \in [Groups -> Nat] /\ skipped' \in [Groups -> Nat]
        /\ rwoken' \in [Groups -> BOOLEAN] /\ rpc' \in [Groups -> ReceiverStates]
    BY <1>1, <1>2, <1>5 DEF ReceiverStates
  <2>3. runs' \in [Groups -> Seq(Runs)]
    <3>1. <<>> \in Seq(Runs)
      OBVIOUS
    <3> QED BY <1>1, <1>2, <3>1
  <2>4. seen' \in [Groups -> SUBSET Nat]
    <3>1. 0..(at - 1) \subseteq Nat
      BY <1>5
    <3> QED BY <1>1, <1>2, <3>1
  <2> QED BY <1>1, <1>2, <1>7, <2>1, <2>2, <2>3, <2>4 DEF IInv, Types
<1>9. OnDisk' /\ InIndex'
  BY <1>1 DEF IInv, OnDisk, InIndex
<1>10. ASSUME NEW h \in groups' \ Observers
       PROVE  position'[h] <= offsets'[h] /\ Base(segments) <= position'[h]
  <2>1. CASE h = g
    <3>1. position'[g] = at
      BY <1>1, <1>2
    <3>2. CASE known
      BY <1>6, <1>7, <2>1, <3>1, <3>2 DEF IInv, Positions, Holding
    <3>3. CASE ~known
      BY <1>4, <1>5, <1>6, <1>7, <2>1, <3>1, <3>3
    <3> QED BY <3>2, <3>3
  <2>2. CASE h # g
    <3>1. h \in Holding /\ position'[h] = position[h] /\ offsets'[h] = offsets[h]
      BY <1>1, <1>2, <1>7, <2>2 DEF Holding
    <3> QED BY <3>1 DEF IInv, Positions
  <2> QED BY <2>1, <2>2
<1>11. Positions'
  BY <1>1, <1>10 DEF Positions, Holding
<1>12. Caught'
  <2>1. ASSUME NEW h \in groups' \ Observers
        PROVE  0..(offsets'[h] - 1) \subseteq seen'[h]
    <3>1. CASE h = g /\ ~known
      BY <1>1, <1>2, <1>7, <3>1
    <3>2. CASE known \/ h # g
      <4>1. h \in groups /\ offsets'[h] = offsets[h] /\ seen'[h] = seen[h]
        BY <1>1, <1>2, <1>7, <3>2
      <4> QED BY <1>2, <4>1 DEF IInv, Caught
    <3> QED BY <3>1, <3>2
  <2>2. ASSUME NEW h \in groups' \ Observers, rpc'[h] # "closed"
        PROVE  position'[h] <= next'[h] /\ 0..(next'[h] - 1) \subseteq seen'[h]
    <3>1. CASE h = g
      <4>1. position'[g] = at /\ next'[g] = at
        BY <1>1, <1>2
      <4>2. at <= offsets'[g] /\ offsets'[g] \in Nat
        BY <1>7, <1>10, <3>1, <4>1
      <4>3. 0..(at - 1) \subseteq 0..(offsets'[g] - 1)
        BY <1>5, <4>2
      <4>4. at <= at
        BY <1>5
      <4> QED BY <2>1, <3>1, <4>1, <4>3, <4>4
    <3>2. CASE h # g
      <4>1. /\ h \in Holding /\ position'[h] = position[h] /\ next'[h] = next[h]
            /\ seen'[h] = seen[h] /\ rpc'[h] = rpc[h]
        BY <1>1, <1>2, <3>2 DEF Holding
      <4> QED BY <2>2, <4>1 DEF IInv, Caught
    <3> QED BY <3>1, <3>2
  <2> QED BY <1>7, <2>1, <2>2 DEF Caught, Holding
<1>13. InFiles'
  <2>1. \A h \in Groups : rpc'[h] # "reading" => runs'[h] = <<>>
    BY <1>1, <1>2 DEF IInv, InFiles
  <2>2. ASSUME NEW h \in groups' \ Observers, NEW i \in DOMAIN runs'[h]
        PROVE  InFile(runs'[h][i], next'[h], files)
    <3>1. CASE h = g
      <4>1. runs'[h] = <<>> /\ DOMAIN <<>> = {}
        BY <1>1, <1>2, <3>1
      <4> QED BY <2>2, <4>1
    <3>2. CASE h # g
      <4>1. h \in Holding /\ runs'[h] = runs[h] /\ next'[h] = next[h]
        BY <1>1, <1>2, <3>2 DEF Holding
      <4> QED BY <2>2, <4>1 DEF IInv, InFiles
    <3> QED BY <3>1, <3>2
  <2> QED BY <1>1, <2>1, <2>2 DEF InFiles, Holding
<1> QED BY <1>8, <1>9, <1>11, <1>12, <1>13 DEF IInv

(* A group that leaves releases nothing another one holds. *)
LEMMA UnsubscribeKeeps ==
    ASSUME Tolerated, IInv, NEW g \in Groups, Unsubscribe(g)
    PROVE  IInv'
<1>1. /\ up /\ up' = up /\ active' = active
      /\ groups' = groups \ {g} /\ observers' = observers \ {g}
      /\ position' = [position EXCEPT ![g] = 0]
      /\ seen' = [seen EXCEPT ![g] = {}]
      /\ offsets' = IF g \in groups THEN Restrict(offsets, DOMAIN offsets \ {g}) ELSE offsets
      /\ Release(files, segments, groups', observers', position, TRUE)
      /\ swoken' \in [Senders -> BOOLEAN] \/ swoken' = swoken
      /\ spc' = spc /\ pending' = pending /\ rpc' = rpc /\ next' = next
      /\ skipped' = skipped /\ rwoken' = rwoken /\ runs' = runs /\ log' = log
  <2>1. swoken' = [s \in Senders |-> swoken[s] \/ spc[s] \in {"registered", "waiting"}]
        \/ swoken' = swoken
    BY DEF Unsubscribe, WakeSenders
  <2> QED BY <2>1 DEF Unsubscribe, receivers
<1>2. /\ position \in [Groups -> Nat] /\ groups \subseteq Groups
      /\ observers \subseteq groups \intersect Observers
      /\ offsets \in [DOMAIN offsets -> Nat] /\ DOMAIN offsets = groups
      /\ seen \in [Groups -> SUBSET Nat]
      /\ Types /\ InIndex
  BY <1>1 DEF IInv, Types
<1>3. groups' \in SUBSET Groups /\ \A h \in groups' : position'[h] = position[h]
  BY <1>1, <1>2
<1>4. Grows
  BY <1>1, <1>2, <1>3, ReleaseGrows
<1>5. /\ DOMAIN offsets' = groups' /\ offsets' \in [DOMAIN offsets' -> Nat]
      /\ \A h \in groups' : offsets'[h] = offsets[h]
  <2>1. CASE g \in groups
    <3>1. offsets' = [h \in groups \ {g} |-> offsets[h]]
      BY <1>1, <1>2, <2>1 DEF Restrict
    <3> QED BY <1>1, <1>2, <3>1
  <2>2. CASE g \notin groups
    <3>1. offsets' = offsets /\ groups' = groups
      BY <1>1, <2>2
    <3> QED BY <1>2, <3>1
  <2> QED BY <2>1, <2>2
<1>6. Types'
  <2>1. active' \in Nat /\ position' \in [Groups -> Nat] /\ seen' \in [Groups -> SUBSET Nat]
    BY <1>1, <1>2 DEF Types
  <2>2. swoken' \in [Senders -> BOOLEAN]
    BY <1>1, <1>2 DEF Types
  <2>3. groups' \subseteq Groups /\ observers' \subseteq groups' \intersect Observers
    BY <1>1, <1>2
  <2> QED BY <1>1, <1>2, <1>5, <2>1, <2>2, <2>3 DEF Types
<1>7. ASSUME NEW h \in groups' \ Observers
      PROVE  /\ position[h] <= position'[h] /\ position'[h] <= offsets'[h]
             /\ rpc[h] # "closed" => position'[h] <= next[h]
             /\ seen'[h] = seen[h]
  <2>1. /\ h \in Holding /\ position'[h] = position[h] /\ offsets'[h] = offsets[h]
        /\ seen'[h] = seen[h] /\ position[h] \in Nat
    BY <1>1, <1>2, <1>3, <1>5 DEF Holding
  <2>2. position[h] <= position[h]
    BY <2>1
  <2> QED BY <2>1, <2>2 DEF IInv, Positions, Caught
<1>8. \A h \in DOMAIN offsets' \ Observers : 0..(offsets'[h] - 1) \subseteq seen'[h]
  <2> TAKE h \in DOMAIN offsets' \ Observers
  <2>1. h \in groups \ Observers /\ offsets'[h] = offsets[h] /\ seen'[h] = seen[h]
    BY <1>1, <1>2, <1>5
  <2> QED BY <1>2, <2>1 DEF IInv, Caught
<1>9. groups' \subseteq groups /\ next' = next /\ runs' = runs
      /\ \A h \in Groups : rpc'[h] = rpc[h]
  BY <1>1
<1> QED BY <1>4, <1>6, <1>7, <1>8, <1>9, GrowsKeep

(* Opening keeps the invariant. *)
LEMMA OpenKeeps ==
    ASSUME IInv, Open
    PROVE  IInv'
<1>1. /\ ~up /\ up' = TRUE /\ active' = Last(segments').base
      /\ groups' = DOMAIN offsets
      /\ position' = [g \in Groups |->
                        IF g \in DOMAIN offsets THEN Smaller(offsets[g], End(segments')) ELSE 0]
      /\ offsets' = offsets /\ observers' = observers
      /\ spc' = spc /\ pending' = pending /\ swoken' = swoken
      /\ rpc' = rpc /\ next' = next /\ skipped' = skipped /\ rwoken' = rwoken /\ runs' = runs
      /\ log' = log /\ seen' = seen
  BY DEF Open, senders, receivers, history
<1>2. Types /\ OnDisk
  BY DEF IInv
<1>3. /\ Kept(segments', files', log)
      /\ Reaches(segments', DOMAIN offsets \ Observers, offsets)
  BY <1>2, OpenIs
<1>4. Chain(segments')
  BY <1>3 DEF Kept, Lists
<1>5. /\ Base(segments') \in Nat /\ End(segments') \in Nat /\ Base(segments') <= End(segments')
      /\ Last(segments').base \in Nat
  BY <1>4, Chained
<1>6. offsets \in [DOMAIN offsets -> Nat] /\ DOMAIN offsets \subseteq Groups /\ groups = {}
      /\ observers = {} /\ \A g \in Groups : rpc[g] = "closed"
  BY <1>1, <1>2 DEF Types
<1>7. ASSUME NEW g \in DOMAIN offsets
      PROVE  /\ position'[g] \in Nat /\ position'[g] <= offsets[g]
             /\ Base(segments') <= offsets[g] => Base(segments') <= position'[g]
  <2>1. PICK o, e, b : o = offsets[g] /\ e = End(segments') /\ b = Base(segments')
    OBVIOUS
  <2>2. o \in Nat /\ e \in Nat /\ b \in Nat /\ b <= e
    BY <1>5, <1>6, <2>1
  <2>3. position'[g] = IF o < e THEN o ELSE e
    BY <1>1, <1>6, <2>1 DEF Smaller
  <2> QED BY <2>1, <2>2, <2>3
<1>8. Types'
  <2>1. position' \in [Groups -> Nat]
    BY <1>1, <1>7
  <2> QED BY <1>1, <1>2, <1>5, <1>6, <2>1 DEF Types
<1>9. OnDisk' /\ InIndex'
  BY <1>1, <1>3 DEF OnDisk, InIndex
<1>10. Positions'
  BY <1>1, <1>3, <1>7 DEF Positions, Holding, Reaches
<1>11. Caught'
  BY <1>1, <1>6 DEF IInv, Caught, Holding
<1>12. InFiles'
  <2>1. \A g \in Groups : runs[g] = <<>>
    BY <1>6 DEF IInv, InFiles
  <2>2. DOMAIN <<>> = {}
    OBVIOUS
  <2> QED BY <1>1, <1>6, <2>1, <2>2 DEF InFiles, Holding
<1> QED BY <1>8, <1>9, <1>10, <1>11, <1>12 DEF IInv

(* The first segment is not behind what a holding group has on disk.       *)
LEMMA IndexReaches ==
    ASSUME Types, InIndex, Positions, up
    PROVE  Reaches(segments, DOMAIN offsets \ Observers, offsets)
<1>1. DOMAIN offsets = groups /\ groups \subseteq Groups /\ position \in [Groups -> Nat]
      /\ offsets \in [DOMAIN offsets -> Nat]
  BY DEF Types
<1>2. Base(segments) \in Nat
  <2>1. Chain(segments)
    BY DEF InIndex, Kept, Lists
  <2> QED BY <2>1, Chained
<1>3. ASSUME NEW g \in DOMAIN offsets \ Observers PROVE Base(segments) <= offsets[g]
  <2>1. position[g] <= offsets[g] /\ Base(segments) <= position[g]
    BY <1>1 DEF Positions, Holding
  <2>2. position[g] \in Nat /\ offsets[g] \in Nat
    BY <1>1
  <2> QED BY <1>2, <2>1, <2>2
<1> QED BY <1>3 DEF Reaches

(* In every state the files are those of a log that can be opened.         *)
Stored ==
    \E segs, fs : /\ Kept(segs, fs, log)
                  /\ Reaches(segs, DOMAIN offsets \ Observers, offsets)
                  /\ CutShort(files, segs, fs)

(* Running or not, the files are such. *)
LEMMA AlwaysStored == ASSUME Types, OnDisk, InIndex, Positions PROVE Stored
<1>1. CASE ~up
  BY <1>1 DEF OnDisk, Stored
<1>2. CASE up
  <2>1. Kept(segments, files, log) /\ Chain(segments)
        /\ files \in [Bases(segments) -> Seq(Payloads)]
    BY <1>2 DEF InIndex, Kept, Lists
  <2>2. Reaches(segments, DOMAIN offsets \ Observers, offsets)
    BY <1>2, IndexReaches
  <2>3. CutShort(files, segments, files)
    <3>1. \A b \in Bases(segments) : files[b] \in Seq(Payloads \union {Torn, Blank})
      <4>1. \A t \in Seq(Payloads) : t \in Seq(Payloads \union {Torn, Blank})
        OBVIOUS
      <4> QED BY <2>1, <4>1
    <3>2. files \in [Bases(segments) -> Seq(Payloads \union {Torn, Blank})]
      BY <2>1, <3>1
    <3>3. \A b \in Bases(segments) : Whole(files[b]) = files[b]
      BY <2>1, WholePayloads
    <3> QED BY <3>2, <3>3 DEF CutShort
  <2> QED BY <2>1, <2>2, <2>3 DEF Stored
<1> QED BY <1>1, <1>2

(* What the process loses when it ends is none of what is kept.            *)
LEMMA LostKeeps ==
    ASSUME IInv, Lost, OnDisk', log' \in Seq(Payloads),
           DOMAIN offsets' \subseteq Groups, offsets' \in [DOMAIN offsets' -> Nat],
           seen' \in [Groups -> SUBSET Nat],
           \A g \in DOMAIN offsets' \ Observers : 0..(offsets'[g] - 1) \subseteq seen'[g]
    PROVE  IInv'
<1>1. /\ up' = FALSE /\ segments' = <<>> /\ active' = 0 /\ groups' = {} /\ observers' = {}
      /\ position' = [g \in Groups |-> 0]
      /\ spc' = [s \in Senders |-> "idle"]
      /\ pending' = [s \in Senders |-> <<>>]
      /\ swoken' = [s \in Senders |-> FALSE]
      /\ rpc' = [g \in Groups |-> "closed"]
      /\ next' = [g \in Groups |-> 0]
      /\ skipped' = [g \in Groups |-> 0]
      /\ rwoken' = [g \in Groups |-> FALSE]
      /\ runs' = [g \in Groups |-> <<>>]
  BY DEF Lost
<1>2. Types'
  <2>1. pending' \in [Senders -> Seq(Payloads)] /\ \A s \in Senders : Len(pending'[s]) <= MaxBatch
    <3>1. <<>> \in Seq(Payloads) /\ Len(<<>>) <= MaxBatch
      BY BoundsAssumption
    <3> QED BY <1>1, <3>1
  <2>2. runs' \in [Groups -> Seq(Runs)]
    <3>1. <<>> \in Seq(Runs)
      OBVIOUS
    <3> QED BY <1>1, <3>1
  <2>3. spc' \in [Senders -> SenderStates] /\ rpc' \in [Groups -> ReceiverStates]
    BY <1>1 DEF SenderStates, ReceiverStates
  <2> QED BY <1>1, <2>1, <2>2, <2>3 DEF IInv, Types
<1>3. InIndex' /\ Positions'
  BY <1>1 DEF InIndex, Positions, Holding
<1>4. Caught' /\ InFiles'
  BY <1>1 DEF Caught, InFiles, Holding
<1> QED BY <1>2, <1>3, <1>4 DEF IInv

(* So it is where positions stay as they are. *)
LEMMA LostIsKept ==
    ASSUME IInv, Lost, OnDisk', log' \in Seq(Payloads), offsets' = offsets, seen' = seen
    PROVE  IInv'
<1>1. /\ DOMAIN offsets' \subseteq Groups /\ offsets' \in [DOMAIN offsets' -> Nat]
      /\ seen' \in [Groups -> SUBSET Nat]
  BY DEF IInv, Types
<1>2. \A g \in DOMAIN offsets' \ Observers : 0..(offsets'[g] - 1) \subseteq seen'[g]
  BY DEF IInv, Caught
<1> QED BY <1>1, <1>2, LostKeeps

(* A crash between two steps keeps the invariant. *)
LEMMA CrashKeeps == ASSUME IInv, Crash PROVE IInv'
<1>1. /\ up /\ Lost /\ files' = files /\ offsets' = offsets /\ log' = log /\ seen' = seen
  BY DEF Crash, disk, history
<1>2. Stored /\ log \in Seq(Payloads)
  BY AlwaysStored DEF IInv, Types
<1>3. OnDisk'
  BY <1>1, <1>2 DEF OnDisk, Stored
<1> QED BY <1>1, <1>2, <1>3, LostIsKept

(* A crash in the middle of a write keeps the invariant. *)
LEMMA CrashWritingKeeps == ASSUME IInv, NEW s \in Senders, CrashWriting(s) PROVE IInv'
<1>1. up /\ Lost /\ offsets' = offsets /\ seen' = seen
  BY DEF CrashWriting
<1>2. Types /\ InIndex /\ Positions
  BY DEF IInv
<1>3. Reaches(segments, DOMAIN offsets \ Observers, offsets)
  BY <1>1, <1>2, IndexReaches
<1>4. OnDisk' /\ log' \in Seq(Payloads)
  BY <1>2, <1>3, CrashWritingLeaves
<1> QED BY <1>1, <1>4, LostIsKept

(* What a crash in a release leaves can be opened, wherever it ends.       *)
LEMMA EndsReleasingLeaves ==
    ASSUME NEW segs, NEW fs, NEW lg, Kept(segs, fs, lg), NEW mine \in SUBSET Groups,
           NEW watching, NEW at \in [Groups -> Nat],
           NEW n \in 0..Released(segs, mine, watching, at),
           files' = FilesWithout(fs, segs, n), log' = lg,
           \A g \in DOMAIN offsets' \ Observers :
              /\ g \in mine \ watching /\ Base(segs) <= at[g]
              /\ at[g] <= offsets'[g] /\ offsets'[g] \in Nat
    PROVE  OnDisk'
<1> DEFINE rest == Without(segs, n)
           left == FilesWithout(fs, segs, n)
<1>2. /\ n \in 0..(Len(segs) - 1) /\ Kept(rest, left, lg)
      /\ \A g \in mine \ watching : Base(segs) <= at[g] => Base(rest) <= at[g]
  BY ReleasingLeaves
<1> HIDE DEF rest, left
<1>3. Chain(rest) /\ left \in [Bases(rest) -> Seq(Payloads)]
  BY <1>2 DEF Kept, Lists
<1>4. CutShort(left, rest, left)
  <2>1. \A b \in Bases(rest) : left[b] \in Seq(Payloads \union {Torn, Blank})
    <3>1. \A t \in Seq(Payloads) : t \in Seq(Payloads \union {Torn, Blank})
      OBVIOUS
    <3> QED BY <1>3, <3>1
  <2>2. left \in [Bases(rest) -> Seq(Payloads \union {Torn, Blank})]
    BY <1>3, <2>1
  <2>3. \A b \in Bases(rest) : Whole(left[b]) = left[b]
    BY <1>3, WholePayloads
  <2> QED BY <2>2, <2>3 DEF CutShort
<1>5. Base(rest) \in Nat
  BY <1>3, Chained
<1>6. ASSUME NEW g \in DOMAIN offsets' \ Observers PROVE Base(rest) <= offsets'[g]
  <2>1. /\ g \in mine \ watching /\ Base(segs) <= at[g]
        /\ at[g] <= offsets'[g] /\ offsets'[g] \in Nat /\ at[g] \in Nat
    OBVIOUS
  <2>2. Base(rest) <= at[g]
    BY <1>2, <2>1
  <2> QED BY <1>5, <2>1, <2>2
<1>7. PICK R, D : R = rest /\ D = left
  OBVIOUS
<1>8. Kept(R, D, log') /\ CutShort(files', R, D)
      /\ \A g \in DOMAIN offsets' \ Observers : Base(R) <= offsets'[g]
  BY <1>2, <1>4, <1>6, <1>7 DEF left
<1> QED BY <1>8 DEF OnDisk, Reaches

(* Groups that hold the topic do not observe it, and their positions on    *)
(* disk are not behind those in memory.                                    *)
LEMMA HoldersAre ==
    ASSUME IInv, up
    PROVE  /\ Kept(segments, files, log) /\ log \in Seq(Payloads)
           /\ groups \in SUBSET Groups /\ DOMAIN offsets = groups
           /\ offsets \in [groups -> Nat] /\ position \in [Groups -> Nat]
           /\ \A g \in groups \ Observers :
                 /\ g \in groups \ observers
                 /\ Base(segments) <= position[g] /\ position[g] <= offsets[g]
<1>1. /\ Kept(segments, files, log) /\ log \in Seq(Payloads)
      /\ groups \in SUBSET Groups /\ DOMAIN offsets = groups
      /\ offsets \in [DOMAIN offsets -> Nat] /\ position \in [Groups -> Nat]
      /\ observers \subseteq groups \intersect Observers
  BY DEF IInv, Types, InIndex
<1>2. \A g \in groups \ Observers :
         g \notin observers /\ Base(segments) <= position[g] /\ position[g] <= offsets[g]
  BY <1>1 DEF IInv, Positions, Holding
<1> QED BY <1>1, <1>2

(* A crash before the release that follows a batch keeps the invariant.    *)
LEMMA CrashReleasingKeeps == ASSUME IInv, NEW s \in Senders, CrashReleasing(s) PROVE IInv'
<1> DEFINE batch == pending[s]
           more == More(segments, Len(batch))
           rolled == Rolling(more)
           onDisk == RollingFiles(more, Longer(segments, files, batch))
<1>1. /\ up /\ offsets' = offsets /\ seen' = seen /\ log' = log \o batch
      /\ active = Last(segments).base /\ batch \in Seq(Payloads)
  BY DEF CrashReleasing, IInv, InIndex, Types
<1>2. EndsReleasing(onDisk, rolled, groups, observers, position)
  BY <1>1 DEF CrashReleasing, AppendedFiles, AppendedIndex, Counted, Written, More, Longer,
              Rolling, RollingFiles
<1>3. /\ Kept(segments, files, log) /\ log \in Seq(Payloads)
      /\ groups \in SUBSET Groups /\ DOMAIN offsets = groups
      /\ offsets \in [groups -> Nat] /\ position \in [Groups -> Nat]
      /\ \A g \in groups \ Observers :
            /\ g \in groups \ observers
            /\ Base(segments) <= position[g] /\ position[g] <= offsets[g]
  BY <1>1, HoldersAre
<1>4. Kept(rolled, onDisk, log \o batch) /\ Base(rolled) = Base(segments)
  BY <1>1, <1>3, RollingIsKept
<1>5. Lost /\ log' \in Seq(Payloads)
  BY <1>1, <1>2, <1>3 DEF EndsReleasing
<1> HIDE DEF rolled, onDisk, batch
<1>6. OnDisk'
  <2>1. \A g \in DOMAIN offsets' \ Observers :
           /\ g \in groups \ observers /\ Base(rolled) <= position[g]
           /\ position[g] <= offsets'[g] /\ offsets'[g] \in Nat
    BY <1>1, <1>3, <1>4
  <2>2. PICK n \in 0..Released(rolled, groups, observers, position) :
               files' = FilesWithout(onDisk, rolled, n)
    BY <1>2 DEF EndsReleasing
  <2>3. PICK lg, R, D : lg = log \o batch /\ R = rolled /\ D = onDisk
    OBVIOUS
  <2>4. /\ Kept(R, D, lg) /\ log' = lg /\ groups \in SUBSET Groups /\ position \in [Groups -> Nat]
        /\ n \in 0..Released(R, groups, observers, position) /\ files' = FilesWithout(D, R, n)
        /\ \A g \in DOMAIN offsets' \ Observers :
              /\ g \in groups \ observers /\ Base(R) <= position[g]
              /\ position[g] <= offsets'[g] /\ offsets'[g] \in Nat
    BY <1>1, <1>3, <1>4, <2>1, <2>2, <2>3
  <2> QED BY ONLY <2>4, EndsReleasingLeaves
<1> QED BY <1>1, <1>5, <1>6, LostIsKept

(* So does one once a position was replaced: what it covers was received.  *)
LEMMA CrashAcknowledgingKeeps ==
    ASSUME IInv, NEW g \in Groups, NEW offset \in Nat, CrashAcknowledging(g, offset)
    PROVE  IInv'
<1> DEFINE at == [position EXCEPT ![g] = offset + 1]
<1>1. /\ rpc[g] = "idle" /\ g \in groups /\ offset < next[g] /\ offset >= position[g]
      /\ offsets' = With(offsets, g, offset + 1)
      /\ EndsReleasing(files, segments, groups, observers, at)
      /\ log' = log /\ seen' = seen
  BY DEF CrashAcknowledging, Received, WriteGroup, history
<1>2. up /\ next \in [Groups -> Nat] /\ seen \in [Groups -> SUBSET Nat] /\ offset + 1 \in Nat
  BY <1>1 DEF IInv, Types
<1>3. /\ Kept(segments, files, log) /\ log \in Seq(Payloads)
      /\ groups \in SUBSET Groups /\ DOMAIN offsets = groups
      /\ offsets \in [groups -> Nat] /\ position \in [Groups -> Nat]
      /\ \A h \in groups \ Observers :
            /\ h \in groups \ observers
            /\ Base(segments) <= position[h] /\ position[h] <= offsets[h]
  BY <1>2, HoldersAre
<1>4. /\ DOMAIN offsets' = groups /\ offsets' \in [groups -> Nat] /\ offsets'[g] = offset + 1
      /\ \A h \in groups : h # g => offsets'[h] = offsets[h]
  <2>0. PICK to \in Nat : to = offset + 1
    OBVIOUS
  <2> DEFINE new == With(offsets, g, to)
  <2>1. offsets' = new
    BY <2>0, <1>1
  <2>2. groups \union {g} = groups
    BY <1>1
  <2>3. /\ DOMAIN new = groups \union {g} /\ new \in [DOMAIN new -> Nat] /\ new[g] = to
        /\ \A h \in groups : h # g => new[h] = offsets[h]
    BY <1>3 DEF With
  <2> HIDE DEF new
  <2> QED BY <2>0, <2>1, <2>2, <2>3
<1>5. at \in [Groups -> Nat] /\ at[g] = offset + 1 /\ \A h \in Groups : h # g => at[h] = position[h]
  BY <1>2, <1>3
<1> HIDE DEF at
<1>6. Base(segments) \in Nat
  <2>1. Chain(segments)
    BY <1>3 DEF Kept, Lists
  <2> QED BY <2>1, Chained
<1>7. ASSUME NEW h \in DOMAIN offsets' \ Observers
      PROVE  /\ h \in groups \ observers /\ Base(segments) <= at[h]
             /\ at[h] <= offsets'[h] /\ offsets'[h] \in Nat
  <2>1. /\ h \in groups \ observers /\ h \in Groups /\ position[h] \in Nat
        /\ Base(segments) <= position[h] /\ position[h] <= offsets[h] /\ offsets'[h] \in Nat
    BY <1>3, <1>4
  <2>2. CASE h = g
    BY <1>1, <1>4, <1>5, <1>6, <2>1, <2>2
  <2>3. CASE h # g
    BY <1>4, <1>5, <2>1, <2>3
  <2> QED BY <2>1, <2>2, <2>3
<1>8. OnDisk' /\ Lost /\ log' \in Seq(Payloads)
  <2>0. PICK n \in 0..Released(segments, groups, observers, at) :
               files' = FilesWithout(files, segments, n)
    BY <1>1 DEF EndsReleasing
  <2>1. OnDisk'
    BY <1>1, <1>3, <1>5, <1>7, <2>0, EndsReleasingLeaves
  <2> QED BY <1>1, <1>3, <2>1 DEF EndsReleasing
<1>9. ASSUME NEW h \in DOMAIN offsets' \ Observers PROVE 0..(offsets'[h] - 1) \subseteq seen'[h]
  <2>1. CASE h = g
    <3>1. 0..(next[g] - 1) \subseteq seen[g]
      BY <1>1, <1>4, <2>1 DEF IInv, Caught, Holding
    <3>2. 0..(offset + 1 - 1) \subseteq 0..(next[g] - 1)
      BY <1>1, <1>2
    <3> QED BY <1>1, <1>4, <2>1, <3>1, <3>2
  <2>2. CASE h # g
    BY <1>1, <1>3, <1>4, <2>2 DEF IInv, Caught
  <2> QED BY <2>1, <2>2
<1>10. DOMAIN offsets' \subseteq Groups /\ offsets' \in [DOMAIN offsets' -> Nat]
       /\ seen' \in [Groups -> SUBSET Nat]
  BY <1>1, <1>2, <1>3, <1>4
<1> QED BY <1>8, <1>9, <1>10, LostKeeps

(* And one once a group was removed. *)
LEMMA CrashUnsubscribingKeeps ==
    ASSUME IInv, NEW g \in Groups, CrashUnsubscribing(g)
    PROVE  IInv'
<1>1. /\ up /\ seen' = [seen EXCEPT ![g] = {}] /\ log' = log
      /\ offsets' = IF g \in groups THEN Restrict(offsets, DOMAIN offsets \ {g}) ELSE offsets
      /\ EndsReleasing(files, segments, groups \ {g}, observers \ {g}, position)
  BY DEF CrashUnsubscribing
<1>2. seen \in [Groups -> SUBSET Nat]
  BY DEF IInv, Types
<1>3. /\ Kept(segments, files, log) /\ log \in Seq(Payloads)
      /\ groups \in SUBSET Groups /\ DOMAIN offsets = groups
      /\ offsets \in [groups -> Nat] /\ position \in [Groups -> Nat]
      /\ \A h \in groups \ Observers :
            /\ h \in groups \ observers
            /\ Base(segments) <= position[h] /\ position[h] <= offsets[h]
  BY <1>1, HoldersAre
<1> DEFINE left == groups \ {g}
<1>4. /\ DOMAIN offsets' = left /\ offsets' \in [DOMAIN offsets' -> Nat]
      /\ \A h \in left : offsets'[h] = offsets[h] /\ offsets[h] \in Nat
  <2>1. CASE g \in groups
    <3>1. offsets' = [h \in left |-> offsets[h]]
      BY <1>1, <1>3, <2>1 DEF Restrict
    <3> QED BY <1>3, <3>1
  <2>2. CASE g \notin groups
    <3>1. offsets' = offsets /\ left = groups
      BY <1>1, <2>2
    <3> QED BY <1>3, <3>1
  <2> QED BY <2>1, <2>2
<1>5. OnDisk' /\ Lost /\ log' \in Seq(Payloads)
  <2>1. \A h \in DOMAIN offsets' \ Observers :
           /\ h \in left \ (observers \ {g}) /\ Base(segments) <= position[h]
           /\ position[h] <= offsets'[h] /\ offsets'[h] \in Nat
    BY <1>3, <1>4
  <2>2. left \in SUBSET Groups /\ EndsReleasing(files, segments, left, observers \ {g}, position)
    BY <1>1, <1>3
  <2> HIDE DEF left
  <2>0. PICK n \in 0..Released(segments, left, observers \ {g}, position) :
               files' = FilesWithout(files, segments, n)
    BY <2>2 DEF EndsReleasing
  <2>4. PICK watching : watching = observers \ {g}
    OBVIOUS
  <2>5. /\ Kept(segments, files, log) /\ log' = log /\ left \in SUBSET Groups
        /\ position \in [Groups -> Nat]
        /\ n \in 0..Released(segments, left, watching, position)
        /\ files' = FilesWithout(files, segments, n)
        /\ \A h \in DOMAIN offsets' \ Observers :
              /\ h \in left \ watching /\ Base(segments) <= position[h]
              /\ position[h] <= offsets'[h] /\ offsets'[h] \in Nat
    BY <1>1, <1>3, <2>0, <2>1, <2>2, <2>4
  <2>3. OnDisk'
    BY ONLY <2>5, EndsReleasingLeaves
  <2> QED BY <1>1, <1>3, <2>3 DEF EndsReleasing
<1>6. \A h \in DOMAIN offsets' \ Observers : 0..(offsets'[h] - 1) \subseteq seen'[h]
  <2>1. \A h \in left : h \in Groups /\ seen'[h] = seen[h] /\ h \in DOMAIN offsets
    BY <1>1, <1>2, <1>3
  <2> QED BY <1>4, <2>1 DEF IInv, Caught
<1>7. DOMAIN offsets' \subseteq Groups /\ seen' \in [Groups -> SUBSET Nat]
  BY <1>1, <1>2, <1>3, <1>4
<1> QED BY <1>4, <1>5, <1>6, <1>7, LostKeeps

(* An empty directory is that of an empty log. *)
LEMMA InitKeeps == Init => IInv
<1> SUFFICES ASSUME Init PROVE IInv
  OBVIOUS
<1>1. Types
  <2>1. <<>> \in Seq(Payloads) /\ Len(<<>>) <= MaxBatch /\ <<>> \in Seq(Runs)
    BY BoundsAssumption
  <2>2. offsets = <<>> /\ DOMAIN offsets = {} /\ offsets \in [DOMAIN offsets -> Nat]
    <3>1. DOMAIN <<>> = {} /\ <<>> = [i \in {} |-> i]
      OBVIOUS
    <3> QED BY <3>1 DEF Init
  <2>3. /\ pending \in [Senders -> Seq(Payloads)] /\ runs \in [Groups -> Seq(Runs)]
        /\ \A s \in Senders : Len(pending[s]) <= MaxBatch
    BY <2>1 DEF Init
  <2>4. /\ up = FALSE /\ active = 0 /\ log \in Seq(Payloads) /\ segments = <<>> /\ groups = {}
        /\ observers = {} /\ position \in [Groups -> Nat] /\ \A g \in Groups : rpc[g] = "closed"
    BY <2>1 DEF Init
  <2>5. /\ spc \in [Senders -> SenderStates] /\ swoken \in [Senders -> BOOLEAN]
        /\ rpc \in [Groups -> ReceiverStates] /\ rwoken \in [Groups -> BOOLEAN]
        /\ next \in [Groups -> Nat] /\ skipped \in [Groups -> Nat]
        /\ seen \in [Groups -> SUBSET Nat]
    BY DEF Init, SenderStates, ReceiverStates
  <2> QED BY <2>2, <2>3, <2>4, <2>5 DEF Types
<1>2. OnDisk
  <2> DEFINE segs == <<[base |-> 0, count |-> 0]>>
             fs == [base \in {0} |-> <<>>]
  <2>1. segs \in Seq(Entries) /\ Len(segs) = 1 /\ segs[1] = [base |-> 0, count |-> 0]
    BY DEF Entries
  <2>2. EndOf(segs[1]) = 0 /\ segs[1].base = 0 /\ segs[1].count = 0
    BY <2>1 DEF EndOf
  <2> HIDE DEF segs
  <2>3. Last(segs) = segs[1] /\ Base(segs) = 0 /\ End(segs) = 0
    BY <2>1, <2>2 DEF Last, Base, End
  <2>4. Chain(segs)
    BY <2>1 DEF Chain
  <2>5. Bases(segs) = {0}
    BY <2>1, <2>2 DEF Bases
  <2>6. fs \in [{0} -> Seq(Payloads)] /\ fs[0] = <<>> /\ Len(fs[0]) = 0 /\ DOMAIN fs = {0}
    OBVIOUS
  <2> HIDE DEF fs
  <2>7. Lists(segs, fs)
    BY <2>1, <2>2, <2>4, <2>5, <2>6 DEF Lists
  <2>8. log = <<>> /\ Len(log) = 0 /\ DOMAIN offsets = {} /\ DOMAIN files = {}
    BY DEF Init
  <2>9. Kept(segs, fs, log)
    <3>1. OfLog(fs, log)
      BY <2>6, <2>8 DEF OfLog
    <3> QED BY <2>3, <2>7, <2>8, <3>1 DEF Kept
  <2>11. Reaches(segs, DOMAIN offsets \ Observers, offsets)
    BY <2>8 DEF Reaches
  <2>12. CutShort(files, segs, fs)
    BY <2>8 DEF CutShort, segs, fs
  <2> QED BY <2>9, <2>11, <2>12 DEF OnDisk
<1>3. InIndex /\ Positions /\ Caught /\ InFiles
  <2>1. up = FALSE /\ groups = {} /\ DOMAIN offsets = {} /\ runs = [g \in Groups |-> <<>>]
    BY DEF Init
  <2> QED BY <2>1 DEF InIndex, Positions, Caught, InFiles, Holding
<1> QED BY <1>1, <1>2, <1>3 DEF IInv

(* The steps of the specification, one by one. *)
LEMMA NextIsSteps ==
    ASSUME Next
    PROVE  \/ Open \/ Crash
           \/ \E g \in Groups : \E asObserver \in BOOLEAN :
                 /\ IF asObserver THEN g \in Observers ELSE g \in Holders
                 /\ Receiver(g, asObserver)
           \/ \E g \in Groups : Unsubscribe(g)
           \/ \E s \in Senders : \/ \E batch \in Batches : Send(s, batch)
                                 \/ AwaitRoom(s) \/ Retry(s) \/ NotifyArrived(s) \/ Cancel(s)
                                 \/ WriteFails(s)
           \/ \E s \in Senders : \/ \E ok \in BOOLEAN : TakeBatch(s, ok)
                                 \/ RollFails(s) \/ CrashWriting(s) \/ CrashReleasing(s)
           \/ \E g \in Groups : \/ Receive(g) \/ ReceiveFails(g) \/ Recheck(g) \/ TimeOut(g)
                                \/ NotifyReleased(g) \/ TakeSkipped(g) \/ ReadFails(g)
           \/ \E g \in Groups : \/ Read(g) \/ \E max \in Nat : Locate(g, max)
           \/ \E g \in Groups, offset \in Nat : \/ \E ok \in BOOLEAN : Acknowledge(g, offset, ok)
                                                \/ AcknowledgeFails(g, offset)
                                                \/ CrashAcknowledging(g, offset)
           \/ \E g \in Groups : CrashUnsubscribing(g)
<1>1. CASE Open
  BY <1>1
<1>2. ASSUME NEW g \in Holders, Subscribe(g)
      PROVE  \E h \in Groups : \E asObserver \in BOOLEAN :
                /\ IF asObserver THEN h \in Observers ELSE h \in Holders
                /\ Receiver(h, asObserver)
  BY <1>2, GroupsAssumption DEF Subscribe
<1>3. ASSUME NEW g \in Observers, Observe(g)
      PROVE  \E h \in Groups : \E asObserver \in BOOLEAN :
                /\ IF asObserver THEN h \in Observers ELSE h \in Holders
                /\ Receiver(h, asObserver)
  BY <1>3, GroupsAssumption DEF Observe
<1>4. CASE \E g \in Groups : Unsubscribe(g)
  BY <1>4
<1>5. CASE \E s \in Senders, batch \in Batches : Send(s, batch)
  BY <1>5
<1>6. ASSUME NEW s \in Senders, SenderStep(s) \/ Cancel(s)
      PROVE  \/ AwaitRoom(s) \/ Retry(s) \/ NotifyArrived(s) \/ Cancel(s) \/ WriteFails(s)
             \/ \E ok \in BOOLEAN : TakeBatch(s, ok)
             \/ RollFails(s)
  BY <1>6 DEF SenderStep
<1>7. ASSUME NEW g \in Groups, Receive(g) \/ ReceiverStep(g) \/ TakeSkipped(g)
      PROVE  \/ Receive(g) \/ ReceiveFails(g) \/ Recheck(g) \/ TimeOut(g)
             \/ NotifyReleased(g) \/ TakeSkipped(g) \/ ReadFails(g)
             \/ Read(g) \/ \E max \in Nat : Locate(g, max)
  <2>1. \A max \in 1..MaxReceive : max \in Nat
    BY BoundsAssumption
  <2> QED BY <1>7, <2>1 DEF ReceiverStep
<1>8. \A offset \in 0..(MaxLog - 1) : offset \in Nat
  BY BoundsAssumption
<1>9. CASE \E g \in Groups, offset \in 0..(MaxLog - 1), ok \in BOOLEAN : Acknowledge(g, offset, ok)
  BY <1>8, <1>9
<1>10. CASE \E g \in Groups, offset \in 0..(MaxLog - 1) : AcknowledgeFails(g, offset)
  BY <1>8, <1>10
<1>11. CASE \E g \in Holders : Subscribe(g)
  BY <1>2, <1>11
<1>12. CASE \E g \in Observers : Observe(g)
  BY <1>3, <1>12
<1>13. CASE \E s \in Senders : SenderStep(s) \/ Cancel(s)
  BY <1>6, <1>13
<1>14. CASE \E g \in Groups : Receive(g) \/ ReceiverStep(g) \/ TakeSkipped(g)
  BY <1>7, <1>14
<1>15. CASE ProcessEnds
  BY <1>8, <1>15 DEF ProcessEnds
<1> QED BY <1>1, <1>4, <1>5, <1>9, <1>10, <1>11, <1>12, <1>13, <1>14, <1>15 DEF Next

(* Every step keeps the invariant. *)
LEMMA NextKeeps == ASSUME Tolerated, IInv, [Next]_vars PROVE IInv'
<1>0. Types /\ InIndex /\ InFiles
  BY DEF IInv
<1>1. CASE Open
  BY <1>1, OpenKeeps
<1>2. CASE Crash
  BY <1>2, CrashKeeps
<1>3. ASSUME NEW g \in Groups, NEW asObserver \in BOOLEAN, asObserver => g \in Observers,
             Receiver(g, asObserver)
      PROVE  IInv'
  BY <1>3, ReceiverKeeps
<1>4. ASSUME NEW g \in Groups, Unsubscribe(g) PROVE IInv'
  BY <1>4, UnsubscribeKeeps
<1>5. ASSUME NEW s \in Senders,
             \/ \E batch \in Batches : Send(s, batch)
             \/ AwaitRoom(s) \/ Retry(s) \/ NotifyArrived(s) \/ Cancel(s) \/ WriteFails(s)
      PROVE  IInv'
  <2>1. Sends
    BY <1>0, <1>5, SendsAre
  <2> QED BY <2>1, SendsKeep
<1>6. ASSUME NEW s \in Senders, NEW ok \in BOOLEAN, TakeBatch(s, ok) PROVE IInv'
  BY <1>6, TakeBatchKeeps
<1>7. ASSUME NEW s \in Senders, RollFails(s) PROVE IInv'
  BY <1>7, RollFailsKeeps
<1>8. ASSUME NEW s \in Senders, CrashWriting(s) PROVE IInv'
  BY <1>8, CrashWritingKeeps
<1>a. ASSUME NEW s \in Senders, CrashReleasing(s) PROVE IInv'
  BY <1>a, CrashReleasingKeeps
<1>b. ASSUME NEW g \in Groups, NEW offset \in Nat, CrashAcknowledging(g, offset) PROVE IInv'
  BY <1>b, CrashAcknowledgingKeeps
<1>c. ASSUME NEW g \in Groups, CrashUnsubscribing(g) PROVE IInv'
  BY <1>c, CrashUnsubscribingKeeps
<1>9. ASSUME NEW g \in Groups,
             \/ Receive(g) \/ ReceiveFails(g) \/ Recheck(g) \/ TimeOut(g)
             \/ NotifyReleased(g) \/ TakeSkipped(g) \/ ReadFails(g)
      PROVE  IInv'
  <2>1. Waits
    BY <1>0, <1>9, WaitsAre
  <2> QED BY <2>1, WaitsKeep
<1>10. ASSUME NEW g \in Groups, Read(g) PROVE IInv'
  BY <1>10, ReadKeeps
<1>11. ASSUME NEW g \in Groups, NEW max \in Nat, Locate(g, max) PROVE IInv'
  BY <1>11, LocateKeeps
<1>12. ASSUME NEW g \in Groups, NEW offset \in Nat, NEW ok \in BOOLEAN, Acknowledge(g, offset, ok)
       PROVE  IInv'
  BY <1>12, AcknowledgeKeeps
<1>13. ASSUME NEW g \in Groups, NEW offset \in Nat, AcknowledgeFails(g, offset) PROVE IInv'
  BY <1>13, AcknowledgeFailsKeeps
<1>14. CASE UNCHANGED vars
  <2>1. Sends
    <3>1. /\ UNCHANGED <<disk, up, index, positions, rpc, next, skipped, last, runs, history>>
          /\ spc' = spc /\ swoken' = swoken /\ pending' = pending /\ rwoken' = rwoken
      BY <1>14 DEF vars, senders, receivers
    <3> QED BY <1>0, <3>1 DEF Types, Sends
  <2> QED BY <2>1, SendsKeep
<1>15. CASE Next
  BY <1>1, <1>2, <1>3, <1>4, <1>5, <1>6, <1>7, <1>8, <1>9, <1>10, <1>11, <1>12, <1>13, <1>15,
     <1>a, <1>b, <1>c, NextIsSteps
<1> QED BY <1>14, <1>15

(* The invariant holds from the empty directory on. *)
LEMMA Invariant == ASSUME Tolerated PROVE Spec => []IInv
<1>1. IInv /\ [Next]_vars => IInv'
  BY NextKeeps
<1> QED BY <1>1, InitKeeps, PTL DEF Spec

(* The whole records of a file are those of the log that was put there.    *)
LEMMA StoredIs ==
    ASSUME NEW segs, NEW fs, Kept(segs, fs, log), CutShort(files, segs, fs),
           DOMAIN files # {}
    PROVE  /\ Chain(segs) /\ DOMAIN files = Bases(segs)
           /\ \A b \in DOMAIN files :
                 /\ fs[b] \in Seq(Payloads) /\ Whole(files[b]) = fs[b]
                 /\ b # Last(segs).base => files[b] = fs[b]
                 /\ \A i \in 1..Len(fs[b]) : files[b][i] = fs[b][i]
<1>1. Lists(segs, fs) /\ Chain(segs) /\ fs \in [Bases(segs) -> Seq(Payloads)]
  BY DEF Kept, Lists
<1>2. /\ files \in [Bases(segs) -> Seq(Payloads \union {Torn, Blank})]
      /\ \A b \in Bases(segs) : fs[b] = IF b = Last(segs).base THEN Whole(files[b]) ELSE files[b]
  BY DEF CutShort
<1>3. ASSUME NEW b \in Bases(segs)
      PROVE  /\ fs[b] \in Seq(Payloads) /\ Whole(files[b]) = fs[b]
             /\ b # Last(segs).base => files[b] = fs[b]
             /\ \A i \in 1..Len(fs[b]) : files[b][i] = fs[b][i]
  <2>1. fs[b] \in Seq(Payloads) /\ files[b] \in Seq(Payloads \union {Torn, Blank})
    BY <1>1, <1>2
  <2>2. CASE b # Last(segs).base
    <3>1. fs[b] = files[b]
      BY <1>2, <2>2
    <3> QED BY <2>1, <2>2, <3>1, WholePayloads
  <2>3. CASE b = Last(segs).base
    <3>1. fs[b] = Whole(files[b])
      BY <1>2, <2>3
    <3>2. PICK n \in 0..Len(files[b]) : Whole(files[b]) = SubSeq(files[b], 1, n)
      BY <2>1, WholeIs
    <3>3. Len(fs[b]) = n /\ \A i \in 1..n : SubSeq(files[b], 1, n)[i] = files[b][i]
      BY <2>1, <3>1, <3>2
    <3> QED BY <2>1, <2>3, <3>1, <3>2, <3>3
  <2> QED BY <2>2, <2>3
<1> QED BY <1>1, <1>2, <1>3

(* Such files can be opened. *)
LEMMA StoredOpens == ASSUME Stored PROVE AlwaysOpens
<1>1. SUFFICES ASSUME NEW base \in DOMAIN files \ {Max(DOMAIN files \union {0})}
               PROVE  /\ Whole(files[base]) = files[base]
                      /\ Min({b \in DOMAIN files : b > base}) = base + Len(files[base])
  BY DEF AlwaysOpens, Openable
<1>2. PICK segs, fs : Kept(segs, fs, log) /\ CutShort(files, segs, fs)
  BY DEF Stored
<1>3. /\ Chain(segs) /\ DOMAIN files = Bases(segs)
      /\ \A b \in DOMAIN files : /\ fs[b] \in Seq(Payloads) /\ Whole(files[b]) = fs[b]
                                 /\ b # Last(segs).base => files[b] = fs[b]
  BY <1>1, <1>2, StoredIs
<1> DEFINE n == Len(segs)
           top == Last(segs).base
<1>4. /\ n \in Nat \ {0} /\ top = segs[n].base /\ top \in Nat
      /\ \A i \in 1..n : segs[i].base \in Nat /\ segs[i].base <= top
      /\ Bases(segs) \in SUBSET Nat
  BY <1>3, Chained, BasesInOrder
<1>5. Max(DOMAIN files \union {0}) = top
  <2> DEFINE S == DOMAIN files \union {0}
  <2>1. S \in SUBSET Nat /\ top \in S /\ \A y \in S : y <= top
    BY <1>3, <1>4 DEF Bases
  <2> HIDE DEF S, top
  <2>2. Max(S) = top
    BY <2>1, MaxIs
  <2> QED BY <2>2 DEF S
<1>6. PICK i \in 1..n : base = segs[i].base
  BY <1>1, <1>3 DEF Bases
<1>7. i \in 1..(n - 1) /\ i + 1 \in 1..n /\ i \in Nat
  <2>1. i # n
    BY <1>1, <1>4, <1>5, <1>6
  <2> HIDE DEF n
  <2> QED BY <1>4, <2>1
<1>8. files[base] = fs[base]
  BY <1>1, <1>3, <1>5
<1>9. segs[i + 1].base = base + Len(files[base])
  <2>1. Lists(segs, fs)
    BY <1>2 DEF Kept
  <2>2. Len(fs[base]) = segs[i].count
    BY <1>6, <2>1 DEF Lists
  <2>3. segs[i + 1].base = EndOf(segs[i])
    BY <1>3, <1>7 DEF Chain
  <2> QED BY <1>6, <1>8, <2>2, <2>3 DEF EndOf
<1>10. Min({b \in DOMAIN files : b > base}) = segs[i + 1].base
  <2> DEFINE S == {b \in DOMAIN files : b > base}
             above == segs[i + 1].base
  <2>1. above \in Nat /\ base \in Nat /\ above \in DOMAIN files
    BY <1>3, <1>4, <1>6, <1>7 DEF Bases
  <2>2. base < above
    BY <1>3, <1>6, <1>7 DEF Chain
  <2>3. ASSUME NEW b \in S PROVE above <= b
    <3>1. PICK j \in 1..n : b = segs[j].base
      BY <1>3 DEF Bases
    <3>2. b \in Nat /\ b > base
      BY <1>4, <3>1
    <3>3. ~(j < i) /\ j # i
      <4>1. CASE j < i
        <5>1. segs[j].base < segs[i].base
          BY <1>3, <4>1 DEF Chain
        <5> QED BY <1>6, <2>1, <3>1, <3>2, <5>1
      <4>2. CASE j = i
        BY <1>6, <2>1, <3>1, <3>2, <4>2
      <4> QED BY <4>1, <4>2
    <3>4. CASE j = i + 1
      BY <2>1, <3>1, <3>4
    <3>5. CASE j # i + 1
      <4>1. i + 1 < j
        <5> HIDE DEF n
        <5> QED BY <1>4, <1>7, <3>3, <3>5
      <4>2. above < b
        BY <1>3, <1>7, <3>1, <4>1 DEF Chain
      <4> QED BY <2>1, <3>2, <4>2
    <3> QED BY <3>4, <3>5
  <2>4. above \in S /\ S \in SUBSET Nat
    <3>1. above \in S
      BY <2>1, <2>2
    <3> QED BY <1>3, <1>4, <3>1
  <2> HIDE DEF S, above
  <2>5. Min(S) \in S /\ \A y \in S : Min(S) <= y
    BY <2>4, MinIs
  <2>6. Min(S) = above
    <3>1. PICK m : m = Min(S)
      OBVIOUS
    <3>2. m \in Nat /\ above \in Nat /\ m <= above /\ above <= m
      BY <2>1, <2>3, <2>4, <2>5, <3>1
    <3>3. m = above
      BY ONLY <3>2
    <3> QED BY <3>1, <3>3
  <2> QED BY <2>6 DEF S, above
<1> QED BY <1>1, <1>3, <1>8, <1>9, <1>10

(* Their whole records are those of the log. *)
LEMMA StoredIsTheLog == ASSUME Stored PROVE DiskIsTheLog
<1> SUFFICES ASSUME NEW base \in DOMAIN files
             PROVE  /\ base + Len(Whole(files[base])) <= Len(log)
                    /\ \A i \in DOMAIN Whole(files[base]) : files[base][i] = log[base + i]
  BY DEF DiskIsTheLog
<1>1. PICK segs, fs : Kept(segs, fs, log) /\ CutShort(files, segs, fs)
  BY DEF Stored
<1>2. /\ DOMAIN files = Bases(segs)
      /\ fs[base] \in Seq(Payloads) /\ Whole(files[base]) = fs[base]
      /\ \A i \in 1..Len(fs[base]) : files[base][i] = fs[base][i]
  BY <1>1, StoredIs
<1>3. base \in DOMAIN fs
  BY <1>1, <1>2 DEF Kept, Lists
<1>4. /\ base + Len(fs[base]) <= Len(log)
      /\ \A i \in 1..Len(fs[base]) : fs[base][i] = log[base + i]
  BY <1>1, <1>3 DEF Kept, OfLog
<1>5. DOMAIN Whole(files[base]) = 1..Len(fs[base])
  BY <1>2
<1> QED BY <1>2, <1>4, <1>5

(* They hold what the holding groups have not acknowledged. *)
LEMMA StoredIsHeld == ASSUME Types, Stored PROVE NothingHeldIsLost
<1> SUFFICES ASSUME NEW g \in DOMAIN offsets \ Observers, NEW offset \in offsets[g]..(Len(log) - 1)
             PROVE  \E base \in DOMAIN files :
                        base <= offset /\ offset < base + Len(Whole(files[base]))
  BY DEF NothingHeldIsLost
<1>1. PICK segs, fs : /\ Kept(segs, fs, log) /\ CutShort(files, segs, fs)
                      /\ Reaches(segs, DOMAIN offsets \ Observers, offsets)
  BY DEF Stored
<1>2. offsets[g] \in Nat /\ Len(log) \in Nat
  BY DEF Types
<1>0. DOMAIN files # {}
  <2> SUFFICES ASSUME DOMAIN files = {} PROVE FALSE
    OBVIOUS
  <2>1. Chain(segs) /\ End(segs) = Len(log)
    BY <1>1 DEF Kept, Lists
  <2>2. Last(segs).base \in Bases(segs)
    BY <2>1, Chained
  <2>3. segs = <<[base |-> 0, count |-> 0]>>
    BY <1>1, <2>2 DEF CutShort
  <2>4. End(segs) = 0
    BY <2>3 DEF End, EndOf, Last
  <2> QED BY <1>2, <2>1, <2>4
<1>3. /\ Chain(segs) /\ DOMAIN files = Bases(segs)
      /\ \A b \in DOMAIN files : Whole(files[b]) = fs[b]
  BY <1>0, <1>1, StoredIs
<1>4. offset \in Nat /\ Base(segs) <= offset /\ offset < End(segs)
  <2>1. Base(segs) \in Nat /\ Base(segs) <= offsets[g] /\ End(segs) = Len(log)
    BY <1>1, <1>3, Chained DEF Reaches, Kept
  <2> QED BY <1>2, <2>1
<1>5. PICK i \in 1..Len(segs) : segs[i].base <= offset /\ offset < EndOf(segs[i])
  BY <1>3, <1>4, Covered
<1>6. segs[i].base \in DOMAIN files
  BY <1>3 DEF Bases
<1>7. EndOf(segs[i]) = segs[i].base + Len(Whole(files[segs[i].base]))
  <2>1. Lists(segs, fs)
    BY <1>1 DEF Kept
  <2>2. Len(fs[segs[i].base]) = segs[i].count
    BY <2>1 DEF Lists
  <2> QED BY <1>3, <1>6, <2>2 DEF EndOf
<1> QED BY <1>5, <1>6, <1>7

-----------------------------------------------------------------------------
(* The invariant includes the types. *)
LEMMA TypesAre == ASSUME IInv PROVE TypeOK
<1>1. Types
  BY DEF IInv
<1>2. DOMAIN files \subseteq Nat
      /\ \A base \in DOMAIN files : files[base] \in Seq(Payloads \union {Torn, Blank})
  <2>1. PICK segs, fs : Kept(segs, fs, log) /\ CutShort(files, segs, fs)
    BY AlwaysStored DEF IInv, Stored
  <2>2. Bases(segs) \in SUBSET Nat
    BY <2>1, BasesInOrder DEF Kept, Lists
  <2>3. DOMAIN files = {} \/ files \in [Bases(segs) -> Seq(Payloads \union {Torn, Blank})]
    BY <2>1 DEF CutShort
  <2> QED BY <2>2, <2>3
<1>3. segments \in Seq([base : Nat, count : Nat]) /\ (up <=> segments # <<>>)
  <2>1. CASE up
    <3>1. Chain(segments)
      BY <2>1 DEF IInv, InIndex, Kept, Lists
    <3>2. segments \in Seq(Entries) /\ Len(segments) > 0
      BY <3>1 DEF Chain
    <3> QED BY <2>1, <3>2 DEF Entries
  <2>2. CASE ~up
    <3>1. segments = <<>>
      BY <1>1, <2>2 DEF Types
    <3> QED BY <2>2, <3>1
  <2> QED BY <2>1, <2>2
<1>4. runs \in [Groups -> Seq([file : Nat, skip : Nat, count : Nat])]
  BY <1>1 DEF Types, Runs
<1>5. /\ DOMAIN offsets \subseteq Groups /\ \A g \in DOMAIN offsets : offsets[g] \in Nat
      /\ observers \subseteq groups
  BY <1>1 DEF Types
<1> QED BY <1>1, <1>2, <1>3, <1>4, <1>5 DEF Types, TypeOK

(* Segments, positions and what the tasks hold are of the kinds disk.rs    *)
(* keeps, whatever crashes and fails.                                      *)
THEOREM TypeCorrect == ASSUME Tolerated PROVE Spec => []TypeOK
BY Invariant, TypesAre, PTL

(* Whatever is on disk can be opened again: at every step of a batch, a    *)
(* roll, an acknowledgement and a release the process may end.             *)
THEOREM WhatIsThereOpens == ASSUME Tolerated PROVE Spec => []AlwaysOpens
<1>1. IInv => AlwaysOpens
  BY AlwaysStored, StoredOpens DEF IInv
<1> QED BY <1>1, Invariant, PTL

(* What is on disk is what was sent, each record at its offset.            *)
THEOREM OffsetsNeverShift == ASSUME Tolerated PROVE Spec => []DiskIsTheLog
<1>1. IInv => DiskIsTheLog
  BY AlwaysStored, StoredIsTheLog DEF IInv
<1> QED BY <1>1, Invariant, PTL

(* Every record a holding group has not acknowledged is on disk, however   *)
(* the topic was cut, released and opened since it was sent.               *)
THEOREM HeldIsOnDisk == ASSUME Tolerated PROVE Spec => []NothingHeldIsLost
<1>1. IInv => NothingHeldIsLost
  BY AlwaysStored, StoredIsHeld DEF IInv
<1> QED BY <1>1, Invariant, PTL

(* A directory within the bound is, by the words of the proofs.            *)
LEMMA BetweenIsBounded == ASSUME up' = TRUE, Between(segments') PROVE Bounded'
BY DEF Between, Bounded

(* The step that the bound is about: a batch leaves the directory within   *)
(* it, and no other step of the process leaves it further from it.         *)
LEMMA NextStaysBounded ==
    ASSUME Tolerated, IInv, Next, up, up'
    PROVE  \/ Bounded'
           \/ /\ EndOf(segments[1]) <= EndOf(segments'[1])
              /\ Last(segments').base = Last(segments).base
              /\ \A s \in Senders : spc'[s] = "appended" => spc[s] = "appended"
<1> DEFINE Closer == /\ EndOf(segments[1]) <= EndOf(segments'[1])
                     /\ Last(segments').base = Last(segments).base
           Quiet == \A s \in Senders : spc'[s] = "appended" => spc[s] = "appended"
<1>0. Types /\ InIndex
  BY DEF IInv
<1>1. spc \in [Senders -> SenderStates]
  BY <1>0 DEF Types
<1>2. ASSUME segments' = segments PROVE Closer
  <2>1. Chain(segments)
    BY <1>0 DEF InIndex, Kept, Lists
  <2>2. 1 \in 1..Len(segments) /\ EndOf(segments[1]) \in Nat
    BY <2>1, Chained
  <2> QED BY <1>2, <2>2
<1>3. ASSUME NEW s \in Senders,
             \/ \E batch \in Batches : Send(s, batch)
             \/ AwaitRoom(s) \/ Retry(s) \/ NotifyArrived(s) \/ Cancel(s) \/ WriteFails(s)
      PROVE  Closer /\ Quiet
  <2>1. segments' = segments
    BY <1>3 DEF Send, AwaitRoom, Retry, NotifyArrived, Cancel, WriteFails, index
  <2>2. \E to \in {"registered", "waiting", "idle"} : spc' = [spc EXCEPT ![s] = to]
    BY <1>3 DEF Send, AwaitRoom, Retry, NotifyArrived, Cancel, WriteFails
  <2> QED BY <1>1, <1>2, <2>1, <2>2
<1>4. ASSUME NEW s \in Senders, NEW ok \in BOOLEAN, TakeBatch(s, ok) PROVE Bounded'
  BY <1>0, <1>4, TakeBatchGrows, BetweenIsBounded DEF Grows
<1>5. ASSUME NEW s \in Senders, RollFails(s) PROVE Closer /\ Quiet
  <2>1. Closer
    BY <1>0, <1>5, RollFailsGrows
  <2>2. spc' = [spc EXCEPT ![s] = "idle"]
    BY <1>5 DEF RollFails
  <2> QED BY <1>1, <2>1, <2>2
<1>6. ASSUME NEW g \in Groups, Unsubscribe(g) PROVE Closer /\ Quiet
  <2>1. /\ up' = up /\ active' = active /\ log' = log /\ spc' = spc
        /\ groups' = groups \ {g} /\ observers' = observers \ {g}
        /\ position' = [position EXCEPT ![g] = 0]
        /\ Release(files, segments, groups', observers', position, TRUE)
    BY <1>6 DEF Unsubscribe
  <2>2. /\ position \in [Groups -> Nat] /\ groups' \in SUBSET Groups
        /\ \A h \in groups' : position'[h] = position[h]
    BY <1>0, <2>1 DEF Types
  <2>3. Closer
    BY <1>0, <2>1, <2>2, ReleaseGrows
  <2> QED BY <2>1, <2>3
<1>7. ASSUME NEW g \in Groups, NEW offset \in Nat, NEW ok \in BOOLEAN, Acknowledge(g, offset, ok)
      PROVE  Closer /\ Quiet
  <2> DEFINE at == [position EXCEPT ![g] = offset + 1]
  <2>1. /\ up' = up /\ active' = active /\ log' = log /\ senders' = senders
        /\ groups' = groups /\ observers' = observers /\ position' = at
        /\ Release(files, segments, groups, observers, at, ok)
    BY <1>7 DEF Acknowledge, history
  <2>2. position \in [Groups -> Nat] /\ groups' \in SUBSET Groups /\ offset + 1 \in Nat
    BY <1>0, <2>1 DEF Types
  <2>3. at \in [Groups -> Nat]
    BY <2>2
  <2> HIDE DEF at
  <2>4. Closer
    BY <1>0, <2>1, <2>2, <2>3, ReleaseGrows
  <2> QED BY <2>1, <2>4 DEF senders
<1>8. ASSUME NEW g \in Groups, NEW asObserver \in BOOLEAN, Receiver(g, asObserver)
      PROVE  Closer /\ Quiet
  BY <1>2, <1>8 DEF Receiver, index, senders
<1>9. ASSUME NEW g \in Groups,
             \/ Receive(g) \/ ReceiveFails(g) \/ Recheck(g) \/ TimeOut(g)
             \/ NotifyReleased(g) \/ TakeSkipped(g) \/ ReadFails(g)
             \/ Read(g) \/ (\E max \in Nat : Locate(g, max))
             \/ (\E offset \in Nat : AcknowledgeFails(g, offset))
      PROVE  Closer /\ Quiet
  <2>1. segments' = segments /\ spc' = spc
    BY <1>9 DEF Receive, ReceiveFails, Recheck, TimeOut, NotifyReleased, TakeSkipped, ReadFails,
                Read, Locate, AcknowledgeFails, index, senders
  <2> QED BY <1>2, <2>1
<1>10. ~Open
  BY DEF Open
<1>11. ~Crash /\ (\A s \in Senders : ~CrashWriting(s) /\ ~CrashReleasing(s))
       /\ (\A g \in Groups : ~CrashUnsubscribing(g))
       /\ (\A g \in Groups, offset \in Nat : ~CrashAcknowledging(g, offset))
  BY DEF Crash, CrashWriting, CrashReleasing, CrashUnsubscribing, CrashAcknowledging,
         EndsReleasing, Lost
<1> QED BY <1>3, <1>4, <1>5, <1>6, <1>7, <1>8, <1>9, <1>10, <1>11, NextIsSteps

(* Every send that is taken leaves no more than the capacity, or than a    *)
(* batch that is larger, between the first segment and the active one, and *)
(* no other step of the process adds to what is beyond that.               *)
THEOREM DirectoryIsBounded == ASSUME Tolerated PROVE Spec => StaysBounded
<1> DEFINE Step ==
       up /\ up' =>
         \/ Bounded'
         \/ /\ EndOf(segments[1]) <= EndOf(segments'[1]) /\ Last(segments').base = Last(segments).base
            /\ \A s \in Senders : spc'[s] = "appended" => spc[s] = "appended"
<1>1. IInv /\ [Next]_vars => [Step]_vars
  BY NextStaysBounded
<1>2. Spec => [][Step]_vars
  BY <1>1, Invariant, PTL DEF Spec
<1> QED BY <1>2 DEF StaysBounded

(* A topic that is not open changes no file before it is opened.           *)
LEMMA AsleepStays == ASSUME IInv, ~up, Next, ~Open PROVE files' = files /\ up' = up
<1>0. \A g \in Groups : rpc[g] = "closed"
  BY DEF IInv, Types
<1>1. ASSUME NEW s \in Senders,
             \/ \E batch \in Batches : Send(s, batch)
             \/ AwaitRoom(s) \/ Retry(s) \/ NotifyArrived(s) \/ Cancel(s) \/ WriteFails(s)
      PROVE  files' = files /\ up' = up
  BY <1>1 DEF Send, AwaitRoom, Retry, NotifyArrived, Cancel, WriteFails, disk
<1>2. ASSUME NEW s \in Senders, \/ \E ok \in BOOLEAN : TakeBatch(s, ok)
                                \/ RollFails(s) \/ CrashWriting(s) \/ CrashReleasing(s)
      PROVE  FALSE
  BY <1>2 DEF TakeBatch, RollFails, CrashWriting, CrashReleasing
<1>3. ASSUME NEW g \in Groups, \/ \E asObserver \in BOOLEAN : Receiver(g, asObserver)
                               \/ Unsubscribe(g) \/ CrashUnsubscribing(g)
      PROVE  FALSE
  BY <1>3 DEF Receiver, Unsubscribe, CrashUnsubscribing
<1>4. ASSUME NEW g \in Groups,
             \/ Receive(g) \/ ReceiveFails(g) \/ Recheck(g) \/ TimeOut(g)
             \/ NotifyReleased(g) \/ TakeSkipped(g) \/ ReadFails(g)
             \/ Read(g) \/ \E max \in Nat : Locate(g, max)
      PROVE  FALSE
  BY <1>0, <1>4 DEF Receive, ReceiveFails, Recheck, TimeOut, NotifyReleased, TakeSkipped,
                    ReadFails, Read, Locate
<1>5. ASSUME NEW g \in Groups, NEW offset \in Nat,
             \/ \E ok \in BOOLEAN : Acknowledge(g, offset, ok)
             \/ AcknowledgeFails(g, offset) \/ CrashAcknowledging(g, offset)
      PROVE  FALSE
  BY <1>0, <1>5 DEF Acknowledge, AcknowledgeFails, CrashAcknowledging
<1>6. ~Crash
  BY DEF Crash
<1> QED BY <1>1, <1>2, <1>3, <1>4, <1>5, <1>6, NextIsSteps

(* A process that does not end runs on. *)
LEMMA AwakeStays == ASSUME Crashes = FALSE, up, Next PROVE up'
<1>1. ASSUME NEW s \in Senders,
             \/ \E batch \in Batches : Send(s, batch)
             \/ AwaitRoom(s) \/ Retry(s) \/ NotifyArrived(s) \/ Cancel(s) \/ WriteFails(s)
      PROVE  up'
  BY <1>1 DEF Send, AwaitRoom, Retry, NotifyArrived, Cancel, WriteFails
<1>2. ASSUME NEW s \in Senders, \/ \E ok \in BOOLEAN : TakeBatch(s, ok)
                                \/ RollFails(s) \/ CrashWriting(s) \/ CrashReleasing(s)
      PROVE  up'
  BY <1>2 DEF TakeBatch, RollFails, CrashWriting, CrashReleasing, EndsReleasing
<1>3. ASSUME NEW g \in Groups, \/ \E asObserver \in BOOLEAN : Receiver(g, asObserver)
                               \/ Unsubscribe(g) \/ CrashUnsubscribing(g)
      PROVE  up'
  BY <1>3 DEF Receiver, Unsubscribe, CrashUnsubscribing, EndsReleasing
<1>4. ASSUME NEW g \in Groups,
             \/ Receive(g) \/ ReceiveFails(g) \/ Recheck(g) \/ TimeOut(g)
             \/ NotifyReleased(g) \/ TakeSkipped(g) \/ ReadFails(g)
             \/ Read(g) \/ \E max \in Nat : Locate(g, max)
      PROVE  up'
  BY <1>4 DEF Receive, ReceiveFails, Recheck, TimeOut, NotifyReleased, TakeSkipped, ReadFails,
              Read, Locate
<1>5. ASSUME NEW g \in Groups, NEW offset \in Nat,
             \/ \E ok \in BOOLEAN : Acknowledge(g, offset, ok)
             \/ AcknowledgeFails(g, offset) \/ CrashAcknowledging(g, offset)
      PROVE  up'
  BY <1>5 DEF Acknowledge, AcknowledgeFails, CrashAcknowledging, EndsReleasing
<1>6. ~Crash /\ ~Open
  BY DEF Crash, Open
<1> QED BY <1>1, <1>2, <1>3, <1>4, <1>5, <1>6, NextIsSteps

(* What the process could open is within the bound, where it never ends:   *)
(* there is one segment when it starts.                                    *)
Closed == ~up => files = <<>>

(* A directory is within the bound that DiskOptions::segment names as long *)
(* as no process ends with what it has to release: where none ends at all. *)
THEOREM DirectoryIsBoundedUntilACrash ==
    ASSUME Tolerated, Crashes = FALSE PROVE Spec => []Bounded
<1>1. Init => Closed /\ Bounded
  BY DEF Init, Closed, Bounded
<1>2. ASSUME IInv, IInv', Closed, Bounded, [Next]_vars PROVE Closed' /\ Bounded'
  <2>1. CASE UNCHANGED vars
    BY <1>2, <2>1 DEF vars, disk, index, Closed, Bounded
  <2>2. CASE ~up /\ Next
    <3>1. CASE Open
      <4>1. Scanned(files) = [base \in {0} |-> <<>>] /\ segments' = Indexed(Scanned(files)) /\ up'
        BY <1>2, <2>2, <3>1 DEF Closed, Open, Scanned
      <4> DEFINE segs == <<[base |-> 0, count |-> 0]>>
                 fs == [base \in {0} |-> <<>>]
      <4>2. Indexed(fs) = segs
        <5>1. segs \in Seq(Entries) /\ Len(segs) = 1 /\ segs[1] = [base |-> 0, count |-> 0]
          BY DEF Entries
        <5>2. EndOf(segs[1]) = 0 /\ segs[1].base = 0 /\ segs[1].count = 0
          BY <5>1 DEF EndOf
        <5> HIDE DEF segs
        <5>3. Chain(segs)
          BY <5>1 DEF Chain
        <5>4. Bases(segs) = {0}
          BY <5>1, <5>2 DEF Bases
        <5>5. fs \in [{0} -> Seq(Payloads)] /\ fs[0] = <<>> /\ Len(fs[0]) = 0
          OBVIOUS
        <5> HIDE DEF fs
        <5>6. Lists(segs, fs)
          BY <5>1, <5>2, <5>3, <5>4, <5>5 DEF Lists
        <5> QED BY <5>6, IndexedIs
      <4>3. segments' = segs
        BY <4>1, <4>2
      <4>4. Larger(Capacity, MaxBatch) \in Nat
        BY OptionsAssumption, BoundsAssumption DEF Larger
      <4> QED BY <4>1, <4>3, <4>4 DEF Closed, Bounded, EndOf, Last
    <3>2. CASE ~Open
      <4>1. files' = files /\ up' = up
        BY <1>2, <2>2, <3>2, AsleepStays
      <4> QED BY <1>2, <2>2, <4>1 DEF Closed, Bounded
    <3> QED BY <3>1, <3>2
  <2>3. CASE up /\ Next
    <3>1. up'
      BY <1>2, <2>3, AwakeStays
    <3>2. CASE Bounded'
      BY <3>1, <3>2 DEF Closed
    <3>3. CASE /\ EndOf(segments[1]) <= EndOf(segments'[1])
               /\ Last(segments').base = Last(segments).base
      <4>1. Last(segments).base <= EndOf(segments[1]) + Larger(Capacity, MaxBatch)
        BY <1>2, <2>3 DEF Bounded
      <4>2. Chain(segments) /\ Chain(segments')
        BY <1>2, <2>3, <3>1 DEF IInv, InIndex, Kept, Lists
      <4>3. /\ Last(segments).base \in Nat /\ EndOf(segments[1]) \in Nat
            /\ EndOf(segments'[1]) \in Nat
        <5>1. 1 \in 1..Len(segments) /\ 1 \in 1..Len(segments') /\ Last(segments).base \in Nat
          BY <4>2, Chained
        <5> QED BY <4>2, <5>1, Chained
      <4>4. Larger(Capacity, MaxBatch) \in Nat
        BY OptionsAssumption, BoundsAssumption DEF Larger
      <4> QED BY <3>1, <3>3, <4>1, <4>3, <4>4 DEF Closed, Bounded
    <3> QED BY <1>2, <2>3, <3>1, <3>2, <3>3, NextStaysBounded
  <2> QED BY <1>2, <2>1, <2>2, <2>3
<1>3. Closed /\ Bounded /\ IInv /\ IInv' /\ [Next]_vars => Closed' /\ Bounded'
  BY <1>2
<1> QED BY <1>1, <1>3, Invariant, PTL DEF Spec

(* What a group has acknowledged, it has received: a position on disk that *)
(* a crash or a failed write left behind never skips a record.             *)
THEOREM NothingIsSkipped == ASSUME Tolerated PROVE Spec => []AtLeastOnce
<1>1. IInv => AtLeastOnce
  BY DEF IInv, Caught, AtLeastOnce
<1> QED BY <1>1, Invariant, PTL

(* What was located under the lock is readable after it, where no group    *)
(* observes: an observer may lose what it is about to read.                *)
THEOREM LocatedStays ==
    ASSUME Tolerated, Observers = {} PROVE Spec => []LocatedIsReadable
<1>1. ASSUME IInv PROVE LocatedIsReadable
  <2> SUFFICES ASSUME NEW g \in groups, NEW i \in DOMAIN runs[g] PROVE Readable(runs[g][i])
    BY DEF LocatedIsReadable
  <2>1. PICK run : run = runs[g][i]
    OBVIOUS
  <2>2. InFile(run, next[g], files)
    BY <1>1, <2>1 DEF IInv, InFiles, Holding
  <2>3. /\ g \in Groups /\ up /\ runs[g] \in Seq(Runs)
    BY <1>1 DEF IInv, Types
  <2>4. run \in Runs
    BY <2>1, <2>3
  <2>5. files \in [Bases(segments) -> Seq(Payloads)]
    BY <1>1, <2>3 DEF IInv, InIndex, Kept, Lists
  <2>6. PICK all, skip, count : all = files[run.file] /\ skip = run.skip /\ count = run.count
    OBVIOUS
  <2>7. /\ run.file \in DOMAIN files /\ skip + count <= Len(all) /\ all \in Seq(Payloads)
        /\ skip \in Nat /\ count \in Nat
    BY <2>2, <2>4, <2>5, <2>6 DEF InFile, Runs
  <2>8. \A j \in (skip + 1)..(skip + count) : all[j] \in Payloads
    BY <2>7
  <2>9. Torn \notin Payloads
    BY FailuresAssumption
  <2> QED BY <2>1, <2>6, <2>7, <2>8, <2>9 DEF Readable
<1>2. IInv => LocatedIsReadable
  BY <1>1
<1> QED BY <1>2, Invariant, PTL
-----------------------------------------------------------------------------
(* Sums over a finite set, for the records that senders hold together.     *)

SumOf(w, S) == MapThenSumSet(LAMBDA x : w[x], S)

(* f adds the weights w over any part of S: as the sum is computed, an     *)
(* element that CHOOSE picks at a time, ...                                *)
One(s) == CHOOSE x \in s : TRUE
Adds(f, w, S) ==
    f = [s \in SUBSET S |-> IF s = {} THEN 0 ELSE w[One(s)] + f[s \ {One(s)}]]

(* ... and as a sum is used, any element first. *)
IsSum(f, w, S) ==
    /\ f \in [SUBSET S -> Nat]
    /\ f[{}] = 0
    /\ \A s \in SUBSET S : \A x \in s : f[s] = w[x] + f[s \ {x}]

(* The sum is what a function that adds so says of the whole set. *)
LEMMA SumIsChosen ==
    ASSUME NEW S, NEW w
    PROVE  SumOf(w, S) = (CHOOSE f : Adds(f, w, S))[S]
BY DEF SumOf, MapThenSumSet, MapThenFoldSet, Adds, One

(* There is one, for a finite set: if it adds parts of up to n elements, it *)
(* can be made to add parts of n + 1.                                      *)
LEMMA SumIsDefined ==
    ASSUME NEW S, IsFiniteSet(S), NEW w
    PROVE  \E f : Adds(f, w, S)
<1> DEFINE Value(f, s) == IF s = {} THEN 0 ELSE w[One(s)] + f[s \ {One(s)}]
           UpTo(n) == {s \in SUBSET S : Cardinality(s) <= n}
           Good(n) == \E f : \A s \in UpTo(n) : f[s] = Value(f, s)
           Bad == {n \in Nat : ~Good(n)}
<1>0. \A s \in SUBSET S : /\ IsFiniteSet(s) /\ Cardinality(s) \in Nat
                          /\ Cardinality(s) <= Cardinality(S)
                          /\ s # {} => One(s) \in s /\ Cardinality(s \ {One(s)}) = Cardinality(s) - 1
  BY FS_Subset, FS_CardinalityType, FS_RemoveElement DEF One
<1>1. Good(0)
  <2>1. \A s \in UpTo(0) : s = {}
    <3> SUFFICES ASSUME NEW s \in SUBSET S, Cardinality(s) <= 0 PROVE s = {}
      OBVIOUS
    <3>1. IsFiniteSet(s) /\ Cardinality(s) \in Nat
      BY <1>0
    <3>2. Cardinality(s) = 0
      BY <3>1
    <3> QED BY <3>1, <3>2, FS_EmptySet
  <2>2. \A s \in UpTo(0) : [t \in {{}} |-> 0][s] = 0
    BY <2>1
  <2> QED BY <2>1, <2>2
<1>2. ASSUME NEW n \in Nat, Good(n) PROVE Good(n + 1)
  <2>1. PICK f : \A s \in UpTo(n) : f[s] = Value(f, s)
    BY <1>2
  <2> DEFINE g == [s \in SUBSET S |-> IF Cardinality(s) <= n THEN f[s] ELSE Value(f, s)]
  <2>2. \A s \in SUBSET S : g[s] = Value(f, s) \/ s \in UpTo(n)
    OBVIOUS
  <2>3. \A s \in SUBSET S : g[s] = Value(f, s)
    BY <2>1, <2>2
  <2>4. \A s \in UpTo(n + 1) : s # {} => s \ {One(s)} \in UpTo(n)
    BY <1>0
  <2>5. \A s \in UpTo(n) : g[s] = f[s]
    OBVIOUS
  <2>6. \A s \in UpTo(n + 1) : Value(g, s) = Value(f, s)
    BY <2>4, <2>5
  <2>7. \A s \in UpTo(n + 1) : g[s] = Value(g, s)
    BY <2>3, <2>6
  <2> HIDE DEF g, UpTo, Value
  <2> QED BY <2>7
<1> HIDE DEF Good
<1>3. Bad = {}
  <2> SUFFICES ASSUME Bad # {} PROVE FALSE
    OBVIOUS
  <2>1. PICK m \in Bad : \A k \in Bad : m <= k
    BY LeastOf
  <2>2. m # 0 /\ m \in Nat
    BY <1>1
  <2>3. m - 1 \in Nat /\ m - 1 \notin Bad
    BY <2>1, <2>2
  <2>4. Good(m - 1)
    BY <2>3
  <2>5. Good((m - 1) + 1)
    BY <1>2, <2>3, <2>4
  <2> QED BY <2>2, <2>5
<1>4. PICK f : \A s \in UpTo(Cardinality(S)) : f[s] = Value(f, s)
  <2>1. Cardinality(S) \in Nat /\ Cardinality(S) \notin Bad
    BY <1>3, FS_CardinalityType
  <2>2. Good(Cardinality(S))
    BY <2>1
  <2> QED BY <2>2 DEF Good
<1>5. \A s \in SUBSET S : f[s] = Value(f, s)
  BY <1>0, <1>4
<1> DEFINE g == [s \in SUBSET S |-> f[s]]
<1>6. \A s \in SUBSET S : g[s] = Value(g, s)
  <2>1. \A s \in SUBSET S : g[s] = f[s] /\ (s # {} => g[s \ {One(s)}] = f[s \ {One(s)}])
    BY <1>0
  <2> QED BY <1>5, <2>1
<1>7. g = [s \in SUBSET S |-> Value(g, s)]
  BY <1>6
<1> QED BY <1>7 DEF Adds

(* It does not matter which element is taken first.  In a smallest part for *)
(* which it did, two are taken in either order.                            *)
LEMMA SumUnfolds ==
    ASSUME NEW S, IsFiniteSet(S), NEW w \in [S -> Nat], NEW f, Adds(f, w, S)
    PROVE  IsSum(f, w, S)
<1>0. \A s \in SUBSET S : /\ IsFiniteSet(s) /\ Cardinality(s) \in Nat
                          /\ s # {} => One(s) \in s
                          /\ \A x \in s : Cardinality(s \ {x}) = Cardinality(s) - 1
  BY FS_Subset, FS_CardinalityType, FS_RemoveElement DEF One
<1>1. \A s \in SUBSET S : f[s] = IF s = {} THEN 0 ELSE w[One(s)] + f[s \ {One(s)}]
  BY DEF Adds
<1>2. f[{}] = 0
  BY <1>1
<1> DEFINE Good(s) == f[s] \in Nat /\ \A x \in s : f[s] = w[x] + f[s \ {x}]
           Bad == {n \in Nat : \E s \in SUBSET S : Cardinality(s) = n /\ ~Good(s)}
<1>3. Bad = {}
  <2> SUFFICES ASSUME Bad # {} PROVE FALSE
    OBVIOUS
  <2> HIDE DEF Good
  <2>1. PICK n \in Bad : \A k \in Bad : n <= k
    BY LeastOf
  <2>2. PICK s \in SUBSET S : Cardinality(s) = n /\ ~Good(s)
    BY <2>1
  <2>3. \A t \in SUBSET S : Cardinality(t) < n => Good(t)
    BY <1>0, <2>1
  <2>4. s # {}
    BY <1>2, <2>2 DEF Good
  <2>5. \A x \in s : s \ {x} \in SUBSET S /\ Good(s \ {x}) /\ w[x] \in Nat
    BY <1>0, <2>2, <2>3
  <2>6. One(s) \in s /\ f[s] = w[One(s)] + f[s \ {One(s)}]
    BY <1>0, <1>1, <2>4
  <2>7. f[s] \in Nat
    <3>1. f[s \ {One(s)}] \in Nat /\ w[One(s)] \in Nat
      BY <2>5, <2>6 DEF Good
    <3> QED BY <2>6, <3>1
  <2>8. ASSUME NEW x \in s PROVE f[s] = w[x] + f[s \ {x}]
    <3> DEFINE y == One(s)
    <3>1. CASE x = y
      BY <2>6, <3>1
    <3>2. CASE x # y
      <4>1. y \in s \ {x} /\ x \in s \ {y} /\ (s \ {x}) \ {y} = (s \ {y}) \ {x}
        BY <2>6, <3>2
      <4>2. f[s \ {x}] = w[y] + f[(s \ {x}) \ {y}]
        BY <2>5, <4>1 DEF Good
      <4>3. f[s \ {y}] = w[x] + f[(s \ {y}) \ {x}]
        BY <2>5, <2>6, <4>1 DEF Good
      <4>4. Good((s \ {x}) \ {y})
        <5>1. Cardinality((s \ {x}) \ {y}) < n /\ (s \ {x}) \ {y} \in SUBSET S
          <6>1. Cardinality(s \ {x}) = n - 1 /\ Cardinality((s \ {x}) \ {y}) = Cardinality(s \ {x}) - 1
            BY <1>0, <2>2, <4>1
          <6> QED BY <1>0, <2>2, <6>1
        <5> QED BY <2>3, <5>1
      <4>5. f[(s \ {x}) \ {y}] \in Nat /\ w[x] \in Nat /\ w[y] \in Nat
        BY <2>5, <2>6, <4>1, <4>4 DEF Good
      <4> DEFINE rest == (s \ {x}) \ {y}
      <4>6. f[s \ {x}] = w[y] + f[rest] /\ f[s \ {y}] = w[x] + f[rest] /\ f[s] = w[y] + f[s \ {y}]
        BY <2>6, <4>1, <4>2, <4>3
      <4>7. f[rest] \in Nat /\ w[x] \in Nat /\ w[y] \in Nat
        BY <4>5
      <4> HIDE DEF rest, y
      <4> QED BY <4>6, <4>7
    <3> QED BY <3>1, <3>2
  <2> QED BY <2>2, <2>7, <2>8 DEF Good
<1>4. \A s \in SUBSET S : Good(s)
  BY <1>0, <1>3
<1>5. f = [s \in SUBSET S |-> IF s = {} THEN 0 ELSE w[One(s)] + f[s \ {One(s)}]]
  BY DEF Adds
<1>6. f \in [SUBSET S -> Nat]
  BY <1>4, <1>5
<1> QED BY <1>2, <1>4, <1>6 DEF IsSum

(* A sum over a set changes by what one element changes. *)
LEMMA SumChanges ==
    ASSUME NEW S, IsFiniteSet(S), NEW v \in [S -> Nat], NEW w \in [S -> Nat], NEW x \in S,
           \A y \in S \ {x} : v[y] = w[y]
    PROVE  /\ SumOf(v, S) \in Nat /\ SumOf(w, S) \in Nat
           /\ SumOf(v, S) - v[x] = SumOf(w, S) - w[x]
           /\ v[x] <= SumOf(v, S)
<1>1. PICK f : Adds(f, v, S) /\ SumOf(v, S) = f[S]
  BY SumIsChosen, SumIsDefined
<1>2. PICK g : Adds(g, w, S) /\ SumOf(w, S) = g[S]
  BY SumIsChosen, SumIsDefined
<1>3. IsSum(f, v, S)
  BY <1>1, SumUnfolds
<1>4. IsSum(g, w, S)
  BY <1>2, SumUnfolds
<1> DEFINE Bad == {n \in Nat : \E s \in SUBSET (S \ {x}) : Cardinality(s) = n /\ f[s] # g[s]}
<1>0. \A s \in SUBSET S : /\ IsFiniteSet(s) /\ Cardinality(s) \in Nat
                          /\ \A y \in s : Cardinality(s \ {y}) = Cardinality(s) - 1
  BY FS_Subset, FS_CardinalityType, FS_RemoveElement
<1>5. Bad = {}
  <2> SUFFICES ASSUME Bad # {} PROVE FALSE
    OBVIOUS
  <2>1. PICK n \in Bad : \A k \in Bad : n <= k
    BY LeastOf
  <2>2. PICK s \in SUBSET (S \ {x}) : Cardinality(s) = n /\ f[s] # g[s]
    BY <2>1
  <2>3. s # {}
    BY <1>3, <1>4, <2>2 DEF IsSum
  <2>4. PICK y \in s : TRUE
    BY <2>3
  <2>5. /\ s \ {y} \in SUBSET (S \ {x}) /\ Cardinality(s \ {y}) \in Nat
        /\ Cardinality(s \ {y}) < n
    BY <1>0, <2>2
  <2>6. f[s \ {y}] = g[s \ {y}]
    BY <2>1, <2>5
  <2>7. v[y] = w[y] /\ f[s] = v[y] + f[s \ {y}] /\ g[s] = w[y] + g[s \ {y}]
    BY <1>3, <1>4 DEF IsSum
  <2> QED BY <2>2, <2>6, <2>7
<1>6. S \ {x} \in SUBSET (S \ {x}) /\ Cardinality(S \ {x}) \in Nat
  BY <1>0
<1>7. f[S \ {x}] = g[S \ {x}]
  BY <1>5, <1>6
<1>8. f[S] = v[x] + f[S \ {x}] /\ g[S] = w[x] + g[S \ {x}]
  BY <1>3, <1>4 DEF IsSum
<1>9. f[S \ {x}] \in Nat /\ v[x] \in Nat /\ w[x] \in Nat
  BY <1>3 DEF IsSum
<1> QED BY <1>1, <1>2, <1>7, <1>8, <1>9

(* Nothing adds up to nothing. *)
LEMMA SumOfNothing ==
    ASSUME NEW S, IsFiniteSet(S)
    PROVE  SumOf([x \in S |-> 0], S) = 0
<1> DEFINE v == [x \in S |-> 0]
<1>1. v \in [S -> Nat] /\ \A x \in S : v[x] = 0
  OBVIOUS
<1> HIDE DEF v
<1>2. PICK f : Adds(f, v, S) /\ SumOf(v, S) = f[S]
  BY SumIsChosen, SumIsDefined
<1>3. IsSum(f, v, S)
  BY <1>1, <1>2, SumUnfolds
<1> DEFINE Bad == {n \in Nat : \E s \in SUBSET S : Cardinality(s) = n /\ f[s] # 0}
<1>4. \A s \in SUBSET S : /\ IsFiniteSet(s) /\ Cardinality(s) \in Nat
                          /\ \A y \in s : Cardinality(s \ {y}) = Cardinality(s) - 1
  BY FS_Subset, FS_CardinalityType, FS_RemoveElement
<1>5. Bad = {}
  <2> SUFFICES ASSUME Bad # {} PROVE FALSE
    OBVIOUS
  <2>1. PICK n \in Bad : \A k \in Bad : n <= k
    BY LeastOf
  <2>2. PICK s \in SUBSET S : Cardinality(s) = n /\ f[s] # 0
    BY <2>1
  <2>3. s # {}
    BY <1>3, <2>2 DEF IsSum
  <2>4. PICK y \in s : TRUE
    BY <2>3
  <2>5. s \ {y} \in SUBSET S /\ Cardinality(s \ {y}) \in Nat /\ Cardinality(s \ {y}) < n
    BY <1>4, <2>2
  <2>6. f[s \ {y}] = 0
    BY <2>1, <2>5
  <2>7. f[s] = v[y] + f[s \ {y}] /\ v[y] = 0
    BY <1>1, <1>3 DEF IsSum
  <2> QED BY <2>2, <2>6, <2>7
<1>6. Cardinality(S) \in Nat
  BY <1>4
<1>7. f[S] = 0
  BY <1>5, <1>6
<1> QED BY <1>2, <1>7 DEF v

-----------------------------------------------------------------------------
(* The promise.  What the refinement needs beyond the invariant: what       *)
(* senders hold fits the bound of the log (Room, Ready), positions and      *)
(* readers are in the log and the two positions of a group are one          *)
(* (InLog), which needs that no position is half written; a receiver that   *)
(* looks for records has returned nothing yet (Returns); the runs it has    *)
(* located follow one another from where it reads (Follow); and a group     *)
(* that may observe does so while it reads (Modes).                         *)
Room == Len(log) + Underway <= MaxLog

Ready == \A s \in Senders : spc[s] \in {"registered", "waiting"} => pending[s] \in Batches

InLog ==
    /\ \A g \in DOMAIN offsets : offsets[g] <= Len(log)
    /\ \A g \in Groups : next[g] <= Len(log)
    /\ \A g \in groups : position[g] = offsets[g]

Modes == \A g \in groups \intersect Observers : rpc[g] # "closed" => g \in observers

Returns ==
    /\ last = [g \in Groups |-> last[g]]
    /\ \A g \in Groups : rpc[g] \in {"registered", "waiting", "reading"} => last[g] = Nothing

Starts(run) == run.file + run.skip
Stops(run) == run.file + run.skip + run.count

Following(located, from) ==
    \A i \in DOMAIN located :
        Starts(located[i]) = IF i = 1 THEN from ELSE Stops(located[i - 1])

Follow == \A g \in Groups : Following(runs[g], next[g])

Reading == InLog /\ Modes /\ Returns /\ Follow
RInv == IInv /\ Room /\ Ready /\ Reading

(* What is underway is a sum over the senders. *)
LEMMA UnderwayIsASum ==
    /\ Underway = SumOf([s \in Senders |-> Len(pending[s])], Senders)
    /\ Underway' = SumOf([s \in Senders |-> Len(pending'[s])], Senders)
<1>1. Underway = SumOf([s \in Senders |-> Len(pending[s])], Senders)
  BY DEF Underway, SumOf, MapThenSumSet, MapThenFoldSet
<1>2. Underway' = SumOf([s \in Senders |-> Len(pending'[s])], Senders)
  BY DEF Underway, SumOf, MapThenSumSet, MapThenFoldSet
<1> QED BY <1>1, <1>2

(* Senders that hold nothing have nothing underway. *)
LEMMA NothingUnderway ==
    /\ (\A s \in Senders : pending[s] = <<>>) => Underway = 0
    /\ (\A s \in Senders : pending'[s] = <<>>) => Underway' = 0
<1> DEFINE none == [s \in Senders |-> 0]
<1>1. SumOf(none, Senders) = 0
  BY SumOfNothing, SendersAssumption
<1>2. ASSUME \A s \in Senders : pending[s] = <<>> PROVE Underway = 0
  <2>1. [s \in Senders |-> Len(pending[s])] = none
    BY <1>2
  <2> HIDE DEF none
  <2> QED BY <1>1, <2>1, UnderwayIsASum
<1>3. ASSUME \A s \in Senders : pending'[s] = <<>> PROVE Underway' = 0
  <2>1. [s \in Senders |-> Len(pending'[s])] = none
    BY <1>3
  <2> HIDE DEF none
  <2> QED BY <1>1, <2>1, UnderwayIsASum
<1> QED BY <1>2, <1>3

(* What one sender does to its batch changes what is underway by as much. *)
LEMMA UnderwayChanges ==
    ASSUME Types, Types', NEW s \in Senders, \A r \in Senders \ {s} : pending'[r] = pending[r]
    PROVE  /\ Underway \in Nat /\ Underway' \in Nat
           /\ Underway' - Len(pending'[s]) = Underway - Len(pending[s])
           /\ Len(pending[s]) <= Underway
<1> DEFINE v == [r \in Senders |-> Len(pending[r])]
           w == [r \in Senders |-> Len(pending'[r])]
<1>0. pending \in [Senders -> Seq(Payloads)] /\ pending' \in [Senders -> Seq(Payloads)]
  BY DEF Types
<1>1. v \in [Senders -> Nat] /\ w \in [Senders -> Nat] /\ \A r \in Senders \ {s} : v[r] = w[r]
  BY <1>0
<1>2. v[s] = Len(pending[s]) /\ w[s] = Len(pending'[s])
  OBVIOUS
<1>3. Underway = SumOf(v, Senders) /\ Underway' = SumOf(w, Senders)
  BY UnderwayIsASum
<1> HIDE DEF v, w
<1> QED BY <1>1, <1>2, <1>3, SumChanges, SendersAssumption

(* What one sender holds is a part of what is underway. *)
LEMMA UnderwayIsMore ==
    ASSUME Types, NEW s \in Senders
    PROVE  Underway \in Nat /\ Len(pending[s]) <= Underway
<1> DEFINE v == [r \in Senders |-> Len(pending[r])]
<1>0. pending \in [Senders -> Seq(Payloads)]
  BY DEF Types
<1>1. v \in [Senders -> Nat] /\ v[s] = Len(pending[s])
  BY <1>0
<1>2. Underway = SumOf(v, Senders)
  BY UnderwayIsASum
<1> HIDE DEF v
<1> QED BY <1>1, <1>2, SumChanges, SendersAssumption

(* A sender that is given a batch that fits leaves room for what it holds. *)
LEMMA GivingLeavesRoom ==
    ASSUME Types, Types', NEW s \in Senders, NEW batch \in Batches,
           Len(log) + Len(batch) + Underway <= MaxLog,
           pending' = [pending EXCEPT ![s] = batch], log' = log
    PROVE  Room'
<1>1. pending \in [Senders -> Seq(Payloads)] /\ pending' \in [Senders -> Seq(Payloads)]
      /\ log \in Seq(Payloads)
  BY DEF Types
<1>2. pending'[s] = batch /\ \A r \in Senders \ {s} : pending'[r] = pending[r]
  BY <1>1
<1>3. PICK u, v, n, p, l : /\ u = Underway /\ v = Underway' /\ n = Len(batch)
                           /\ p = Len(pending[s]) /\ l = Len(log)
  OBVIOUS
<1>4. batch \in Seq(Payloads) /\ pending[s] \in Seq(Payloads)
  BY <1>1, BatchIs
<1>5. u \in Nat /\ v \in Nat /\ v - n = u - p /\ n \in Nat /\ p \in Nat /\ l \in Nat
  BY <1>1, <1>2, <1>3, <1>4, UnderwayChanges
<1>6. l + n + u <= MaxLog /\ MaxLog \in Nat
  BY <1>3, BoundsAssumption
<1>7. l + v <= MaxLog
  BY ONLY <1>5, <1>6
<1> QED BY <1>3, <1>7 DEF Room

(* A sender that gives up its batch, or has a part of it in the log, leaves *)
(* room for the others.                                                     *)
LEMMA TakingLeavesRoom ==
    ASSUME Types, Types', Room, NEW s \in Senders,
           pending' = [pending EXCEPT ![s] = <<>>],
           Len(log') <= Len(log) + Len(pending[s])
    PROVE  Room'
<1>1. pending \in [Senders -> Seq(Payloads)] /\ pending' \in [Senders -> Seq(Payloads)]
      /\ log \in Seq(Payloads) /\ log' \in Seq(Payloads)
  BY DEF Types
<1>2. pending'[s] = <<>> /\ \A r \in Senders \ {s} : pending'[r] = pending[r]
  BY <1>1
<1>3. PICK u, v, p, l, m : /\ u = Underway /\ v = Underway'
                           /\ p = Len(pending[s]) /\ l = Len(log) /\ m = Len(log')
  OBVIOUS
<1>4. pending[s] \in Seq(Payloads) /\ Len(<<>>) = 0
  BY <1>1
<1>5. u \in Nat /\ v \in Nat /\ v - 0 = u - p
  <2>1. /\ Underway \in Nat /\ Underway' \in Nat
        /\ Underway' - Len(pending'[s]) = Underway - Len(pending[s])
    BY <1>2, UnderwayChanges
  <2> QED BY <1>2, <1>3, <1>4, <2>1
<1>6. p \in Nat /\ l \in Nat /\ m \in Nat
  BY <1>1, <1>3, <1>4
<1>7. l + u <= MaxLog /\ m <= l + p /\ MaxLog \in Nat
  BY <1>3, BoundsAssumption DEF Room
<1>8. m + v <= MaxLog
  BY ONLY <1>5, <1>6, <1>7
<1> QED BY <1>3, <1>8 DEF Room

(* Where nothing is sent there is room. *)
LEMMA StayingLeavesRoom ==
    ASSUME Room, pending' = pending, log' = log
    PROVE  Room'
<1>1. Underway' = Underway
  BY UnderwayIsASum
<1> QED BY <1>1 DEF Room

(* The log itself is within its bound. *)
LEMMA LogFits == ASSUME Types, Room PROVE Len(log) <= MaxLog
<1>0. Len(log) \in Nat
  BY DEF Types
<1>1. CASE Senders = {}
  <2>1. Underway = 0
    BY <1>1, NothingUnderway
  <2> QED BY <1>0, <2>1, BoundsAssumption DEF Room
<1>2. CASE Senders # {}
  <2>1. Underway \in Nat
    BY <1>2, UnderwayIsMore
  <2> QED BY <1>0, <2>1, BoundsAssumption DEF Room
<1> QED BY <1>1, <1>2

(* A sequence of records is a batch if it is short enough. *)
LEMMA IsBatch ==
    ASSUME NEW batch \in Seq(Payloads), Len(batch) > 0, Len(batch) <= MaxBatch
    PROVE  batch \in Batches
<1>1. Len(batch) \in 1..MaxBatch /\ batch \in [1..Len(batch) -> Payloads]
  BY BoundsAssumption
<1> QED BY <1>1 DEF Batches

(* What opening finds of a batch is no longer than the batch. *)
LEMMA CutOffIsShorter ==
    ASSUME NEW batch \in Seq(Payloads), NEW part \in CutOff(batch)
    PROVE  Len(Whole(part)) <= Len(batch) /\ Whole(part) \in Seq(Payloads)
<1>0. Torn \notin Payloads
  BY FailuresAssumption
<1>1. ASSUME NEW n \in 0..Len(batch)
      PROVE  /\ SubSeq(batch, 1, n) \in Seq(Payloads) /\ Len(SubSeq(batch, 1, n)) = n
             /\ Whole(SubSeq(batch, 1, n)) = SubSeq(batch, 1, n)
             /\ Whole(Append(SubSeq(batch, 1, n), Torn)) = SubSeq(batch, 1, n)
  <2>1. SubSeq(batch, 1, n) \in Seq(Payloads) /\ Len(SubSeq(batch, 1, n)) = n
    OBVIOUS
  <2> QED BY <1>0, <2>1, WholeIsAll, WholeLeavesTorn
<1>2. CASE \E n \in 0..Len(batch) : part = SubSeq(batch, 1, n)
  <2>1. PICK n \in 0..Len(batch) : part = SubSeq(batch, 1, n)
    BY <1>2
  <2>2. Whole(part) = part /\ part \in Seq(Payloads) /\ Len(part) = n
    BY <1>1, <2>1
  <2> QED BY <2>2
<1>3. CASE \E n \in 0..(Len(batch) - 1) : part = SubSeq(batch, 1, n) \o <<Torn>>
  <2>1. PICK n \in 0..(Len(batch) - 1) : part = SubSeq(batch, 1, n) \o <<Torn>>
    BY <1>3
  <2>2. n \in 0..Len(batch)
    OBVIOUS
  <2>3. PICK whole \in Seq(Payloads) : whole = SubSeq(batch, 1, n) /\ Len(whole) = n
    BY <1>1, <2>2
  <2>4. part = Append(whole, Torn)
    BY <2>1, <2>3
  <2>5. Whole(part) = whole
    BY <1>1, <2>2, <2>3, <2>4
  <2> QED BY <2>2, <2>3, <2>5
<1> QED BY <1>2, <1>3 DEF CutOff

-----------------------------------------------------------------------------
(* Steps that leave receivers and positions as they are: those of senders.  *)
LEMMA SenderKeepsReading ==
    ASSUME Reading, offsets' = offsets, positions' = positions,
           rpc' = rpc, next' = next, last' = last, runs' = runs,
           Len(log) \in Nat, Len(log') \in Nat, Len(log) <= Len(log'),
           Types
    PROVE  Reading'
<1>0. groups' = groups /\ position' = position /\ observers' = observers
  BY DEF positions
<1>1. PICK l \in Nat, m \in Nat : l = Len(log) /\ m = Len(log') /\ l <= m
  OBVIOUS
<1>2. InLog'
  <2>1. ASSUME NEW g \in DOMAIN offsets PROVE offsets[g] <= m
    <3>1. offsets[g] \in Nat /\ offsets[g] <= l
      BY <1>1 DEF Types, Reading, InLog
    <3> QED BY <1>1, <3>1
  <2>2. ASSUME NEW g \in Groups PROVE next[g] <= m
    <3>1. next[g] \in Nat /\ next[g] <= l
      BY <1>1 DEF Types, Reading, InLog
    <3> QED BY <1>1, <3>1
  <2> QED BY <1>0, <1>1, <2>1, <2>2 DEF Reading, InLog
<1>3. Modes' /\ Returns' /\ Follow'
  BY <1>0 DEF Reading, Modes, Returns, Follow, Nothing
<1> QED BY <1>2, <1>3 DEF Reading

(* A batch that is given, taken, given up or waited with. *)
LEMMA SenderStepsKeep ==
    ASSUME RInv, Types', NEW s \in Senders,
           \/ \E batch \in Batches : Send(s, batch)
           \/ AwaitRoom(s) \/ Retry(s) \/ NotifyArrived(s) \/ Cancel(s) \/ WriteFails(s)
           \/ \E ok \in BOOLEAN : TakeBatch(s, ok)
           \/ RollFails(s)
    PROVE  Room' /\ Ready' /\ Reading'
<1>0. /\ Types /\ Room /\ Ready /\ Reading /\ pending \in [Senders -> Seq(Payloads)]
      /\ spc \in [Senders -> SenderStates]
      /\ log \in Seq(Payloads) /\ log' \in Seq(Payloads) /\ Len(log) \in Nat /\ Len(log') \in Nat
  <2>1. Types /\ Room /\ Ready /\ Reading
    BY DEF RInv, IInv
  <2>2. log \in Seq(Payloads) /\ log' \in Seq(Payloads)
    BY <2>1 DEF Types
  <2>3. pending \in [Senders -> Seq(Payloads)] /\ spc \in [Senders -> SenderStates]
    BY <2>1 DEF Types
  <2> QED BY <2>1, <2>2, <2>3
<1>1. pending[s] \in Seq(Payloads) /\ Len(pending[s]) \in Nat
  BY <1>0
<1>2. offsets' = offsets /\ positions' = positions /\ rpc' = rpc /\ next' = next /\ last' = last
      /\ runs' = runs
  BY DEF Send, AwaitRoom, Retry, NotifyArrived, Cancel, WriteFails, TakeBatch, RollFails,
         disk, receivers
<1>3. log' = log \/ log' = log \o pending[s]
  BY DEF Send, AwaitRoom, Retry, NotifyArrived, Cancel, WriteFails, TakeBatch, RollFails, history
<1>4. Len(log) <= Len(log') /\ Len(log') <= Len(log) + Len(pending[s])
  BY <1>0, <1>1, <1>3
<1>5. Reading'
  BY <1>0, <1>2, <1>4, SenderKeepsReading
<1>6. CASE \E batch \in Batches : Send(s, batch)
  <2>1. PICK batch \in Batches : Send(s, batch)
    BY <1>6
  <2>2. /\ Len(log) + Len(batch) + Underway <= MaxLog
        /\ spc' = [spc EXCEPT ![s] = "registered"] /\ pending' = [pending EXCEPT ![s] = batch]
        /\ log' = log
    BY <2>1 DEF Send, history
  <2>3. Room'
    BY <1>0, <2>2, GivingLeavesRoom
  <2>4. Ready'
    BY <1>0, <2>2 DEF Ready
  <2> QED BY <1>5, <2>3, <2>4
<1>7. CASE AwaitRoom(s) \/ Retry(s) \/ NotifyArrived(s)
  <2>1. log' = log /\ pending' = pending
    BY <1>7 DEF AwaitRoom, Retry, NotifyArrived, history
  <2>2. Ready'
    BY <1>0, <1>7, <2>1 DEF AwaitRoom, Retry, NotifyArrived, Ready
  <2> QED BY <1>0, <1>5, <2>1, <2>2, StayingLeavesRoom
<1>8. CASE Cancel(s) \/ WriteFails(s) \/ RollFails(s) \/ \E ok \in BOOLEAN : TakeBatch(s, ok)
  <2>1. pending' = [pending EXCEPT ![s] = <<>>]
    BY <1>8 DEF Cancel, WriteFails, RollFails, TakeBatch
  <2>2. PICK to : spc' = [spc EXCEPT ![s] = to] /\ to \notin {"registered", "waiting"}
    <3>1. spc' = [spc EXCEPT ![s] = "idle"] \/ spc' = [spc EXCEPT ![s] = "appended"]
      BY <1>8 DEF Cancel, WriteFails, RollFails, TakeBatch
    <3> QED BY <3>1
  <2>3. Room'
    BY <1>0, <1>4, <2>1, TakingLeavesRoom
  <2>4. Ready'
    BY <1>0, <2>1, <2>2 DEF Ready
  <2> QED BY <1>5, <2>3, <2>4
<1> QED BY <1>6, <1>7, <1>8

(* The process ends, perhaps with a part of a batch in its files, and with  *)
(* the positions of before or one that was asked for.                       *)
KeepsOffsets ==
    \A g \in DOMAIN offsets' : \/ g \in DOMAIN offsets /\ offsets'[g] = offsets[g]
                               \/ g \in Groups /\ offsets'[g] <= next[g]

LEMMA LostKeepsPlaces ==
    ASSUME RInv, Types', Lost,
           KeepsOffsets,
           \/ log' = log
           \/ \E s \in Senders : Len(log) <= Len(log') /\ Len(log') <= Len(log) + Len(pending[s])
    PROVE  Room' /\ Ready' /\ Reading'
<1>0. /\ Types /\ Room /\ Reading
      /\ log \in Seq(Payloads) /\ log' \in Seq(Payloads) /\ Len(log) \in Nat /\ Len(log') \in Nat
  <2>1. Types /\ Room /\ Reading
    BY DEF RInv, IInv
  <2>2. log \in Seq(Payloads) /\ log' \in Seq(Payloads)
    BY <2>1 DEF Types
  <2> QED BY <2>1, <2>2
<1>1. /\ groups' = {}
      /\ spc' = [s \in Senders |-> "idle"] /\ pending' = [s \in Senders |-> <<>>]
      /\ rpc' = [g \in Groups |-> "closed"] /\ next' = [g \in Groups |-> 0]
      /\ runs' = [g \in Groups |-> <<>>] /\ last' = [g \in Groups |-> Nothing]
  BY DEF Lost
<1>2. PICK l \in Nat, m \in Nat, u \in Nat : l = Len(log) /\ m = Len(log') /\ l <= m
                                             /\ m <= l + u /\ l + u <= MaxLog
  <2>1. CASE log' = log
    <3>1. Len(log) <= MaxLog
      BY <1>0, LogFits
    <3>2. PICK l \in Nat : l = Len(log) /\ l <= MaxLog
      BY <1>0, <3>1
    <3>3. l <= l /\ l <= l + 0 /\ l + 0 <= MaxLog /\ 0 \in Nat
      BY <3>2, BoundsAssumption
    <3> QED BY <2>1, <3>2, <3>3
  <2>2. ASSUME NEW s \in Senders, Len(log) <= Len(log'), Len(log') <= Len(log) + Len(pending[s])
        PROVE  \E l \in Nat, m \in Nat, u \in Nat :
                  l = Len(log) /\ m = Len(log') /\ l <= m /\ m <= l + u /\ l + u <= MaxLog
    <3>1. Underway \in Nat /\ Len(pending[s]) <= Underway /\ pending[s] \in Seq(Payloads)
      BY <1>0, UnderwayIsMore DEF Types
    <3>2. PICK l, m, p, u : /\ l = Len(log) /\ m = Len(log') /\ p = Len(pending[s])
                            /\ u = Underway
      OBVIOUS
    <3>3. l \in Nat /\ m \in Nat /\ p \in Nat /\ u \in Nat /\ p <= u /\ l <= m /\ m <= l + p
          /\ l + u <= MaxLog
      BY <1>0, <2>2, <3>1, <3>2 DEF Room
    <3>4. m <= l + u
      BY ONLY <3>3
    <3> QED BY <3>2, <3>3, <3>4
  <2> QED BY <2>1, <2>2
<1>3. Room'
  <2>1. Underway' = 0
    BY <1>1, NothingUnderway
  <2>2. m + 0 <= MaxLog
    BY <1>2, BoundsAssumption
  <2> QED BY <1>2, <2>1, <2>2 DEF Room
<1>4. Ready'
  BY <1>1 DEF Ready
<1>5. InLog'
  <2>1. ASSUME NEW g \in DOMAIN offsets' PROVE offsets'[g] <= m
    <3>0. /\ offsets'[g] \in Nat
          /\ \/ g \in DOMAIN offsets /\ offsets'[g] = offsets[g]
             \/ g \in Groups /\ offsets'[g] <= next[g]
      BY <2>1 DEF Types, KeepsOffsets
    <3>1. CASE g \in DOMAIN offsets /\ offsets'[g] = offsets[g]
      <4>1. offsets[g] <= l
        BY <1>0, <1>2, <3>1 DEF Reading, InLog
      <4> QED BY <1>2, <3>0, <3>1, <4>1
    <3>2. CASE g \in Groups /\ offsets'[g] <= next[g]
      <4>1. next[g] \in Nat /\ next[g] <= l
        BY <1>0, <1>2, <3>2 DEF Types, Reading, InLog
      <4>2. PICK n \in Nat : n = next[g]
        BY <4>1
      <4> QED BY <1>2, <3>0, <3>2, <4>1, <4>2
    <3> QED BY <3>0, <3>1, <3>2
  <2>2. 0 <= m
    BY <1>2
  <2> QED BY <1>1, <1>2, <2>1, <2>2 DEF InLog
<1>6. Modes' /\ Returns'
  BY <1>1 DEF Modes, Returns
<1>7. Follow'
  <2>1. \A from : Following(<<>>, from)
    BY DEF Following
  <2> QED BY <1>1, <2>1 DEF Follow
<1> QED BY <1>3, <1>4, <1>5, <1>6, <1>7 DEF Reading

-----------------------------------------------------------------------------
(* Nothing of a set is before the first of its numbers in order, or between *)
(* one and the next.                                                        *)
LEMMA NothingBetween ==
    ASSUME NEW S \in SUBSET Nat, IsFiniteSet(S), NEW i \in 1..Cardinality(S)
    PROVE  /\ InOrder(S)[i] \in S
           /\ i = 1 => \A m \in S : InOrder(S)[i] <= m
           /\ i > 1 => /\ InOrder(S)[i - 1] \in S /\ InOrder(S)[i - 1] < InOrder(S)[i]
                       /\ \A m \in S : m <= InOrder(S)[i - 1] \/ InOrder(S)[i] <= m
<1>1. Cardinality(S) \in Nat
  BY FS_CardinalityType
<1>2. \A j \in 1..Cardinality(S) : InOrder(S)[j] \in S /\ Place(S, InOrder(S)[j]) = j - 1
  BY InOrderIs
<1>3. PICK q \in S : q = InOrder(S)[i] /\ Place(S, q) = i - 1
  BY <1>2
<1>4. \A m \in S : Place(S, m) \in Int /\ Place(S, m) >= 0
  BY <1>1, PlaceIs
<1>5. ASSUME i = 1, NEW m \in S PROVE q <= m
  <2>1. ASSUME m < q PROVE FALSE
    <3>1. Place(S, m) < Place(S, q)
      BY <2>1, PlaceGrows
    <3> QED BY <1>3, <1>4, <1>5, <3>1
  <2> QED BY <2>1
<1>6. ASSUME i > 1
      PROVE  \E p \in S : /\ p = InOrder(S)[i - 1] /\ p < q
                          /\ \A m \in S : m <= p \/ q <= m
  <2>1. i - 1 \in 1..Cardinality(S)
    BY <1>1, <1>6
  <2>2. PICK p \in S : p = InOrder(S)[i - 1] /\ Place(S, p) = (i - 1) - 1
    BY <1>2, <2>1
  <2>3. p < q
    <3>1. ASSUME q < p PROVE FALSE
      <4>1. Place(S, q) < Place(S, p)
        BY <3>1, PlaceGrows
      <4> QED BY <1>3, <2>2, <4>1
    <3>2. p # q
      BY <1>3, <2>2
    <3> QED BY <3>1, <3>2
  <2>4. ASSUME NEW m \in S, p < m, m < q PROVE FALSE
    <3>1. Place(S, p) < Place(S, m) /\ Place(S, m) < Place(S, q)
      BY <2>4, PlaceGrows
    <3> QED BY <1>3, <1>4, <2>2, <3>1
  <2> QED BY <2>2, <2>3, <2>4
<1> QED BY <1>3, <1>5, <1>6

(* What is located follows from the record asked for: no segment between    *)
(* two that hold something is left out.                                     *)
LEMMA LocatedFollows ==
    ASSUME Chain(segments), NEW from \in Nat, Base(segments) <= from, from < End(segments),
           NEW max \in Nat
    PROVE  Following(Located(from, max), from)
<1> DEFINE first(segment) == Larger(from, segment.base)
           end(segment) == Smaller(EndOf(segment), from + max)
           Some == {i \in DOMAIN segments : first(segments[i]) < end(segments[i])}
           holding == InOrder(Some)
           run(segment) == [file |-> segment.base, skip |-> first(segment) - segment.base,
                            count |-> end(segment) - first(segment)]
<1>1. PICK len \in Nat : len = Len(segments) /\ DOMAIN segments = 1..len /\ len > 0
  <2>1. segments \in Seq(Entries) /\ Len(segments) > 0
    BY DEF Chain
  <2> QED BY <2>1
<1>2. Located(from, max) = [i \in DOMAIN holding |-> run(segments[holding[i]])]
  BY DEF Located
<1>3. \A j : j \in Some <=> j \in 1..len /\ first(segments[j]) < end(segments[j])
  BY <1>1
<1>4. Some \in SUBSET Nat /\ IsFiniteSet(Some)
  <2>1. Some \in SUBSET (1..len)
    BY <1>1
  <2>2. IsFiniteSet(1..len)
    BY <1>1, FS_Interval
  <2> HIDE DEF Some
  <2>3. Some \in SUBSET Nat
    BY <1>1, <2>1
  <2> QED BY <2>1, <2>2, <2>3, FS_Subset
<1> HIDE DEF Some
<1>5. DOMAIN holding = 1..Cardinality(Some) /\ Cardinality(Some) \in Nat
  <2>1. InOrder(Some) \in Seq(Some) /\ Len(InOrder(Some)) = Cardinality(Some)
    BY <1>4, InOrderIs
  <2> QED BY <1>4, <2>1, FS_CardinalityType
<1>6. \A j \in 1..len : /\ segments[j].base \in Nat /\ EndOf(segments[j]) \in Nat
                        /\ segments[j].base <= EndOf(segments[j])
  BY <1>1, Chained
<1>7. \A j \in 1..(len - 1) : /\ segments[j + 1].base = EndOf(segments[j])
                              /\ segments[j].base < EndOf(segments[j])
  <2> SUFFICES ASSUME NEW j \in 1..(len - 1)
               PROVE  /\ segments[j + 1].base = EndOf(segments[j])
                      /\ segments[j].base < EndOf(segments[j])
    OBVIOUS
  <2>1. segments[j].count > 0 /\ segments[j + 1].base = EndOf(segments[j])
    BY <1>1 DEF Chain
  <2>2. j \in 1..len
    BY <1>1
  <2>3. /\ EndOf(segments[j]) = segments[j].base + segments[j].count
        /\ segments[j].base \in Nat /\ segments[j].count \in Nat
    BY <1>1, <2>2, Chained
  <2> QED BY <2>1, <2>3
<1>8. \A i, j \in 1..len : i < j => /\ EndOf(segments[i]) <= segments[j].base
                                    /\ segments[i].base < segments[j].base
  BY <1>1 DEF Chain
(* A segment of which something is asked. *)
<1>9. ASSUME NEW j \in Some
      PROVE  \E b, e \in Nat : /\ j \in 1..len /\ b = segments[j].base /\ e = EndOf(segments[j])
                               /\ from < e /\ b < from + max /\ b < e
                               /\ Starts(run(segments[j])) = Larger(from, b)
                               /\ Stops(run(segments[j])) = Smaller(e, from + max)
  <2>1. j \in 1..len /\ first(segments[j]) < end(segments[j])
    BY <1>3
  <2>2. PICK b, e, f, t : /\ b = segments[j].base /\ e = EndOf(segments[j])
                          /\ f = first(segments[j]) /\ t = end(segments[j])
                          /\ b \in Nat /\ e \in Nat
    BY <1>6, <2>1
  <2>3. f = Larger(from, b) /\ t = Smaller(e, from + max) /\ f < t
    BY <2>1, <2>2
  <2>4. f = (IF from > b THEN from ELSE b) /\ t = (IF e < from + max THEN e ELSE from + max)
    BY <2>3 DEF Larger, Smaller
  <2>5. f \in Nat /\ t \in Nat /\ from < e /\ b < from + max /\ b < e
    <3>1. b \in Nat /\ e \in Nat /\ from \in Nat /\ max \in Nat
      BY <2>2
    <3> QED BY ONLY <2>3, <2>4, <3>1
  <2>6. run(segments[j]) = [file |-> b, skip |-> f - b, count |-> t - f]
    BY <2>2
  <2>7. Starts(run(segments[j])) = b + (f - b) /\ Stops(run(segments[j])) = b + (f - b) + (t - f)
    <3>1. PICK r : r = run(segments[j])
      OBVIOUS
    <3>2. r = [file |-> b, skip |-> f - b, count |-> t - f]
      BY <2>6, <3>1
    <3>3. r.file = b /\ r.skip = f - b /\ r.count = t - f
      BY ONLY <3>2
    <3> QED BY ONLY <3>1, <3>3 DEF Starts, Stops
  <2>8. b + (f - b) = f /\ b + (f - b) + (t - f) = t
    BY <2>2, <2>5
  <2> HIDE DEF run
  <2> QED BY <2>1, <2>2, <2>3, <2>5, <2>7, <2>8
(* Something is asked of every segment that reaches into what is asked.     *)
<1>10. ASSUME NEW j \in 1..len, NEW b \in Nat, NEW e \in Nat, b = segments[j].base,
              e = EndOf(segments[j]), from < e, b < e, b < from + max, max > 0
       PROVE  j \in Some
  <2>1. Larger(from, b) < Smaller(e, from + max)
    BY <1>10 DEF Larger, Smaller
  <2> QED BY <1>3, <1>10, <2>1
<1> HIDE DEF holding, run
<1>11. ASSUME NEW i \in 1..Cardinality(Some), i = 1
       PROVE  Starts(run(segments[holding[i]])) = from
  <2>1. PICK q \in Some : q = holding[i] /\ \A m \in Some : q <= m
    <3>1. InOrder(Some)[i] \in Some /\ \A m \in Some : InOrder(Some)[i] <= m
      BY <1>4, <1>11, NothingBetween
    <3> QED BY <3>1 DEF holding
  <2>2. PICK b, e \in Nat : /\ q \in 1..len /\ b = segments[q].base /\ e = EndOf(segments[q])
                            /\ from < e /\ b < from + max /\ b < e
                            /\ Starts(run(segments[q])) = Larger(from, b)
    BY <1>9
  <2>3. b <= from
    <3>1. CASE q = 1
      BY <2>2, <3>1 DEF Base
    <3>2. CASE q # 1
      <4>1. q - 1 \in 1..(len - 1) /\ q - 1 \in 1..len /\ q = (q - 1) + 1 /\ q \in Nat
        BY <2>2, <3>2
      <4>2. PICK p \in 1..(len - 1) : p = q - 1 /\ p \in 1..len /\ q = p + 1
        BY <4>1
      <4>5. PICK c \in Nat : c = segments[p].base /\ EndOf(segments[p]) = b /\ c < b
        BY <1>6, <1>7, <2>2, <4>2
      <4>3. max > 0 \/ b <= from
        BY <2>2
      <4>4. ASSUME from < b PROVE FALSE
        <5>1. max > 0 /\ c < from + max
          BY <2>2, <4>3, <4>4, <4>5
        <5>2. p \in Some
          BY <1>10, <2>2, <4>2, <4>4, <4>5, <5>1
        <5> QED BY <2>1, <4>1, <4>2, <5>2
      <4> QED BY <4>4
    <3> QED BY <3>1, <3>2
  <2> QED BY <2>1, <2>2, <2>3 DEF Larger
<1>12. ASSUME NEW i \in 1..Cardinality(Some), i # 1
       PROVE  Starts(run(segments[holding[i]])) = Stops(run(segments[holding[i - 1]]))
  <2>1. PICK p \in Some, q \in Some : /\ p = holding[i - 1] /\ q = holding[i] /\ p < q
                                      /\ \A m \in Some : m <= p \/ q <= m
    <3>1. i > 1 /\ i \in 1..Cardinality(Some)
      BY <1>5, <1>12
    <3>2. /\ InOrder(Some)[i] \in Some /\ InOrder(Some)[i - 1] \in Some
          /\ InOrder(Some)[i - 1] < InOrder(Some)[i]
          /\ \A m \in Some : m <= InOrder(Some)[i - 1] \/ InOrder(Some)[i] <= m
      BY ONLY <1>4, <3>1, NothingBetween
    <3> QED BY <3>2 DEF holding
  <2>2. PICK b, e \in Nat : /\ p \in 1..len /\ b = segments[p].base /\ e = EndOf(segments[p])
                            /\ from < e /\ b < from + max /\ b < e
                            /\ Stops(run(segments[p])) = Smaller(e, from + max)
    BY <1>9
  <2>3. PICK c, d \in Nat : /\ q \in 1..len /\ c = segments[q].base /\ d = EndOf(segments[q])
                            /\ from < d /\ c < from + max /\ c < d
                            /\ Starts(run(segments[q])) = Larger(from, c)
    BY <1>9
  <2>4. e <= c
    BY <1>8, <2>1, <2>2, <2>3
  <2>5. q = p + 1
    <3>1. ASSUME q # p + 1 PROVE FALSE
      <4>1. p + 1 \in 1..(len - 1) /\ p + 1 \in 1..len /\ p < p + 1 /\ p + 1 < q
        BY <2>1, <2>2, <2>3, <3>1
      <4>2. PICK x \in Nat, y \in Nat : x = segments[p + 1].base /\ y = EndOf(segments[p + 1]) /\ x < y
        BY <1>6, <1>7, <4>1
      <4>3. e <= x /\ x < c
        BY <1>8, <2>2, <2>3, <4>1, <4>2
      <4>4. from < y /\ x < from + max /\ max > 0
        BY <2>2, <2>3, <4>2, <4>3
      <4>5. p + 1 \in Some
        BY <1>10, <4>1, <4>2, <4>4
      <4>6. p + 1 <= p \/ q <= p + 1
        BY <2>1, <4>5
      <4>7. p \in Nat /\ q \in Nat
        BY <2>2, <2>3
      <4> QED BY ONLY <4>1, <4>6, <4>7
    <3> QED BY <3>1
  <2>6. e = c
    BY <1>7, <2>2, <2>3, <2>5
  <2>7. Larger(from, c) = c /\ Smaller(e, from + max) = e
    BY <2>2, <2>3, <2>6 DEF Larger, Smaller
  <2> QED BY <2>1, <2>2, <2>3, <2>6, <2>7
<1> DEFINE found == [i \in DOMAIN holding |-> run(segments[holding[i]])]
<1>13. \A i \in DOMAIN holding : i # 1 => i - 1 \in DOMAIN holding
  BY <1>5
<1>14. \A i \in DOMAIN found : Starts(found[i]) = IF i = 1 THEN from ELSE Stops(found[i - 1])
  BY <1>5, <1>11, <1>12, <1>13
<1> QED BY <1>2, <1>14 DEF Following

-----------------------------------------------------------------------------
(* A part of a sequence. *)
LEMMA PartIs ==
    ASSUME NEW S, NEW l \in Seq(S), NEW a \in Nat, NEW b \in Nat, a <= b, b <= Len(l)
    PROVE  /\ SubSeq(l, a + 1, b) \in Seq(S) /\ Len(SubSeq(l, a + 1, b)) = b - a
           /\ \A i \in 1..(b - a) : SubSeq(l, a + 1, b)[i] = l[a + i]
BY SMT

(* Parts of a sequence that follow one another are a part of it. *)
LEMMA PartsJoin ==
    ASSUME NEW S, NEW l \in Seq(S), NEW a \in Nat, NEW b \in Nat, NEW c \in Nat,
           a <= b, b <= c, c <= Len(l)
    PROVE  SubSeq(l, a + 1, b) \o SubSeq(l, b + 1, c) = SubSeq(l, a + 1, c)
<1> DEFINE p == SubSeq(l, a + 1, b)
           q == SubSeq(l, b + 1, c)
           r == SubSeq(l, a + 1, c)
<1>0. b <= Len(l) /\ a <= c
  OBVIOUS
<1>1. /\ p \in Seq(S) /\ Len(p) = b - a /\ \A i \in 1..(b - a) : p[i] = l[a + i]
  BY <1>0, PartIs
<1>2. /\ q \in Seq(S) /\ Len(q) = c - b /\ \A i \in 1..(c - b) : q[i] = l[b + i]
  BY PartIs
<1>3. /\ r \in Seq(S) /\ Len(r) = c - a /\ \A i \in 1..(c - a) : r[i] = l[a + i]
  BY <1>0, PartIs
<1> HIDE DEF p, q, r
<1>4. /\ p \o q \in Seq(S) /\ Len(p \o q) = Len(p) + Len(q)
      /\ \A i \in 1..(Len(p) + Len(q)) :
            (p \o q)[i] = IF i <= Len(p) THEN p[i] ELSE q[i - Len(p)]
  BY <1>1, <1>2, ConcatProperties
<1>5. Len(p \o q) = c - a
  BY <1>1, <1>2, <1>4
<1>6. ASSUME NEW i \in 1..(c - a) PROVE (p \o q)[i] = r[i]
  <2>1. CASE i <= b - a
    <3>1. i \in 1..(b - a) /\ i \in 1..(Len(p) + Len(q)) /\ i <= Len(p)
      BY <1>1, <1>2, <2>1
    <3> QED BY <1>1, <1>3, <1>4, <3>1
  <2>2. CASE ~(i <= b - a)
    <3>1. PICK j \in 1..(c - b) : j = i - (b - a) /\ b + j = a + i
      BY <2>2
    <3>2. i \in 1..(Len(p) + Len(q)) /\ ~(i <= Len(p)) /\ j = i - Len(p)
      BY <1>1, <1>2, <2>2, <3>1
    <3>3. (p \o q)[i] = q[j]
      BY <1>4, <3>2
    <3> QED BY <1>2, <1>3, <3>1, <3>3
  <2> QED BY <2>1, <2>2
<1>7. p \o q = r
  BY <1>3, <1>4, <1>5, <1>6, SeqEqual
<1> QED BY <1>7 DEF p, q, r

Part(run) == SubSeq(files[run.file], run.skip + 1, run.skip + run.count)

(* What is read of a run is what the log has there. *)
LEMMA PartIsOfLog ==
    ASSUME Kept(segments, files, log), log \in Seq(Payloads), NEW run \in Runs, Readable(run)
    PROVE  /\ Part(run) \in Seq(Payloads)
           /\ Part(run) = SubSeq(log, Starts(run) + 1, Stops(run))
           /\ Starts(run) \in Nat /\ Stops(run) \in Nat
           /\ Starts(run) <= Stops(run) /\ Stops(run) <= Len(log)
           /\ Len(Part(run)) = run.count /\ Stops(run) = Starts(run) + run.count
<1>1. PICK all, b, skip, count : /\ all = files[run.file] /\ b = run.file
                                 /\ skip = run.skip /\ count = run.count
  OBVIOUS
<1>2. /\ b \in DOMAIN files /\ skip + count <= Len(all)
      /\ b \in Nat /\ skip \in Nat /\ count \in Nat
  BY <1>1 DEF Readable, Runs
<1>3. /\ all \in Seq(Payloads) /\ b + Len(all) <= Len(log)
      /\ \A i \in 1..Len(all) : all[i] = log[b + i]
  <2>1. all \in Seq(Payloads)
    BY <1>1, <1>2, FilesAre
  <2> QED BY <1>1, <1>2, <2>1 DEF Kept, OfLog
<1> DEFINE p == SubSeq(all, skip + 1, skip + count)
           q == SubSeq(log, (b + skip) + 1, (b + skip) + count)
<1>4. b + skip + count <= Len(log) /\ Len(log) \in Nat /\ Len(all) \in Nat
  BY <1>2, <1>3
<1>5. p \in Seq(Payloads) /\ Len(p) = count /\ \A i \in 1..count : p[i] = all[skip + i]
  BY ONLY <1>2, <1>3
<1>6. q \in Seq(Payloads) /\ Len(q) = count /\ \A i \in 1..count : q[i] = log[b + skip + i]
  <2>1. b + skip \in Nat /\ log \in Seq(Payloads)
    BY <1>2
  <2>2. PICK a \in Nat : a = b + skip /\ a + count <= Len(log)
    BY <1>4, <2>1
  <2>3. PICK c \in Nat : c = a + count /\ c - a = count /\ a <= c /\ c <= Len(log)
    BY <1>2, <2>2
  <2>4. /\ SubSeq(log, a + 1, c) \in Seq(Payloads) /\ Len(SubSeq(log, a + 1, c)) = c - a
        /\ \A i \in 1..(c - a) : SubSeq(log, a + 1, c)[i] = log[a + i]
    BY <2>1, <2>3, PartIs
  <2>5. q = SubSeq(log, a + 1, c)
    BY <2>2, <2>3
  <2> HIDE DEF q
  <2> QED BY <2>2, <2>3, <2>4, <2>5
<1>7. \A i \in 1..count : skip + i \in 1..Len(all) /\ b + (skip + i) = b + skip + i
  BY <1>2, <1>4
<1> HIDE DEF p, q
<1>8. \A i \in 1..count : p[i] = q[i]
  BY <1>3, <1>5, <1>6, <1>7
<1>9. p = q
  BY <1>5, <1>6, <1>8, SeqEqual
<1>10. Part(run) = p
  BY <1>1 DEF Part, p
<1>11. Starts(run) = b + skip /\ Stops(run) = b + skip + count
  BY <1>1 DEF Starts, Stops
<1>12. /\ b + skip \in Nat /\ b + skip + count \in Nat /\ b + skip <= b + skip + count
  BY <1>2
<1> QED BY <1>1, <1>4, <1>5, <1>9, <1>10, <1>11, <1>12 DEF q

(* What is read of runs that follow one another is what the log has from   *)
(* the first of them on.                                                    *)
ReadOf(located) == FlattenSeq([i \in DOMAIN located |-> Part(located[i])])

LEMMA ReadIsOfLog ==
    ASSUME Kept(segments, files, log), log \in Seq(Payloads),
           NEW located \in Seq(Runs), NEW from \in Nat, Following(located, from),
           from <= Len(log), \A i \in DOMAIN located : Readable(located[i])
    PROVE  /\ Len(ReadOf(located)) \in Nat
           /\ from + Len(ReadOf(located)) <= Len(log)
           /\ ReadOf(located) = SubSeq(log, from + 1, from + Len(ReadOf(located)))
<1> DEFINE parts == [i \in DOMAIN located |-> Part(located[i])]
<1>1. PICK n \in Nat : n = Len(located) /\ DOMAIN located = 1..n
  OBVIOUS
<1>2. \A i \in 1..n : /\ Part(located[i]) \in Seq(Payloads)
                      /\ Part(located[i]) = SubSeq(log, Starts(located[i]) + 1, Stops(located[i]))
                      /\ Starts(located[i]) \in Nat /\ Stops(located[i]) \in Nat
                      /\ Starts(located[i]) <= Stops(located[i])
                      /\ Stops(located[i]) <= Len(log)
  <2> TAKE i \in 1..n
  <2>1. located[i] \in Runs /\ Readable(located[i])
    BY <1>1
  <2> QED BY <2>1, PartIsOfLog
<1>3. parts \in Seq(Seq(Payloads)) /\ Len(parts) = n /\ \A i \in 1..n : parts[i] = Part(located[i])
  <2>1. parts = [i \in 1..n |-> Part(located[i])]
    BY <1>1
  <2> QED BY <1>2, <2>1
<1> HIDE DEF parts
<1>4. CASE n = 0
  <2>1. FlattenSeq(parts) = <<>>
    <3>1. Len(parts) = 0 /\ parts = <<>>
      BY <1>3, <1>4
    <3> QED BY <3>1 DEF FlattenSeq
  <2>2. SubSeq(log, from + 1, from) = <<>>
    BY SMT
  <2>3. from + 0 = from /\ Len(<<>>) = 0
    OBVIOUS
  <2> QED BY <2>1, <2>2, <2>3 DEF parts, ReadOf
<1>5. CASE n # 0
  <2>1. PICK g : /\ FlattenSeq(parts) = g[n] /\ g[1] = parts[1]
                 /\ \A i \in 2..n : g[i] = g[i-1] \o parts[i]
    BY <1>3, <1>5, FlattenedBy
  <2> DEFINE Holds(i) == g[i] = SubSeq(log, from + 1, Stops(located[i])) /\ from <= Stops(located[i])
             Fails == {i \in 1..n : ~Holds(i)}
  <2>2. Holds(1)
    <3>1. 1 \in 1..n /\ 1 \in DOMAIN located
      BY <1>1, <1>5
    <3>2. Starts(located[1]) = from
      BY <3>1 DEF Following
    <3> QED BY <1>2, <1>3, <2>1, <3>1, <3>2
  <2>3. ASSUME NEW i \in 1..n, i # 1, Holds(i - 1) PROVE Holds(i)
    <3>1. PICK j \in 1..n : j = i - 1 /\ i \in 2..n
      BY <2>3
    <3>2. Starts(located[i]) = Stops(located[j])
      BY <1>1, <2>3, <3>1 DEF Following
    <3>3. PICK a \in Nat, b \in Nat : a = Stops(located[j]) /\ b = Stops(located[i]) /\ a <= b
                                      /\ b <= Len(log) /\ from <= a
      BY <1>2, <2>3, <3>1, <3>2
    <3>4. parts[i] = SubSeq(log, a + 1, b)
      BY <1>2, <1>3, <3>2, <3>3
    <3>5. g[i] = SubSeq(log, from + 1, a) \o SubSeq(log, a + 1, b)
      BY <2>1, <2>3, <3>1, <3>3, <3>4
    <3>6. g[i] = SubSeq(log, from + 1, b)
      <4>1. SubSeq(log, from + 1, a) \o SubSeq(log, a + 1, b) = SubSeq(log, from + 1, b)
        <5>1. /\ log \in Seq(Payloads) /\ from \in Nat /\ a \in Nat /\ b \in Nat
              /\ from <= a /\ a <= b /\ b <= Len(log)
          BY <3>3
        <5> QED BY ONLY <5>1, PartsJoin
      <4> QED BY <3>5, <4>1
    <3>7. from <= b
      BY <3>3
    <3> QED BY <3>3, <3>6, <3>7
  <2>4. Holds(n)
    <3>1. Fails \in SUBSET Nat /\ \A i : i \in Fails <=> i \in 1..n /\ ~Holds(i)
      <4> HIDE DEF Holds
      <4> QED BY <1>1
    <3> HIDE DEF Fails, Holds
    <3>2. ASSUME Fails # {} PROVE FALSE
      <4>1. PICK i \in Fails : \A j \in Fails : i <= j
        BY <3>1, <3>2, LeastOf
      <4>2. i # 1 /\ i \in 1..n
        BY <2>2, <3>1, <4>1
      <4>3. i - 1 \in 1..n /\ ~(i <= i - 1)
        BY <4>2
      <4>4. Holds(i - 1)
        BY <3>1, <4>1, <4>3
      <4> QED BY <2>3, <3>1, <4>1, <4>2, <4>4
    <3>3. n \in 1..n
      BY <1>5
    <3> QED BY <3>1, <3>2, <3>3
  <2>5. PICK t \in Nat : t = Stops(located[n]) /\ from <= t /\ t <= Len(log)
    <3>1. n \in 1..n
      BY <1>5
    <3> QED BY <1>2, <2>4, <3>1
  <2>6. FlattenSeq(parts) = SubSeq(log, from + 1, t)
    BY <2>1, <2>4, <2>5
  <2>7. Len(SubSeq(log, from + 1, t)) = t - from
    BY <2>5, PartIs
  <2>8. from + Len(FlattenSeq(parts)) = t /\ Len(FlattenSeq(parts)) \in Nat
    <3>1. Len(FlattenSeq(parts)) = t - from
      BY <2>6, <2>7
    <3> QED BY <2>5, <3>1
  <2> QED BY <2>5, <2>6, <2>8 DEF parts, ReadOf
<1> QED BY <1>4, <1>5

-----------------------------------------------------------------------------
(* Nothing located follows anything. *)
LEMMA NothingFollows == \A from : Following(<<>>, from)
BY DEF Following

(* Opening takes positions as they are on disk: none is past the end. *)
LEMMA OpenKeepsReading ==
    ASSUME IInv, Reading, Open
    PROVE  Reading'
<1>1. Types /\ OnDisk
  BY DEF IInv
<1>2. /\ ~up /\ groups' = DOMAIN offsets /\ offsets' = offsets /\ rpc' = rpc /\ next' = next
      /\ last' = last /\ runs' = runs /\ log' = log
      /\ position' = [g \in Groups |->
                        IF g \in DOMAIN offsets THEN Smaller(offsets[g], End(segments')) ELSE 0]
  BY DEF Open, receivers, history
<1>3. Kept(segments', files', log)
  BY <1>1, OpenIs
<1>4. End(segments') = Len(log)
  BY <1>3 DEF Kept
<1>5. \A g \in DOMAIN offsets : g \in Groups /\ offsets[g] \in Nat /\ offsets[g] <= Len(log)
  BY <1>1 DEF Types, Reading, InLog
<1>6. \A g \in DOMAIN offsets : position'[g] = offsets[g]
  BY <1>2, <1>4, <1>5 DEF Smaller
<1>7. InLog'
  BY <1>2, <1>6 DEF Reading, InLog
<1>8. \A g \in Groups : rpc[g] = "closed"
  BY <1>1, <1>2 DEF Types
<1>9. Modes'
  BY <1>2, <1>5, <1>8 DEF Modes
<1>10. Returns' /\ Follow'
  BY <1>2 DEF Reading, Returns, Follow
<1> QED BY <1>7, <1>9, <1>10 DEF Reading

(* A receiver begins in the log, with nothing located and nothing returned. *)
LEMMA ReceiverKeepsReading ==
    ASSUME Holders \intersect Observers = {}, IInv, Reading, NEW g \in Groups,
           NEW asObserver \in BOOLEAN, IF asObserver THEN g \in Observers ELSE g \in Holders,
           Receiver(g, asObserver)
    PROVE  Reading'
<1> DEFINE known == g \in groups
           at == IF known THEN position[g] ELSE End(segments)
<1>1. /\ up
      /\ offsets' = IF known THEN offsets ELSE With(offsets, g, at)
      /\ groups' = groups \union {g}
      /\ position' = [position EXCEPT ![g] = at]
      /\ observers' = IF asObserver THEN observers \union {g} ELSE observers \ {g}
      /\ rpc' = [rpc EXCEPT ![g] = "idle"]
      /\ next' = [next EXCEPT ![g] = at]
      /\ last' = [last EXCEPT ![g] = Nothing]
      /\ runs' = [runs EXCEPT ![g] = <<>>]
      /\ log' = log
  BY DEF Receiver, WriteGroup
<1>2. /\ next \in [Groups -> Nat] /\ runs \in [Groups -> Seq(Runs)]
      /\ rpc \in [Groups -> ReceiverStates]
      /\ position \in [Groups -> Nat] /\ groups \subseteq Groups
      /\ DOMAIN offsets = groups
  BY <1>1 DEF IInv, Types
<1>3. Len(log) = End(segments)
  BY <1>1 DEF IInv, InIndex, Kept
<1>4. at <= Len(log) /\ (known => at = offsets[g])
  <2>1. CASE known
    <3>1. position[g] = offsets[g] /\ offsets[g] <= Len(log)
      BY <1>2, <2>1 DEF Reading, InLog
    <3> QED BY <2>1, <3>1
  <2>2. CASE ~known
    <3>1. log \in Seq(Payloads)
      BY DEF IInv, Types
    <3>2. Len(log) \in Nat
      BY <3>1
    <3> QED BY <1>3, <2>2, <3>2
  <2> QED BY <2>1, <2>2
<1> HIDE DEF at
<1>5. DOMAIN offsets' = groups \union {g}
  <2>1. CASE known
    BY <1>1, <1>2, <2>1
  <2>2. CASE ~known
    BY <1>1, <1>2, <2>2 DEF With
  <2> QED BY <2>1, <2>2
<1>6. offsets'[g] = at /\ \A h \in groups \ {g} : offsets'[h] = offsets[h]
  <2>1. CASE known
    BY <1>1, <1>4, <2>1
  <2>2. CASE ~known
    BY <1>1, <1>2, <2>2 DEF With
  <2> QED BY <2>1, <2>2
<1>7. InLog'
  <2>1. \A h \in groups \union {g} : offsets'[h] <= Len(log) /\ position'[h] = offsets'[h]
    <3>1. offsets'[g] <= Len(log) /\ position'[g] = offsets'[g]
      BY <1>1, <1>2, <1>4, <1>6
    <3>2. \A h \in groups \ {g} : offsets'[h] <= Len(log) /\ position'[h] = offsets'[h]
      BY <1>1, <1>2, <1>6 DEF Reading, InLog
    <3> QED BY <3>1, <3>2
  <2>2. \A h \in Groups : next'[h] <= Len(log)
    BY <1>1, <1>2, <1>4 DEF Reading, InLog
  <2> QED BY <1>1, <1>5, <2>1, <2>2 DEF InLog
<1>8. Modes'
  <2>1. g \in Observers => g \in observers'
    BY <1>1
  <2>2. \A h \in groups \ {g} : rpc'[h] = rpc[h] /\ (h \in observers => h \in observers')
    BY <1>1, <1>2
  <2> QED BY <1>1, <2>1, <2>2 DEF Reading, Modes
<1>9. Returns'
  <2>1. rpc'[g] = "idle" /\ \A h \in Groups \ {g} : rpc'[h] = rpc[h]
    BY <1>1, <1>2
  <2>2. last' = [h \in Groups |-> last'[h]] /\ \A h \in Groups \ {g} : last'[h] = last[h]
    BY <1>1 DEF Reading, Returns
  <2> QED BY <2>1, <2>2 DEF Reading, Returns
<1>10. Follow'
  BY <1>1, <1>2, NothingFollows DEF Reading, Follow
<1> QED BY <1>7, <1>8, <1>9, <1>10 DEF Reading

(* A group that is removed leaves the others where they are. *)
LEMMA UnsubscribeKeepsReading ==
    ASSUME IInv, Reading, NEW g \in Groups, Unsubscribe(g)
    PROVE  Reading'
<1>1. /\ up /\ groups' = groups \ {g} /\ observers' = observers \ {g}
      /\ position' = [position EXCEPT ![g] = 0]
      /\ offsets' = IF g \in groups THEN Restrict(offsets, DOMAIN offsets \ {g}) ELSE offsets
      /\ rpc' = rpc /\ next' = next /\ last' = last /\ runs' = runs /\ log' = log
  BY DEF Unsubscribe, receivers
<1>2. position \in [Groups -> Nat] /\ groups \subseteq Groups /\ DOMAIN offsets = groups
  BY <1>1 DEF IInv, Types
<1>3. DOMAIN offsets' = groups \ {g} /\ \A h \in groups \ {g} : offsets'[h] = offsets[h]
  <2>1. CASE g \in groups
    BY <1>1, <1>2, <2>1 DEF Restrict
  <2>2. CASE g \notin groups
    BY <1>1, <1>2, <2>2
  <2> QED BY <2>1, <2>2
<1>4. InLog'
  BY <1>1, <1>2, <1>3 DEF Reading, InLog
<1>5. Modes'
  BY <1>1 DEF Reading, Modes
<1>6. Returns' /\ Follow'
  BY <1>1 DEF Reading, Returns, Follow
<1> QED BY <1>4, <1>5, <1>6 DEF Reading

(* Steps of a receiver that only wait, or give up. *)
LEMMA WaitsKeepReading ==
    ASSUME IInv, Reading, NEW g \in Groups,
           \/ Receive(g) \/ ReceiveFails(g) \/ Recheck(g) \/ TimeOut(g)
           \/ NotifyReleased(g) \/ TakeSkipped(g) \/ ReadFails(g)
    PROVE  Reading'
<1>1. /\ offsets' = offsets /\ groups' = groups /\ position' = position /\ observers' = observers
      /\ next' = next /\ log' = log
  BY DEF Receive, ReceiveFails, Recheck, TimeOut, NotifyReleased, TakeSkipped, ReadFails,
         disk, positions, history
<1>2. rpc \in [Groups -> ReceiverStates] /\ runs \in [Groups -> Seq(Runs)]
  BY DEF IInv, Types
<1>3. \/ rpc' = rpc /\ last' = last
      \/ rpc[g] = "idle" /\ last' = [last EXCEPT ![g] = Nothing]
         /\ rpc' = [rpc EXCEPT ![g] = "registered"]
      \/ rpc[g] # "closed" /\ last' = last /\ rpc' = [rpc EXCEPT ![g] = "idle"]
      \/ rpc[g] = "waiting" /\ last' = last /\ rpc' = [rpc EXCEPT ![g] = "registered"]
  BY DEF Receive, ReceiveFails, Recheck, TimeOut, NotifyReleased, TakeSkipped, ReadFails
<1>4. runs' = runs \/ runs' = [runs EXCEPT ![g] = <<>>]
  BY DEF Receive, ReceiveFails, Recheck, TimeOut, NotifyReleased, TakeSkipped, ReadFails
<1>5. InLog'
  BY <1>1 DEF Reading, InLog
<1>6. Modes'
  <2>1. \A h \in Groups : rpc'[h] # "closed" => rpc[h] # "closed"
    BY <1>2, <1>3
  <2>2. groups \subseteq Groups
    BY DEF IInv, Types
  <2> QED BY <1>1, <2>1, <2>2 DEF Reading, Modes
<1>7. Follow'
  BY <1>1, <1>2, <1>4, NothingFollows DEF Reading, Follow
<1>8. Returns'
  <2>1. last = [h \in Groups |-> last[h]] /\ DOMAIN last = Groups
    BY DEF Reading, Returns
  <2>2. CASE rpc' = rpc /\ last' = last
    BY <2>2 DEF Reading, Returns
  <2>3. CASE rpc[g] = "idle" /\ last' = [last EXCEPT ![g] = Nothing]
             /\ rpc' = [rpc EXCEPT ![g] = "registered"]
    <3>1. last'[g] = Nothing /\ last' = [h \in Groups |-> last'[h]]
      BY <2>1, <2>3
    <3>2. \A h \in Groups \ {g} : last'[h] = last[h] /\ rpc'[h] = rpc[h]
      BY <1>2, <2>1, <2>3
    <3> QED BY <3>1, <3>2 DEF Reading, Returns
  <2>4. CASE rpc[g] # "closed" /\ last' = last /\ rpc' = [rpc EXCEPT ![g] = "idle"]
    BY <1>2, <2>4 DEF Reading, Returns
  <2>5. CASE rpc[g] = "waiting" /\ last' = last /\ rpc' = [rpc EXCEPT ![g] = "registered"]
    BY <1>2, <2>5 DEF Reading, Returns
  <2> QED BY <1>3, <2>2, <2>3, <2>4, <2>5
<1> QED BY <1>5, <1>6, <1>7, <1>8 DEF Reading

-----------------------------------------------------------------------------
(* An acknowledgement stays behind what was returned.                       *)
LEMMA AcknowledgeKeepsReading ==
    ASSUME IInv, Reading, NEW g \in Groups, NEW offset \in Nat, NEW ok \in BOOLEAN,
           Acknowledge(g, offset, ok)
    PROVE  Reading'
<1>1. /\ rpc[g] = "idle" /\ g \in groups /\ offset < next[g]
      /\ offsets' = With(offsets, g, offset + 1)
      /\ position' = [position EXCEPT ![g] = offset + 1]
      /\ rpc' = [rpc EXCEPT ![g] = IF ok THEN "released" ELSE "idle"]
      /\ groups' = groups /\ observers' = observers /\ next' = next /\ last' = last
      /\ runs' = runs
  BY DEF Acknowledge, WriteGroup, Received
<1>2. /\ next \in [Groups -> Nat] /\ rpc \in [Groups -> ReceiverStates]
      /\ position \in [Groups -> Nat] /\ groups \subseteq Groups /\ log \in Seq(Payloads)
      /\ (up => DOMAIN offsets = groups) /\ (~up => groups = {})
  BY DEF IInv, Types
<1>3. log' = log
  BY DEF Acknowledge, history
<1>4. DOMAIN offsets' = groups /\ offsets'[g] = offset + 1
      /\ \A h \in groups \ {g} : offsets'[h] = offsets[h]
  <2>1. DOMAIN offsets = groups /\ groups \union {g} = groups
    BY <1>1, <1>2
  <2>2. offsets' = [h \in groups |-> IF h = g THEN offset + 1 ELSE offsets[h]]
    BY <1>1, <2>1 DEF With
  <2> QED BY <1>1, <2>2
<1>5. offset + 1 <= Len(log)
  <2>1. next[g] <= Len(log)
    BY DEF Reading, InLog
  <2>2. PICK l \in Nat, n \in Nat : l = Len(log) /\ n = next[g] /\ n <= l /\ offset < n
    BY <1>1, <1>2, <2>1
  <2> QED BY <2>2
<1>6. InLog'
  <2>1. \A h \in groups : offsets'[h] <= Len(log) /\ position'[h] = offsets'[h]
    <3>1. offsets'[g] <= Len(log) /\ position'[g] = offsets'[g]
      BY <1>1, <1>2, <1>4, <1>5
    <3>2. \A h \in groups \ {g} : h \in DOMAIN offsets
      BY <1>1, <1>2
    <3>3. \A h \in groups \ {g} : offsets'[h] <= Len(log) /\ position'[h] = offsets'[h]
      BY <1>1, <1>2, <1>4, <3>2 DEF Reading, InLog
    <3> QED BY <3>1, <3>3
  <2> QED BY <1>1, <1>3, <1>4, <2>1 DEF Reading, InLog
<1>7. Modes'
  <2>1. \A h \in Groups : rpc'[h] # "closed" => rpc[h] # "closed"
    BY <1>1, <1>2
  <2> QED BY <1>1, <1>2, <2>1 DEF Reading, Modes
<1>8. Returns'
  BY <1>1, <1>2 DEF Reading, Returns
<1>9. Follow'
  BY <1>1 DEF Reading, Follow
<1> QED BY <1>6, <1>7, <1>8, <1>9 DEF Reading

(* What a receiver reads ends in the log. *)
LEMMA ReadIsThere ==
    ASSUME IInv, Reading, NEW g \in Groups, Read(g)
    PROVE  /\ up /\ g \in Groups
           /\ \E to \in Nat : /\ next[g] <= to /\ to <= Len(log)
                              /\ next' = [next EXCEPT ![g] = to]
                              /\ last' = [last EXCEPT ![g] =
                                            Returned(next[g], SubSeq(log, next[g] + 1, to))]
                              /\ seen' = [seen EXCEPT ![g] =
                                            IF g \in observers THEN @
                                            ELSE @ \union next[g]..(to - 1)]
<1>1. /\ next \in [Groups -> Nat] /\ log \in Seq(Payloads) /\ runs \in [Groups -> Seq(Runs)]
      /\ (~up => rpc[g] = "closed")
  BY DEF IInv, Types
<1>2. up /\ Kept(segments, files, log)
  BY <1>1 DEF Read, IInv, InIndex
<1> DEFINE located == runs[g]
           parts == [i \in DOMAIN located |-> Part(located[i])]
           records == FlattenSeq(parts)
           to == next[g] + Len(records)
<1>3. /\ located \in Seq(Runs) /\ next[g] \in Nat /\ Following(located, next[g])
      /\ next[g] <= Len(log) /\ \A i \in DOMAIN located : Readable(located[i])
  BY <1>1 DEF Read, Reading, Follow, InLog
<1>4. Len(records) \in Nat /\ to <= Len(log) /\ records = SubSeq(log, next[g] + 1, to)
  <2> HIDE DEF located
  <2>1. \A from \in Nat : from = next[g] =>
            LET until == from + Len(records)
            IN  Len(records) \in Nat /\ until <= Len(log) /\ records = SubSeq(log, from + 1, until)
    BY <1>1, <1>2, <1>3, ReadIsOfLog DEF ReadOf
  <2> QED BY <1>3, <2>1
<1>5. /\ last' = [last EXCEPT ![g] = Returned(next[g], records)]
      /\ next' = [next EXCEPT ![g] = to]
      /\ seen' = [seen EXCEPT ![g] = IF g \in observers THEN @ ELSE @ \union next[g]..(to - 1)]
  BY DEF Read, Part
<1> HIDE DEF records
<1>6. to \in Nat /\ next[g] <= to
  BY <1>3, <1>4
<1> HIDE DEF to
<1>7. last' = [last EXCEPT ![g] = Returned(next[g], SubSeq(log, next[g] + 1, to))]
  BY <1>4, <1>5
<1> QED BY <1>2, <1>4, <1>5, <1>6, <1>7

(* A receiver that has read stays in the log. *)
LEMMA ReadKeepsReading ==
    ASSUME IInv, Reading, NEW g \in Groups, Read(g)
    PROVE  Reading'
<1>1. PICK to \in Nat : to <= Len(log) /\ next' = [next EXCEPT ![g] = to]
  BY ReadIsThere
<1>2. /\ rpc[g] = "reading" /\ rpc' = [rpc EXCEPT ![g] = "idle"]
      /\ runs' = [runs EXCEPT ![g] = <<>>]
      /\ \E x : last' = [last EXCEPT ![g] = x]
      /\ offsets' = offsets /\ groups' = groups /\ position' = position /\ observers' = observers
      /\ log' = log
  BY DEF Read, disk, positions
<1>3. /\ rpc \in [Groups -> ReceiverStates] /\ next \in [Groups -> Nat]
      /\ runs \in [Groups -> Seq(Runs)] /\ groups \subseteq Groups
  BY DEF IInv, Types
<1>4. InLog'
  BY <1>1, <1>2, <1>3 DEF Reading, InLog
<1>5. Modes'
  <2>1. \A h \in Groups : rpc'[h] # "closed" => rpc[h] # "closed"
    BY <1>2, <1>3
  <2> QED BY <1>2, <1>3, <2>1 DEF Reading, Modes
<1>6. Returns'
  <2>1. rpc'[g] = "idle" /\ \A h \in Groups \ {g} : rpc'[h] = rpc[h]
    BY <1>2, <1>3
  <2>2. last' = [h \in Groups |-> last'[h]] /\ \A h \in Groups \ {g} : last'[h] = last[h]
    BY <1>2 DEF Reading, Returns
  <2> QED BY <2>1, <2>2 DEF Reading, Returns
<1>7. Follow'
  BY <1>1, <1>2, <1>3, NothingFollows DEF Reading, Follow
<1> QED BY <1>4, <1>5, <1>6, <1>7 DEF Reading

(* A receiver that locates moves past what is gone, and no further than the *)
(* end; what it locates follows from there.                                 *)
LEMMA LocateKeepsReading ==
    ASSUME IInv, Reading, NEW g \in Groups, NEW max \in Nat, Locate(g, max)
    PROVE  Reading'
<1> DEFINE from == From(g)
           found == from < End(segments)
<1>1. /\ rpc[g] = "registered" /\ g \in groups
      /\ next' = [next EXCEPT ![g] = from]
      /\ runs' = [runs EXCEPT ![g] = IF found THEN Located(from, max) ELSE <<>>]
      /\ rpc' = [rpc EXCEPT ![g] = IF found THEN "reading" ELSE "waiting"]
      /\ offsets' = offsets /\ groups' = groups /\ position' = position /\ observers' = observers
      /\ last' = last /\ log' = log
  BY DEF Locate, disk, positions, history
<1>2. /\ rpc \in [Groups -> ReceiverStates] /\ next \in [Groups -> Nat]
      /\ runs \in [Groups -> Seq(Runs)] /\ groups \subseteq Groups /\ log \in Seq(Payloads)
      /\ (~up => groups = {})
  BY DEF IInv, Types
<1>3. up /\ Chain(segments) /\ End(segments) = Len(log)
  BY <1>1, <1>2 DEF IInv, InIndex, Kept, Lists
<1>4. Base(segments) \in Nat /\ End(segments) \in Nat /\ Base(segments) <= End(segments)
  BY <1>3, Chained
<1>5. from \in Nat /\ Base(segments) <= from /\ from <= Len(log)
  <2>1. next[g] \in Nat /\ next[g] <= Len(log)
    BY <1>2 DEF Reading, InLog
  <2> QED BY <1>3, <1>4, <2>1 DEF From, Larger
<1> HIDE DEF from
<1>6. Following(IF found THEN Located(from, max) ELSE <<>>, from)
  <2>1. CASE found
    BY <1>3, <1>5, <2>1, LocatedFollows
  <2>2. CASE ~found
    BY <2>2, NothingFollows
  <2> QED BY <2>1, <2>2
<1> HIDE DEF found
<1>7. InLog'
  BY <1>1, <1>2, <1>5 DEF Reading, InLog
<1>8. Modes'
  <2>1. \A h \in Groups : rpc'[h] # "closed" => rpc[h] # "closed"
    BY <1>1, <1>2
  <2> QED BY <1>1, <1>2, <2>1 DEF Reading, Modes
<1>9. Returns'
  <2>1. \A h \in Groups : rpc'[h] \in {"registered", "waiting", "reading"}
                              => rpc[h] \in {"registered", "waiting", "reading"}
    BY <1>1, <1>2
  <2> QED BY <1>1, <2>1 DEF Reading, Returns
<1>10. Follow'
  <2>1. runs'[g] = (IF found THEN Located(from, max) ELSE <<>>) /\ next'[g] = from
    BY <1>1, <1>2
  <2>2. \A h \in Groups \ {g} : runs'[h] = runs[h] /\ next'[h] = next[h]
    BY <1>1, <1>2
  <2>3. Following(runs'[g], next'[g])
    BY <1>6, <2>1
  <2> QED BY <2>2, <2>3 DEF Reading, Follow
<1> QED BY <1>7, <1>8, <1>9, <1>10 DEF Reading

(* Steps that leave what senders hold and the log as they are. *)
LEMMA StepsKeepRoom ==
    ASSUME RInv, pending' = pending, spc' = spc, log' = log
    PROVE  Room' /\ Ready'
<1>1. Room /\ Ready
  BY DEF RInv
<1>2. Room'
  BY <1>1, StayingLeavesRoom
<1>3. Ready'
  BY <1>1 DEF Ready
<1> QED BY <1>2, <1>3

(* A write that is cut off leaves a part of its batch in the log. *)
LEMMA CrashWritingLengthens ==
    ASSUME IInv, NEW s \in Senders, CrashWriting(s)
    PROVE  \E part \in Seq(Payloads) : /\ log' = log \o part /\ Len(part) <= Len(pending[s])
                                       /\ Len(log') = Len(log) + Len(part)
                                       /\ Len(part) <= MaxBatch
<1>1. pending[s] \in Seq(Payloads) /\ Len(pending[s]) <= MaxBatch /\ log \in Seq(Payloads)
  BY DEF IInv, Types
<1>2. PICK piece \in CutOff(pending[s]) : log' = log \o Whole(piece)
  BY DEF CrashWriting
<1>3. PICK part : part = Whole(piece)
  OBVIOUS
<1>4. Len(part) <= Len(pending[s]) /\ part \in Seq(Payloads)
  BY <1>1, <1>3, CutOffIsShorter
<1>5. Len(log \o part) = Len(log) + Len(part)
  BY <1>1, <1>4
<1>6. Len(part) <= MaxBatch
  <2>1. PICK n \in Nat, m \in Nat : n = Len(part) /\ m = Len(pending[s])
    BY <1>1, <1>4
  <2>2. n <= m /\ m <= MaxBatch /\ MaxBatch \in Nat
    BY <1>1, <1>4, <2>1, BoundsAssumption
  <2> QED BY <2>1, <2>2
<1> QED BY <1>2, <1>3, <1>4, <1>5, <1>6

(* A process that ends in an acknowledgement, or leaving, left at most that *)
(* on disk.                                                                 *)
LEMMA CrashAcknowledgingIs ==
    ASSUME IInv, NEW g \in Groups, NEW offset \in Nat, CrashAcknowledging(g, offset)
    PROVE  /\ Lost /\ log' = log /\ seen' = seen
           /\ g \in groups /\ rpc[g] = "idle" /\ offset < next[g] /\ offset >= position[g]
           /\ DOMAIN offsets = groups
           /\ offsets' = [h \in groups |-> IF h = g THEN offset + 1 ELSE offsets[h]]
<1>1. /\ Lost /\ g \in groups /\ rpc[g] = "idle" /\ offset < next[g] /\ offset >= position[g]
      /\ offsets' = With(offsets, g, offset + 1) /\ log' = log /\ seen' = seen
  BY DEF CrashAcknowledging, EndsReleasing, WriteGroup, Received, history
<1>2. DOMAIN offsets = groups
  BY <1>1 DEF IInv, Types
<1>3. groups \union {g} = groups
  BY <1>1
<1>4. offsets' = [h \in groups |-> IF h = g THEN offset + 1 ELSE offsets[h]]
  BY <1>1, <1>2, <1>3 DEF With
<1> QED BY <1>1, <1>2, <1>4

LEMMA CrashUnsubscribingIs ==
    ASSUME IInv, NEW g \in Groups, CrashUnsubscribing(g)
    PROVE  /\ Lost /\ log' = log /\ seen' = [seen EXCEPT ![g] = {}]
           /\ DOMAIN offsets = groups /\ DOMAIN offsets' = groups \ {g}
           /\ \A h \in groups \ {g} : offsets'[h] = offsets[h]
<1>1. /\ up /\ Lost /\ log' = log /\ seen' = [seen EXCEPT ![g] = {}]
      /\ offsets' = IF g \in groups THEN Restrict(offsets, DOMAIN offsets \ {g}) ELSE offsets
  BY DEF CrashUnsubscribing, EndsReleasing
<1>2. DOMAIN offsets = groups
  BY <1>1 DEF IInv, Types
<1>3. CASE g \in groups
  BY <1>1, <1>2, <1>3 DEF Restrict
<1>4. CASE g \notin groups
  BY <1>1, <1>2, <1>4
<1> QED BY <1>1, <1>2, <1>3, <1>4

(* A process that ends once its batch is written left all of it. *)
LEMMA CrashReleasingIs ==
    ASSUME IInv, NEW s \in Senders, CrashReleasing(s)
    PROVE  /\ Lost /\ offsets' = offsets /\ seen' = seen /\ spc[s] = "registered"
           /\ log' = log \o pending[s] /\ pending[s] \in Seq(Payloads)
           /\ Len(log') = Len(log) + Len(pending[s])
<1>1. /\ Lost /\ offsets' = offsets /\ seen' = seen /\ spc[s] = "registered"
      /\ log' = log \o pending[s]
  BY DEF CrashReleasing, EndsReleasing
<1>2. pending[s] \in Seq(Payloads) /\ log \in Seq(Payloads)
  BY DEF IInv, Types
<1> QED BY <1>1, <1>2

(* Every step keeps the strengthened invariant. *)
LEMMA NextKeepsReading ==
    ASSUME Failures \subseteq {"write", "create"}, Holders \intersect Observers = {},
           RInv, [Next]_vars
    PROVE  RInv'
<1>0. IInv /\ Reading /\ Room /\ Ready /\ Tolerated
  BY DEF RInv, Tolerated
<1>00. IInv' /\ Types'
  BY <1>0, NextKeeps DEF IInv
<1> SUFFICES Room' /\ Ready' /\ Reading'
  BY <1>00 DEF RInv
<1>1. CASE Open
  <2>1. pending' = pending /\ spc' = spc /\ log' = log
    BY <1>1 DEF Open, senders, history
  <2> QED BY <1>0, <1>1, <2>1, StepsKeepRoom, OpenKeepsReading
<1>2. CASE Crash
  <2>1. Lost /\ offsets' = offsets /\ log' = log
    BY <1>2 DEF Crash, disk, history
  <2>2. KeepsOffsets
    BY <2>1 DEF KeepsOffsets
  <2> QED BY <1>00, <2>1, <2>2, LostKeepsPlaces
<1>3. ASSUME NEW g \in Groups, NEW asObserver \in BOOLEAN,
             IF asObserver THEN g \in Observers ELSE g \in Holders, Receiver(g, asObserver)
      PROVE  Room' /\ Ready' /\ Reading'
  <2>1. pending' = pending /\ spc' = spc /\ log' = log
    BY <1>3 DEF Receiver, senders
  <2> QED BY <1>0, <1>3, <2>1, StepsKeepRoom, ReceiverKeepsReading
<1>4. ASSUME NEW g \in Groups, Unsubscribe(g) PROVE Room' /\ Ready' /\ Reading'
  <2>1. pending' = pending /\ spc' = spc /\ log' = log
    BY <1>4 DEF Unsubscribe
  <2> QED BY <1>0, <1>4, <2>1, StepsKeepRoom, UnsubscribeKeepsReading
<1>5. ASSUME NEW s \in Senders,
             \/ \E batch \in Batches : Send(s, batch)
             \/ AwaitRoom(s) \/ Retry(s) \/ NotifyArrived(s) \/ Cancel(s) \/ WriteFails(s)
             \/ \E ok \in BOOLEAN : TakeBatch(s, ok)
             \/ RollFails(s)
      PROVE  Room' /\ Ready' /\ Reading'
  BY <1>00, <1>5, SenderStepsKeep
<1>6. ASSUME NEW s \in Senders, CrashWriting(s) PROVE Room' /\ Ready' /\ Reading'
  <2>1. Lost /\ offsets' = offsets
    BY <1>6 DEF CrashWriting
  <2>2. PICK part \in Seq(Payloads) : /\ Len(part) <= Len(pending[s])
                                      /\ Len(log') = Len(log) + Len(part)
    BY <1>0, <1>6, CrashWritingLengthens
  <2>3. Len(log) <= Len(log') /\ Len(log') <= Len(log) + Len(pending[s])
    <3>1. Len(log) \in Nat /\ Len(part) \in Nat /\ Len(pending[s]) \in Nat
      BY <1>0 DEF IInv, Types
    <3>2. PICK l \in Nat, n \in Nat, p \in Nat : l = Len(log) /\ n = Len(part)
                                                 /\ p = Len(pending[s])
      BY <3>1
    <3> QED BY <2>2, <3>2
  <2>4. KeepsOffsets
    BY <2>1 DEF KeepsOffsets
  <2> QED BY <1>00, <2>1, <2>3, <2>4, LostKeepsPlaces
<1>6a. ASSUME NEW s \in Senders, CrashReleasing(s) PROVE Room' /\ Ready' /\ Reading'
  <2>1. Lost /\ offsets' = offsets /\ Len(log') = Len(log) + Len(pending[s])
    BY <1>0, <1>6a, CrashReleasingIs
  <2>2. Len(log) <= Len(log') /\ Len(log') <= Len(log) + Len(pending[s])
    <3>1. Len(log) \in Nat /\ Len(pending[s]) \in Nat
      BY <1>0 DEF IInv, Types
    <3>2. PICK l \in Nat, p \in Nat : l = Len(log) /\ p = Len(pending[s])
      BY <3>1
    <3> QED BY <2>1, <3>2
  <2>3. KeepsOffsets
    BY <2>1 DEF KeepsOffsets
  <2> QED BY <1>00, <2>1, <2>2, <2>3, LostKeepsPlaces
<1>6b. ASSUME NEW g \in Groups, CrashUnsubscribing(g) PROVE Room' /\ Ready' /\ Reading'
  <2>1. /\ Lost /\ log' = log
        /\ DOMAIN offsets = groups /\ DOMAIN offsets' = groups \ {g}
        /\ \A h \in groups \ {g} : offsets'[h] = offsets[h]
    BY <1>0, <1>6b, CrashUnsubscribingIs
  <2>2. KeepsOffsets
    BY <2>1 DEF KeepsOffsets
  <2> QED BY <1>00, <2>1, <2>2, LostKeepsPlaces
<1>6c. ASSUME NEW g \in Groups, NEW offset \in Nat, CrashAcknowledging(g, offset)
       PROVE  Room' /\ Ready' /\ Reading'
  <2>1. /\ Lost /\ log' = log /\ offset < next[g] /\ DOMAIN offsets = groups
        /\ offsets' = [h \in groups |-> IF h = g THEN offset + 1 ELSE offsets[h]]
    BY <1>0, <1>6c, CrashAcknowledgingIs
  <2>2. offset + 1 <= next[g]
    <3>1. PICK n \in Nat : n = next[g]
      BY <1>0 DEF IInv, Types
    <3>2. offset < n
      BY <2>1, <3>1
    <3> QED BY <3>1, <3>2
  <2>3. KeepsOffsets
    <3>1. ASSUME NEW h \in DOMAIN offsets'
          PROVE  \/ h \in DOMAIN offsets /\ offsets'[h] = offsets[h]
                 \/ h \in Groups /\ offsets'[h] <= next[h]
      <4>1. CASE h = g
        BY <2>1, <2>2, <4>1
      <4>2. CASE h # g
        BY <2>1, <3>1, <4>2
      <4> QED BY <4>1, <4>2
    <3> QED BY <3>1 DEF KeepsOffsets
  <2> QED BY <1>00, <2>1, <2>3, LostKeepsPlaces
<1>7. ASSUME NEW g \in Groups,
             \/ Receive(g) \/ ReceiveFails(g) \/ Recheck(g) \/ TimeOut(g)
             \/ NotifyReleased(g) \/ TakeSkipped(g) \/ ReadFails(g)
      PROVE  Room' /\ Ready' /\ Reading'
  <2>1. pending' = pending /\ spc' = spc /\ log' = log
    BY <1>7 DEF Receive, ReceiveFails, Recheck, TimeOut, NotifyReleased, TakeSkipped, ReadFails,
                senders, history
  <2> QED BY <1>0, <1>7, <2>1, StepsKeepRoom, WaitsKeepReading
<1>8. ASSUME NEW g \in Groups, Read(g) PROVE Room' /\ Ready' /\ Reading'
  <2>1. pending' = pending /\ spc' = spc /\ log' = log
    BY <1>8 DEF Read, senders
  <2> QED BY <1>0, <1>8, <2>1, StepsKeepRoom, ReadKeepsReading
<1>9. ASSUME NEW g \in Groups, NEW max \in Nat, Locate(g, max) PROVE Room' /\ Ready' /\ Reading'
  <2>1. pending' = pending /\ spc' = spc /\ log' = log
    BY <1>9 DEF Locate, senders, history
  <2> QED BY <1>0, <1>9, <2>1, StepsKeepRoom, LocateKeepsReading
<1>10. ASSUME NEW g \in Groups, NEW offset \in Nat, NEW ok \in BOOLEAN, Acknowledge(g, offset, ok)
       PROVE  Room' /\ Ready' /\ Reading'
  <2>1. pending' = pending /\ spc' = spc /\ log' = log
    BY <1>10 DEF Acknowledge, senders, history
  <2> QED BY <1>0, <1>10, <2>1, StepsKeepRoom, AcknowledgeKeepsReading
<1>11. ASSUME NEW g \in Groups, NEW offset \in Nat PROVE ~AcknowledgeFails(g, offset)
  BY DEF AcknowledgeFails
<1>12. CASE UNCHANGED vars
  <2>1. pending' = pending /\ spc' = spc /\ log' = log
    BY <1>12 DEF vars, senders, history
  <2>2. /\ offsets' = offsets /\ groups' = groups /\ position' = position
        /\ observers' = observers /\ next' = next /\ rpc' = rpc /\ last' = last /\ runs' = runs
    BY <1>12 DEF vars, disk, positions, receivers
  <2>3. Reading'
    BY <1>0, <2>1, <2>2 DEF Reading, InLog, Modes, Returns, Follow
  <2> QED BY <2>1, <2>3, StepsKeepRoom
<1>13. CASE Next
  BY <1>1, <1>2, <1>3, <1>4, <1>5, <1>6, <1>6a, <1>6b, <1>6c, <1>7, <1>8, <1>9, <1>10, <1>11,
     <1>13, NextIsSteps
<1> QED BY <1>12, <1>13

(* The strengthened invariant holds from the empty directory on. *)
LEMMA ReadingHolds ==
    ASSUME Failures \subseteq {"write", "create"}, Holders \intersect Observers = {}
    PROVE  Spec => []RInv
<1>1. Init => RInv
  <2> SUFFICES ASSUME Init PROVE RInv
    OBVIOUS
  <2>1. IInv
    BY InitKeeps
  <2>2. Underway = 0
    <3>1. \A s \in Senders : pending[s] = <<>>
      BY DEF Init
    <3> QED BY <3>1, NothingUnderway
  <2>3. log = <<>> /\ offsets = <<>> /\ groups = {} /\ next = [g \in Groups |-> 0]
        /\ spc = [s \in Senders |-> "idle"] /\ rpc = [g \in Groups |-> "closed"]
        /\ runs = [g \in Groups |-> <<>>] /\ last = [g \in Groups |-> Nothing]
    BY DEF Init
  <2>4. Len(log) = 0 /\ DOMAIN offsets = {}
    BY <2>3
  <2>5. Room
    BY <2>2, <2>4, BoundsAssumption DEF Room
  <2>6. Ready /\ InLog /\ Modes /\ Returns
    BY <2>3, <2>4 DEF Ready, InLog, Modes, Returns
  <2>7. Follow
    BY <2>3, NothingFollows DEF Follow
  <2> QED BY <2>1, <2>5, <2>6, <2>7 DEF RInv, Reading
<1>2. RInv /\ [Next]_vars => RInv'
  BY NextKeepsReading
<1> QED BY <1>1, <1>2, PTL DEF Spec

-----------------------------------------------------------------------------
(* Every step is a step of the promise or none.                             *)

(* What the promise sees of positions and receivers. *)
Places == [g \in Groups |-> IF g \in DOMAIN offsets THEN offsets[g] ELSE 0]
Live == {g \in Groups : rpc[g] # "closed"}

(* Steps that change none of what the promise speaks of. *)
LEMMA Stutters ==
    ASSUME offsets' = offsets, log' = log, observers' = observers, seen' = seen,
           Live' = Live, next' = next, skipped' = skipped, last' = last
    PROVE  UNCHANGED Promised!vars
BY DEF Live, Promised!vars, Promised!topicVars, Promised!readerVars

(* The calls of senders that take no batch, and those of receivers that     *)
(* only wait; opening, which finds positions where they were left.          *)
LEMMA OthersStutter ==
    ASSUME RInv, \/ Open
                 \/ \E s \in Senders : \/ \E batch \in Batches : Send(s, batch)
                                       \/ AwaitRoom(s) \/ Retry(s) \/ NotifyArrived(s)
                                       \/ Cancel(s) \/ WriteFails(s)
                 \/ \E g \in Groups : \/ ReceiveFails(g) \/ Recheck(g) \/ TimeOut(g)
                                      \/ NotifyReleased(g) \/ ReadFails(g)
    PROVE  UNCHANGED Promised!vars
<1>1. CASE Open
  <2>1. /\ offsets' = offsets /\ log' = log /\ observers' = observers /\ seen' = seen
        /\ rpc' = rpc /\ next' = next /\ skipped' = skipped /\ last' = last
    BY <1>1 DEF Open, receivers, history
  <2> QED BY <2>1, Stutters DEF Live
<1>2. ASSUME NEW s \in Senders,
             \/ \E batch \in Batches : Send(s, batch)
             \/ AwaitRoom(s) \/ Retry(s) \/ NotifyArrived(s) \/ Cancel(s) \/ WriteFails(s)
      PROVE  UNCHANGED Promised!vars
  <2>1. /\ offsets' = offsets /\ log' = log /\ observers' = observers /\ seen' = seen
        /\ rpc' = rpc /\ next' = next /\ skipped' = skipped /\ last' = last
    BY <1>2 DEF Send, AwaitRoom, Retry, NotifyArrived, Cancel, WriteFails,
                disk, positions, receivers, history
  <2> QED BY <2>1, Stutters DEF Live
<1>3. ASSUME NEW g \in Groups,
             ReceiveFails(g) \/ Recheck(g) \/ TimeOut(g) \/ NotifyReleased(g) \/ ReadFails(g)
      PROVE  UNCHANGED Promised!vars
  <2>1. /\ offsets' = offsets /\ log' = log /\ observers' = observers /\ seen' = seen
        /\ next' = next /\ skipped' = skipped /\ last' = last
    BY <1>3 DEF ReceiveFails, Recheck, TimeOut, NotifyReleased, ReadFails,
                disk, positions, history
  <2>2. Live' = Live
    <3>1. rpc \in [Groups -> ReceiverStates]
      BY DEF RInv, IInv, Types
    <3> QED BY <1>3, <3>1 DEF Live, ReceiveFails, Recheck, TimeOut, NotifyReleased, ReadFails
  <2> QED BY <2>1, <2>2, Stutters
<1> QED BY <1>1, <1>2, <1>3

(* A subscription or an observation joins: a new group at the end, a known  *)
(* one where its position on disk is.                                       *)
LEMMA ReceiverJoins ==
    ASSUME RInv, NEW g \in Groups, NEW asObserver \in BOOLEAN, Receiver(g, asObserver)
    PROVE  Promised!Join(g, asObserver)
<1> DEFINE at == IF g \in groups THEN position[g] ELSE End(segments)
           there == IF g \in DOMAIN offsets THEN Places[g] ELSE Len(log)
<1>1. /\ up /\ DOMAIN offsets = groups /\ groups \subseteq Groups
      /\ offsets \in [DOMAIN offsets -> Nat]
      /\ rpc \in [Groups -> ReceiverStates]
      /\ End(segments) = Len(log)
      /\ \A h \in groups : position[h] = offsets[h]
  <2>1. up
    BY DEF Receiver
  <2>2. Types /\ End(segments) = Len(log) /\ \A h \in groups : position[h] = offsets[h]
    BY <2>1 DEF RInv, Reading, InLog, IInv, InIndex, Kept
  <2> QED BY <2>1, <2>2 DEF Types
<1>2. at = there
  BY <1>1 DEF Places
<1>3. /\ offsets' = IF g \in groups THEN offsets ELSE With(offsets, g, at)
      /\ observers' = IF asObserver THEN observers \union {g} ELSE observers \ {g}
      /\ seen' = IF g \in groups THEN seen ELSE [seen EXCEPT ![g] = 0..(at - 1)]
      /\ rpc' = [rpc EXCEPT ![g] = "idle"]
      /\ next' = [next EXCEPT ![g] = at]
      /\ skipped' = [skipped EXCEPT ![g] = 0]
      /\ last' = [last EXCEPT ![g] = Nothing]
      /\ log' = log
  BY DEF Receiver, WriteGroup
<1> HIDE DEF at
<1>4. DOMAIN offsets' = DOMAIN offsets \union {g}
  <2>1. CASE g \in groups
    BY <1>1, <1>3, <2>1
  <2>2. CASE g \notin groups
    BY <1>1, <1>3, <2>2 DEF With
  <2> QED BY <2>1, <2>2
<1>5. Places' = [Places EXCEPT ![g] = there]
  <2>1. CASE g \in groups
    <3>1. Places' = Places /\ there = Places[g] /\ Places = [Places EXCEPT ![g] = Places[g]]
      BY <1>1, <1>3, <2>1 DEF Places
    <3> QED BY <3>1
  <2>2. CASE g \notin groups
    <3>1. offsets' = [h \in groups \union {g} |-> IF h = g THEN at ELSE offsets[h]]
      BY <1>1, <1>3, <2>2 DEF With
    <3>2. \A h \in Groups : Places'[h] = IF h = g THEN at ELSE Places[h]
      BY <1>1, <3>1 DEF Places
    <3> HIDE DEF there
    <3>3. Places' = [h \in Groups |-> IF h = g THEN there ELSE Places[h]]
      BY <1>2, <3>2 DEF Places
    <3> QED BY <3>3 DEF Places
  <2> QED BY <2>1, <2>2
<1>6. Live' = Live \union {g}
  BY <1>1, <1>3 DEF Live
<1>7. Nothing = Promised!Nothing
  BY DEF Nothing, Returned, Promised!Nothing, Promised!Returned
<1>8. /\ seen' = IF g \in DOMAIN offsets THEN seen ELSE [seen EXCEPT ![g] = 0..(there - 1)]
      /\ next' = [next EXCEPT ![g] = there]
  BY <1>1, <1>2, <1>3
<1> QED BY <1>3, <1>4, <1>5, <1>6, <1>7, <1>8 DEF Places, Live, Promised!Join

(* Leaving leaves; the receiver stays until it is dropped. *)
LEMMA UnsubscribeLeaves ==
    ASSUME RInv, NEW g \in Groups, Unsubscribe(g)
    PROVE  Promised!Leave(g)
<1>1. /\ observers' = observers \ {g} /\ seen' = [seen EXCEPT ![g] = {}]
      /\ offsets' = IF g \in groups THEN Restrict(offsets, DOMAIN offsets \ {g}) ELSE offsets
      /\ rpc' = rpc /\ next' = next /\ skipped' = skipped /\ last' = last /\ log' = log
  BY DEF Unsubscribe, receivers
<1>2. DOMAIN offsets = groups
  BY DEF Unsubscribe, RInv, IInv, Types
<1>3. DOMAIN offsets' = groups \ {g} /\ \A h \in groups \ {g} : offsets'[h] = offsets[h]
  <2>1. CASE g \in groups
    BY <1>1, <1>2, <2>1 DEF Restrict
  <2>2. CASE g \notin groups
    BY <1>1, <1>2, <2>2
  <2> QED BY <2>1, <2>2
<1>4. Places' = [Places EXCEPT ![g] = 0]
  BY <1>2, <1>3 DEF Places
<1> QED BY <1>1, <1>2, <1>3, <1>4 DEF Places, Promised!Leave, Promised!readerVars

(* What a sender holds has a place in the log. *)
LEMMA RoomForOne ==
    ASSUME RInv, NEW s \in Senders PROVE Len(log) + Len(pending[s]) <= MaxLog
<1>1. Underway \in Nat /\ Len(pending[s]) <= Underway /\ Len(log) + Underway <= MaxLog
  BY UnderwayIsMore DEF RInv, IInv, Room
<1>2. Len(log) \in Nat /\ Len(pending[s]) \in Nat
  BY DEF RInv, IInv, Types
<1>3. PICK l \in Nat, p \in Nat, u \in Nat : l = Len(log) /\ p = Len(pending[s]) /\ u = Underway
  BY <1>1, <1>2
<1> QED BY <1>1, <1>3, BoundsAssumption

(* A batch a sender finds room for is sent, and so is one that is in its    *)
(* file when the next segment cannot be started.                            *)
LEMMA TakenIsSent ==
    ASSUME RInv, NEW s \in Senders, RollFails(s) \/ \E ok \in BOOLEAN : TakeBatch(s, ok)
    PROVE  Promised!Send(pending[s]) /\ pending[s] \in Batches
<1>1. /\ spc[s] = "registered" /\ log' = log \o pending[s]
      /\ offsets' = offsets /\ positions' = positions /\ receivers' = receivers /\ seen' = seen
  BY DEF RollFails, TakeBatch
<1>2. pending[s] \in Batches
  BY <1>1 DEF RInv, Ready
<1>3. Len(log) + Len(pending[s]) <= MaxLog
  BY RoomForOne
<1> QED
  BY <1>1, <1>2, <1>3 DEF positions, receivers, Promised!Send, Promised!readerVars

(* A process that ends is one that starts again, with what it wrote of a    *)
(* batch.                                                                   *)
LEMMA LostRestarts ==
    ASSUME RInv, Lost, offsets' = offsets, seen' = seen,
           NEW part, log' = log \o part, Len(log) + Len(part) <= MaxLog
    PROVE  Promised!Restart(part)
<1>1. Live' = {}
  BY DEF Lost, Live
<1>2. Nothing = Promised!Nothing
  BY DEF Nothing, Returned, Promised!Nothing, Promised!Returned
<1> QED BY <1>1, <1>2 DEF Lost, Live, Promised!Restart, Promised!NoReceivers

(* Whether it ends between two steps or in the middle of a write. *)
LEMMA CrashRestarts ==
    ASSUME RInv, Crash \/ \E s \in Senders : CrashWriting(s) \/ CrashReleasing(s)
    PROVE  \E part \in Promised!Batches \union {<<>>} : Promised!Restart(part)
<1>0. IInv /\ Types /\ log \in Seq(Payloads) /\ Len(log) \in Nat
  BY DEF RInv, IInv, Types
<1>1. CASE Crash
  <2>1. Lost /\ offsets' = offsets /\ seen' = seen /\ log' = log
    BY <1>1 DEF Crash, disk, history
  <2>2. log' = log \o <<>> /\ Len(<<>>) = 0
    BY <1>0, <2>1
  <2>3. Len(log) + Len(<<>>) <= MaxLog
    <3>1. Len(log) <= MaxLog
      BY <1>0, LogFits DEF RInv
    <3> QED BY <1>0, <2>2, <3>1
  <2>4. Promised!Restart(<<>>)
    BY <2>1, <2>2, <2>3, LostRestarts
  <2> QED BY <2>4
<1>2. ASSUME NEW s \in Senders, CrashWriting(s)
      PROVE  \E part \in Promised!Batches \union {<<>>} : Promised!Restart(part)
  <2>1. Lost /\ offsets' = offsets /\ seen' = seen
    BY <1>2 DEF CrashWriting
  <2>2. PICK part \in Seq(Payloads) : /\ log' = log \o part /\ Len(part) <= Len(pending[s])
                                      /\ Len(part) <= MaxBatch
    BY <1>0, <1>2, CrashWritingLengthens
  <2>3. Len(log) + Len(part) <= MaxLog
    <3>1. Underway \in Nat /\ Len(pending[s]) <= Underway /\ Len(log) + Underway <= MaxLog
      BY UnderwayIsMore DEF RInv, IInv, Room
    <3>2. Len(part) \in Nat /\ Len(pending[s]) \in Nat
      BY <1>0 DEF Types
    <3>3. PICK l \in Nat, n \in Nat, p \in Nat, u \in Nat :
              l = Len(log) /\ n = Len(part) /\ p = Len(pending[s]) /\ u = Underway
      BY <1>0, <3>1, <3>2
    <3> QED BY <2>2, <3>1, <3>3, BoundsAssumption
  <2>4. Promised!Restart(part)
    BY <2>1, <2>2, <2>3, LostRestarts
  <2>5. part \in Promised!Batches \union {<<>>}
    <3>1. CASE Len(part) = 0
      BY <3>1
    <3>2. CASE Len(part) > 0
      BY <2>2, <3>2, IsBatch DEF Batches, Promised!Batches
    <3>3. Len(part) \in Nat
      OBVIOUS
    <3> QED BY <3>1, <3>2, <3>3
  <2> QED BY <2>4, <2>5
<1>3. ASSUME NEW s \in Senders, CrashReleasing(s)
      PROVE  \E part \in Promised!Batches \union {<<>>} : Promised!Restart(part)
  <2>1. /\ Lost /\ offsets' = offsets /\ seen' = seen /\ spc[s] = "registered"
        /\ log' = log \o pending[s]
    BY <1>0, <1>3, CrashReleasingIs
  <2>2. pending[s] \in Promised!Batches
    BY <2>1 DEF RInv, Ready, Batches, Promised!Batches
  <2>3. Len(log) + Len(pending[s]) <= MaxLog
    BY RoomForOne
  <2>4. Promised!Restart(pending[s])
    BY <2>1, <2>3, LostRestarts
  <2> QED BY <2>2, <2>4
<1> QED BY <1>1, <1>2, <1>3

(* What a process that ends was asked to acknowledge or to leave may be     *)
(* done.                                                                    *)
LEMMA CrashLeaves ==
    ASSUME RInv, NEW g \in Groups, CrashUnsubscribing(g)
    PROVE  Promised!RestartLeaving(g)
<1>0. IInv
  BY DEF RInv
<1>1. /\ Lost /\ log' = log /\ seen' = [seen EXCEPT ![g] = {}]
      /\ DOMAIN offsets = groups /\ DOMAIN offsets' = groups \ {g}
      /\ \A h \in groups \ {g} : offsets'[h] = offsets[h]
  BY <1>0, CrashUnsubscribingIs
<1>2. Places' = [Places EXCEPT ![g] = 0]
  BY <1>1 DEF Places
<1>3. Live' = {}
  BY <1>1 DEF Lost, Live
<1>4. Nothing = Promised!Nothing
  BY DEF Nothing, Returned, Promised!Nothing, Promised!Returned
<1> QED BY <1>1, <1>2, <1>3, <1>4 DEF Lost, Live, Places, Promised!RestartLeaving,
                                      Promised!NoReceivers

LEMMA CrashAcknowledges ==
    ASSUME RInv, NEW g \in Groups, NEW offset \in Nat, CrashAcknowledging(g, offset)
    PROVE  offset \in 0..(MaxLog - 1) /\ Promised!RestartAcknowledging(g, offset)
<1>0. IInv
  BY DEF RInv
<1>1. /\ Lost /\ log' = log /\ seen' = seen
      /\ g \in groups /\ rpc[g] = "idle" /\ offset < next[g] /\ offset >= position[g]
      /\ DOMAIN offsets = groups
      /\ offsets' = [h \in groups |-> IF h = g THEN offset + 1 ELSE offsets[h]]
  BY <1>0, CrashAcknowledgingIs
<1>2. /\ next \in [Groups -> Nat] /\ position \in [Groups -> Nat] /\ groups \subseteq Groups
      /\ Len(log) \in Nat
  BY <1>0 DEF IInv, Types
<1>3. position[g] = offsets[g] /\ next[g] <= Len(log)
  BY <1>1 DEF RInv, Reading, InLog
<1>4. offset \in 0..(MaxLog - 1)
  <2>1. Len(log) <= MaxLog
    BY <1>0, LogFits DEF RInv, IInv
  <2>2. PICK n \in Nat, l \in Nat : n = next[g] /\ l = Len(log)
    BY <1>2
  <2> QED BY <1>1, <1>3, <2>1, <2>2, BoundsAssumption
<1>5. Places[g] = offsets[g] /\ Promised!Larger(Places[g], offset + 1) = offset + 1
  <2>1. Places[g] = offsets[g]
    BY <1>1 DEF Places
  <2>2. PICK p \in Nat : p = Places[g] /\ offset >= p
    BY <1>1, <1>2, <1>3, <2>1
  <2> QED BY <2>1, <2>2 DEF Promised!Larger
<1>6. Places' = [Places EXCEPT ![g] = Promised!Larger(@, offset + 1)]
  <2>1. \A h \in Groups : Places'[h] = IF h = g THEN offset + 1 ELSE Places[h]
    BY <1>1 DEF Places
  <2>2. Places' = [h \in Groups |-> IF h = g THEN offset + 1 ELSE Places[h]]
    BY <2>1 DEF Places
  <2> QED BY <1>5, <2>2 DEF Places
<1>7. Live' = {} /\ g \in Live
  BY <1>1 DEF Lost, Live
<1>8. Nothing = Promised!Nothing
  BY DEF Nothing, Returned, Promised!Nothing, Promised!Returned
<1>9. DOMAIN offsets' = DOMAIN offsets /\ g \in DOMAIN offsets
  BY <1>1
<1>10. Promised!NoReceivers
  BY <1>1, <1>7, <1>8 DEF Lost, Live, Promised!NoReceivers
<1>11. Promised!RestartAcknowledging(g, offset)
  BY <1>1, <1>6, <1>7, <1>9, <1>10 DEF Places, Live, Promised!RestartAcknowledging,
                                       Promised!Received
<1> QED BY <1>4, <1>11

(* A receiver that is moved past what is gone has received nothing more; a  *)
(* group that holds the topic is moved past nothing.                        *)
LEMMA LocateSkips ==
    ASSUME RInv, Holders \intersect Observers = {}, NEW g \in Groups, NEW max \in Nat,
           Locate(g, max)
    PROVE  Promised!Receive(g) \/ UNCHANGED Promised!vars
<1> DEFINE from == From(g)
<1>1. /\ rpc[g] = "registered" /\ g \in groups
      /\ next' = [next EXCEPT ![g] = from]
      /\ skipped' = IF g \in observers THEN [skipped EXCEPT ![g] = @ + (from - next[g])]
                                       ELSE skipped
      /\ \E to \in {"reading", "waiting"} : rpc' = [rpc EXCEPT ![g] = to]
      /\ offsets' = offsets /\ observers' = observers /\ last' = last /\ log' = log /\ seen' = seen
  BY DEF Locate, disk, positions, history
<1>2. /\ rpc \in [Groups -> ReceiverStates] /\ next \in [Groups -> Nat]
      /\ skipped \in [Groups -> Nat] /\ seen \in [Groups -> SUBSET Nat]
      /\ position \in [Groups -> Nat] /\ groups \subseteq Groups /\ log \in Seq(Payloads)
      /\ (~up => groups = {})
  BY DEF RInv, IInv, Types
<1>3. up /\ Chain(segments) /\ End(segments) = Len(log)
  BY <1>1, <1>2 DEF RInv, IInv, InIndex, Kept, Lists
<1>4. Base(segments) \in Nat /\ End(segments) \in Nat /\ Base(segments) <= End(segments)
  BY <1>3, Chained
<1>5. from \in Nat /\ next[g] <= from /\ from <= Len(log) /\ Len(log) \in Nat
  <2>1. next[g] \in Nat /\ next[g] <= Len(log)
    BY <1>2 DEF RInv, Reading, InLog
  <2> QED BY <1>3, <1>4, <2>1 DEF From, Larger
<1>6. Live' = Live /\ g \in Live
  BY <1>1, <1>2 DEF Live
<1>7. last[g] = Nothing /\ last = [h \in Groups |-> last[h]]
  BY <1>1 DEF RInv, Reading, Returns
<1>8. CASE g \in observers
  <2> HIDE DEF from
  <2>1. SubSeq(log, from + 1, from) = <<>>
    BY <1>2, <1>5
  <2>2. Promised!Returned(from, SubSeq(log, from + 1, from)) = Nothing
    BY <2>1 DEF Promised!Returned, Nothing, Returned
  <2>3. last' = [last EXCEPT ![g] = Promised!Returned(from, SubSeq(log, from + 1, from))]
    BY <1>1, <1>7, <2>2
  <2>4. seen' = [seen EXCEPT ![g] = IF g \in observers THEN @ ELSE @ \union from..(from - 1)]
    BY <1>1, <1>2, <1>8
  <2>5. skipped' = [skipped EXCEPT ![g] = @ + (from - next[g])]
    BY <1>1, <1>8
  <2>6. from \in next[g]..Len(log) /\ from \in from..Len(log)
    BY <1>2, <1>5
  <2>7. Promised!Receive(g)
    BY <1>1, <1>6, <1>8, <2>3, <2>4, <2>5, <2>6 DEF Live, Promised!Receive
  <2> QED BY <2>7
<1>9. CASE g \notin observers
  <2>1. g \in Holding
    BY <1>1, <1>9 DEF RInv, Reading, Modes, Holding
  <2>2. Base(segments) <= position[g] /\ position[g] <= next[g]
    BY <1>1, <1>3, <2>1 DEF RInv, IInv, Positions, Caught
  <2>3. from = next[g]
    BY <1>2, <1>4, <2>2 DEF From, Larger
  <2>4. next' = next
    BY <1>1, <1>2, <2>3
  <2> QED BY <1>1, <1>6, <1>9, <2>4, Stutters
<1> QED BY <1>8, <1>9

(* A read returns the records of the log from where it was. *)
LEMMA ReadReceives ==
    ASSUME RInv, NEW g \in Groups, Read(g)
    PROVE  Promised!Receive(g)
<1>1. PICK to \in Nat : /\ next[g] <= to /\ to <= Len(log)
                        /\ next' = [next EXCEPT ![g] = to]
                        /\ last' = [last EXCEPT ![g] =
                                      Returned(next[g], SubSeq(log, next[g] + 1, to))]
                        /\ seen' = [seen EXCEPT ![g] = IF g \in observers THEN @
                                                       ELSE @ \union next[g]..(to - 1)]
  BY ReadIsThere DEF RInv
<1>2. /\ rpc[g] = "reading" /\ rpc' = [rpc EXCEPT ![g] = "idle"] /\ skipped' = skipped
      /\ offsets' = offsets /\ observers' = observers /\ log' = log
  BY DEF Read, disk, positions
<1>3. /\ rpc \in [Groups -> ReceiverStates] /\ next \in [Groups -> Nat]
      /\ skipped \in [Groups -> Nat] /\ log \in Seq(Payloads) /\ Len(log) \in Nat
  BY DEF RInv, IInv, Types
<1>4. Live' = Live /\ g \in Live
  BY <1>2, <1>3 DEF Live
<1>5. PICK from \in Nat : from = next[g]
  BY <1>3
<1>6. from \in next[g]..Len(log) /\ to \in from..Len(log)
  BY <1>1, <1>3, <1>5
<1>7. skipped' = [skipped EXCEPT ![g] = @ + (from - next[g])]
  <2>1. from - next[g] = 0 /\ skipped[g] + 0 = skipped[g]
    BY <1>3, <1>5
  <2> QED BY <1>2, <1>3, <2>1
<1>8. /\ last' = [last EXCEPT ![g] = Promised!Returned(from, SubSeq(log, from + 1, to))]
      /\ seen' = [seen EXCEPT ![g] = IF g \in observers THEN @ ELSE @ \union from..(to - 1)]
  BY <1>1, <1>5 DEF Returned, Promised!Returned
<1> QED BY <1>1, <1>2, <1>4, <1>5, <1>6, <1>7, <1>8 DEF Live, Promised!Receive

(* A call of receive, and one of skipped. *)
LEMMA CallsAreCalls ==
    ASSUME RInv, NEW g \in Groups
    PROVE  /\ Receive(g) => Promised!Call(g)
           /\ TakeSkipped(g) => Promised!TakeSkipped(g)
<1>1. rpc \in [Groups -> ReceiverStates]
  BY DEF RInv, IInv, Types
<1>2. ASSUME Receive(g) PROVE Promised!Call(g)
  <2>1. Live' = Live /\ g \in Live
    BY <1>1, <1>2 DEF Receive, Live
  <2>2. Nothing = Promised!Nothing
    BY DEF Nothing, Returned, Promised!Nothing, Promised!Returned
  <2> QED BY <1>2, <2>1, <2>2 DEF Receive, Live, disk, positions, history, Promised!Call,
                                  Promised!topicVars
<1>3. ASSUME TakeSkipped(g) PROVE Promised!TakeSkipped(g)
  <2>1. Live' = Live /\ g \in Live
    BY <1>1, <1>3 DEF TakeSkipped, Live
  <2> QED BY <1>3, <2>1 DEF TakeSkipped, Live, disk, positions, history, Promised!TakeSkipped,
                            Promised!topicVars
<1> QED BY <1>2, <1>3

(* An acknowledgement is one, whatever it deletes. *)
LEMMA AcknowledgeAcknowledges ==
    ASSUME RInv, NEW g \in Groups, NEW offset \in Nat, NEW ok \in BOOLEAN,
           Acknowledge(g, offset, ok)
    PROVE  offset \in 0..(MaxLog - 1) /\ Promised!Acknowledge(g, offset)
<1>1. /\ rpc[g] = "idle" /\ g \in groups /\ offset < next[g] /\ offset >= position[g]
      /\ offsets' = With(offsets, g, offset + 1)
      /\ rpc' = [rpc EXCEPT ![g] = IF ok THEN "released" ELSE "idle"]
      /\ observers' = observers /\ next' = next /\ skipped' = skipped /\ last' = last
      /\ log' = log /\ seen' = seen
  BY DEF Acknowledge, WriteGroup, Received, history
<1>2. /\ rpc \in [Groups -> ReceiverStates] /\ next \in [Groups -> Nat]
      /\ position \in [Groups -> Nat] /\ groups \subseteq Groups /\ log \in Seq(Payloads)
      /\ (up => DOMAIN offsets = groups) /\ (~up => groups = {}) /\ Len(log) \in Nat
  BY DEF RInv, IInv, Types
<1>3. DOMAIN offsets = groups /\ groups \union {g} = groups
  BY <1>1, <1>2
<1>4. position[g] = offsets[g] /\ next[g] <= Len(log)
  BY <1>1 DEF RInv, Reading, InLog
<1>5. offset \in 0..(MaxLog - 1)
  <2>1. Len(log) <= MaxLog
    BY LogFits DEF RInv, IInv
  <2>2. PICK n \in Nat, l \in Nat : n = next[g] /\ l = Len(log)
    BY <1>2
  <2> QED BY <1>1, <1>4, <2>1, <2>2, BoundsAssumption
<1>6. Live' = Live /\ g \in Live
  BY <1>1, <1>2 DEF Live
<1>7. offsets' = [h \in groups |-> IF h = g THEN offset + 1 ELSE offsets[h]]
  BY <1>1, <1>3 DEF With
<1>8. Places[g] = offsets[g] /\ Promised!Larger(Places[g], offset + 1) = offset + 1
  <2>1. Places[g] = offsets[g]
    BY <1>1, <1>3 DEF Places
  <2>2. PICK p \in Nat : p = Places[g] /\ offset >= p
    BY <1>1, <1>2, <1>4, <2>1
  <2> QED BY <2>1, <2>2 DEF Promised!Larger
<1>9. Places' = [Places EXCEPT ![g] = Promised!Larger(@, offset + 1)]
  <2>1. \A h \in Groups : Places'[h] = IF h = g THEN offset + 1 ELSE Places[h]
    BY <1>1, <1>3, <1>7 DEF Places
  <2>2. Places' = [h \in Groups |-> IF h = g THEN offset + 1 ELSE Places[h]]
    BY <2>1 DEF Places
  <2> QED BY <1>8, <2>2 DEF Places
<1>10. Promised!Acknowledge(g, offset)
  <2>1. DOMAIN offsets' = DOMAIN offsets /\ g \in DOMAIN offsets
    BY <1>1, <1>3, <1>7
  <2> QED BY <1>1, <1>6, <1>9, <2>1 DEF Places, Live, Promised!Acknowledge, Promised!Received,
                                        Promised!readerVars
<1> QED BY <1>5, <1>10

(* The files on disk keep the promise of goliath-pipe, across crashes and   *)
(* writes that fail: what segments, index and positions do is the log that  *)
(* every role relies on.  No position may be left written by a call that    *)
(* failed, since the next acknowledgement may lower it.                     *)
THEOREM FilesKeepThePromise ==
    ASSUME Failures \subseteq {"write", "create"}, Holders \intersect Observers = {}
    PROVE  Spec => KeepsThePromise
<1>1. Init => Promised!Init
  <2> SUFFICES ASSUME Init PROVE Promised!Init
    OBVIOUS
  <2>1. DOMAIN offsets = {} /\ Places = [g \in Groups |-> 0] /\ Live = {}
    BY DEF Init, Places, Live
  <2> QED BY <2>1 DEF Init, Places, Live, Nothing, Returned,
                      Promised!Init, Promised!Nothing, Promised!Returned
<1>2. RInv /\ [Next]_vars => [Promised!Next]_(Promised!vars)
  <2> SUFFICES ASSUME RInv, [Next]_vars PROVE Promised!Next \/ UNCHANGED Promised!vars
    BY DEF Promised!vars
  <2>1. CASE Open
    BY <2>1, OthersStutter
  <2>2. CASE Crash \/ \E s \in Senders : CrashWriting(s) \/ CrashReleasing(s)
    BY <2>2, CrashRestarts DEF Promised!Next
  <2>2a. ASSUME NEW g \in Groups, CrashUnsubscribing(g) PROVE Promised!Next
    BY <2>2a, CrashLeaves DEF Promised!Next
  <2>2b. ASSUME NEW g \in Groups, NEW offset \in Nat, CrashAcknowledging(g, offset)
         PROVE  Promised!Next
    BY <2>2b, CrashAcknowledges DEF Promised!Next
  <2>3. ASSUME NEW g \in Groups, NEW asObserver \in BOOLEAN,
               IF asObserver THEN g \in Observers ELSE g \in Holders, Receiver(g, asObserver)
        PROVE  Promised!Next
    <3>1. Promised!Join(g, asObserver)
      BY <2>3, ReceiverJoins
    <3>2. CASE asObserver = TRUE
      BY <2>3, <3>1, <3>2 DEF Promised!Next
    <3>3. CASE asObserver = FALSE
      BY <2>3, <3>1, <3>3 DEF Promised!Next
    <3> QED BY <3>2, <3>3
  <2>4. ASSUME NEW g \in Groups, Unsubscribe(g) PROVE Promised!Next
    BY <2>4, UnsubscribeLeaves DEF Promised!Next
  <2>5. ASSUME NEW s \in Senders,
               \/ \E batch \in Batches : Send(s, batch)
               \/ AwaitRoom(s) \/ Retry(s) \/ NotifyArrived(s) \/ Cancel(s) \/ WriteFails(s)
        PROVE  UNCHANGED Promised!vars
    BY <2>5, OthersStutter
  <2>6. ASSUME NEW s \in Senders, RollFails(s) \/ \E ok \in BOOLEAN : TakeBatch(s, ok)
        PROVE  Promised!Next
    <3>1. pending[s] \in Promised!Batches /\ Promised!Send(pending[s])
      BY <2>6, TakenIsSent DEF Batches, Promised!Batches
    <3> QED BY <3>1 DEF Promised!Next
  <2>7. ASSUME NEW g \in Groups,
               ReceiveFails(g) \/ Recheck(g) \/ TimeOut(g) \/ NotifyReleased(g) \/ ReadFails(g)
        PROVE  UNCHANGED Promised!vars
    BY <2>7, OthersStutter
  <2>8. ASSUME NEW g \in Groups, Receive(g) \/ TakeSkipped(g) PROVE Promised!Next
    BY <2>8, CallsAreCalls DEF Promised!Next
  <2>9. ASSUME NEW g \in Groups, Read(g) PROVE Promised!Next
    BY <2>9, ReadReceives DEF Promised!Next
  <2>10. ASSUME NEW g \in Groups, NEW max \in Nat, Locate(g, max)
         PROVE  Promised!Next \/ UNCHANGED Promised!vars
    <3>1. Promised!Receive(g) \/ UNCHANGED Promised!vars
      BY <2>10, LocateSkips
    <3> QED BY <3>1 DEF Promised!Next
  <2>11. ASSUME NEW g \in Groups, NEW offset \in Nat, NEW ok \in BOOLEAN,
                Acknowledge(g, offset, ok)
         PROVE  Promised!Next
    BY <2>11, AcknowledgeAcknowledges DEF Promised!Next
  <2>12. ASSUME NEW g \in Groups, NEW offset \in Nat PROVE ~AcknowledgeFails(g, offset)
    BY DEF AcknowledgeFails
  <2>13. CASE UNCHANGED vars
    <3>1. /\ offsets' = offsets /\ log' = log /\ observers' = observers /\ seen' = seen
          /\ rpc' = rpc /\ next' = next /\ skipped' = skipped /\ last' = last
      BY <2>13 DEF vars, disk, positions, receivers, history
    <3> QED BY <3>1, Stutters DEF Live
  <2>14. CASE Next
    BY <2>1, <2>2, <2>2a, <2>2b, <2>3, <2>4, <2>5, <2>6, <2>7, <2>8, <2>9, <2>10, <2>11, <2>12,
       <2>14, NextIsSteps
  <2> QED BY <2>13, <2>14
<1> QED BY <1>1, <1>2, ReadingHolds, PTL DEF Spec, KeepsThePromise, Promised!Spec
-----------------------------------------------------------------------------
(* Wakeups.  Room is made by acknowledgements only, and each is announced,  *)
(* where the groups that are there when a record is sent stay, none of them *)
(* observes, a caller waits for his call to end, and a batch that is in the *)
(* log is not reported as failed: without one of these there is a behaviour *)
(* in which a sleeper is forgotten (see README.md).                         *)
Waking ==
    /\ Failures \subseteq {"write", "offset"} /\ Cancels = FALSE
    /\ Observers = {} /\ Standing # {} /\ (AsProgram \/ Standing = Groups)

Served == \A s \in Senders : spc[s] # "idle" => Standing \subseteq groups

WInv == IInv /\ Served /\ NoMissedRelease /\ NoMissedArrival

(* What the topic holds for its groups now. *)
HeldNow == BytesFrom(segments, Floor(segments, groups, observers, position))

(* The process ended, and the steps that end it. *)
Ends ==
    /\ groups' = {} /\ \A g \in Groups : rpc'[g] = "closed"
    /\ \A s \in Senders : spc'[s] = "idle"

Ending ==
    \/ Crash \/ \E s \in Senders : CrashWriting(s) \/ CrashReleasing(s)
    \/ \E g \in Groups : CrashUnsubscribing(g)
    \/ \E g \in Groups, offset \in Nat : CrashAcknowledging(g, offset)

(* The steps of senders and receivers that matter to those that wait. *)
LEMMA SendersAre ==
    ASSUME Waking, Types, InIndex, NEW s \in Senders,
           \/ \E batch \in Batches : Send(s, batch)
           \/ AwaitRoom(s) \/ Retry(s) \/ NotifyArrived(s) \/ Cancel(s) \/ WriteFails(s)
    PROVE  UNCHANGED <<positions, up, segments, rpc, next, log>>
<1>1. Tolerated
  BY DEF Waking, Tolerated
<1>2. Sends
  BY <1>1, SendsAre
<1> QED BY <1>2 DEF Sends, index, history

LEMMA ReceiversAre ==
    ASSUME NEW g \in Groups,
           \/ Receive(g) \/ ReceiveFails(g) \/ Recheck(g) \/ TimeOut(g)
           \/ NotifyReleased(g) \/ TakeSkipped(g) \/ ReadFails(g) \/ Read(g)
           \/ \E max \in Nat : Locate(g, max)
           \/ \E offset \in Nat : AcknowledgeFails(g, offset)
    PROVE  UNCHANGED <<positions, up, segments, spc, pending, log>>
BY DEF Receive, ReceiveFails, Recheck, TimeOut, NotifyReleased, TakeSkipped, ReadFails, Read,
       Locate, AcknowledgeFails, index, senders, history

LEMMA TakersAre ==
    ASSUME Waking, NEW s \in Senders,
           RollFails(s) \/ \E ok \in BOOLEAN : TakeBatch(s, ok)
    PROVE  /\ UNCHANGED <<positions, up, swoken, receivers>>
           /\ spc' = [spc EXCEPT ![s] = "appended"] /\ spc[s] = "registered"
           /\ pending' = [pending EXCEPT ![s] = <<>>]
           /\ log' = log \o pending[s]
<1>1. {"create", "sync", "remove"} \intersect Failures = {}
  BY DEF Waking
<1>2. CASE RollFails(s)
  BY <1>1, <1>2 DEF RollFails
<1>3. ASSUME NEW ok \in BOOLEAN, TakeBatch(s, ok)
      PROVE  /\ UNCHANGED <<positions, up, swoken, receivers>>
             /\ spc' = [spc EXCEPT ![s] = "appended"] /\ spc[s] = "registered"
             /\ pending' = [pending EXCEPT ![s] = <<>>]
             /\ log' = log \o pending[s]
  <2>1. ok
    BY <1>1, <1>3 DEF TakeBatch, Release
  <2> QED BY <1>3, <2>1 DEF TakeBatch
<1> QED BY <1>2, <1>3

LEMMA EndsAre == Ending => Ends
BY DEF Ending, Crash, CrashWriting, CrashReleasing, CrashUnsubscribing, CrashAcknowledging,
       EndsReleasing, Lost, Ends

(* An acknowledgement that reached the memory is announced, as release ends *)
(* well.                                                                    *)
LEMMA AcknowledgeAnnounces ==
    ASSUME Waking, Types, NEW g \in Groups, NEW offset \in Nat, NEW ok \in BOOLEAN,
           Acknowledge(g, offset, ok)
    PROVE  /\ rpc[g] = "idle" /\ rpc' = [rpc EXCEPT ![g] = "released"]
           /\ UNCHANGED <<groups, observers, up, senders, next, rwoken, log>>
<1>1. ok
  BY DEF Waking, Acknowledge, Release
<1> QED BY <1>1 DEF Acknowledge, history

(* Without observers the floor is the least position, if there is any. *)
LEMMA FloorOfHolders ==
    ASSUME NEW segs, NEW mine \in SUBSET Groups, mine # {}, NEW at \in [Groups -> Nat]
    PROVE  /\ \E g \in mine : Floor(segs, mine, {}, at) = at[g]
           /\ \A g \in mine : Floor(segs, mine, {}, at) <= at[g]
<1> DEFINE S == {at[g] : g \in mine}
<1>1. S \in SUBSET Nat /\ S # {} /\ mine \ {} = mine
  OBVIOUS
<1>2. Min(S) \in S /\ \A y \in S : Min(S) <= y
  BY <1>1, MinIs
<1>3. Floor(segs, mine, {}, at) = Min(S)
  BY <1>1 DEF Floor
<1> QED BY <1>2, <1>3

(* Groups stay, and none that is new lowers the floor: a step that does not *)
(* announce room leaves the positions of the groups, and the log only gets  *)
(* longer.                                                                  *)
LEMMA GroupsStay ==
    ASSUME Waking, Types, InIndex, [Next]_vars, groups # {}
    PROVE  \/ Ends
           \/ \E g \in Groups : rpc'[g] = "released" /\ groups \subseteq groups'
           \/ /\ groups \subseteq groups' /\ Len(log') >= Len(log)
              /\ \A g \in groups : position'[g] = position[g]
<1>0. /\ up /\ log \in Seq(Payloads) /\ groups \subseteq Groups
      /\ position \in [Groups -> Nat] /\ rpc \in [Groups -> ReceiverStates]
      /\ pending \in [Senders -> Seq(Payloads)]
  BY DEF Types
<1>1. Len(log) >= Len(log)
  BY <1>0
<1>2. CASE Open
  BY <1>0, <1>2 DEF Open
<1>3. CASE Ending
  BY <1>3, EndsAre
<1>4. ASSUME NEW g \in Groups, NEW asObserver \in BOOLEAN, Receiver(g, asObserver)
      PROVE  /\ groups \subseteq groups' /\ log' = log
             /\ \A h \in groups : position'[h] = position[h]
  BY <1>0, <1>4 DEF Receiver
<1>5. ASSUME NEW g \in Groups, Unsubscribe(g)
      PROVE  FALSE
  BY <1>5 DEF Unsubscribe, Waking
<1>6. ASSUME NEW s \in Senders,
             \/ \E batch \in Batches : Send(s, batch)
             \/ AwaitRoom(s) \/ Retry(s) \/ NotifyArrived(s) \/ Cancel(s) \/ WriteFails(s)
      PROVE  UNCHANGED <<groups, position, log>>
  BY <1>6, SendersAre DEF positions
<1>7. ASSUME NEW s \in Senders, RollFails(s) \/ \E ok \in BOOLEAN : TakeBatch(s, ok)
      PROVE  UNCHANGED <<groups, position>> /\ Len(log') >= Len(log)
  <2>1. UNCHANGED positions /\ log' = log \o pending[s] /\ pending[s] \in Seq(Payloads)
    BY <1>0, <1>7, TakersAre
  <2>2. Len(log \o pending[s]) >= Len(log)
    BY <1>0, <2>1
  <2> QED BY <2>1, <2>2 DEF positions
<1>8. ASSUME NEW g \in Groups,
             \/ Receive(g) \/ ReceiveFails(g) \/ Recheck(g) \/ TimeOut(g)
             \/ NotifyReleased(g) \/ TakeSkipped(g) \/ ReadFails(g) \/ Read(g)
             \/ \E max \in Nat : Locate(g, max)
             \/ \E offset \in Nat : AcknowledgeFails(g, offset)
      PROVE  UNCHANGED <<groups, position, log>>
  BY <1>8, ReceiversAre DEF positions
<1>9. ASSUME NEW g \in Groups, NEW offset \in Nat, NEW ok \in BOOLEAN, Acknowledge(g, offset, ok)
      PROVE  rpc'[g] = "released" /\ groups' = groups
  <2>1. rpc' = [rpc EXCEPT ![g] = "released"] /\ groups' = groups
    BY <1>9, AcknowledgeAnnounces
  <2> QED BY <1>0, <2>1
<1>10. CASE UNCHANGED vars
  BY <1>1, <1>10 DEF vars, positions, history
<1>11. CASE Next
  BY <1>1, <1>2, <1>3, <1>4, <1>5, <1>6, <1>7, <1>8, <1>9, <1>11, NextIsSteps DEF Ending
<1> QED BY <1>10, <1>11

(* So the topic holds no less after a step, unless somebody is about to     *)
(* wake those that wait, or the process ended.                              *)
LEMMA RoomIsAnnounced ==
    ASSUME Waking, IInv, IInv', [Next]_vars, groups # {}
    PROVE  \/ HeldNow \in Nat /\ HeldNow' \in Nat /\ HeldNow' >= HeldNow
           \/ \E g \in Groups : rpc'[g] = "released"
           \/ Ends
<1> SUFFICES ASSUME ~Ends, ~\E g \in Groups : rpc'[g] = "released"
             PROVE  HeldNow \in Nat /\ HeldNow' \in Nat /\ HeldNow' >= HeldNow
  OBVIOUS
<1> DEFINE F == Floor(segments, groups, {}, position)
           G == Floor(segments', groups', {}, position')
<1>1. Types /\ InIndex /\ Positions /\ Types' /\ InIndex' /\ Positions'
  BY DEF IInv
<1>2. /\ groups \subseteq groups' /\ Len(log') >= Len(log)
      /\ \A g \in groups : position'[g] = position[g]
  BY <1>1, GroupsStay
<1>3. /\ groups \in SUBSET Groups /\ groups' \in SUBSET Groups
      /\ position \in [Groups -> Nat] /\ position' \in [Groups -> Nat]
      /\ log \in Seq(Payloads) /\ log' \in Seq(Payloads)
      /\ up /\ up' /\ groups' # {}
  BY <1>1, <1>2 DEF Types
<1>4. observers = {} /\ observers' = {}
  <2>1. observers \subseteq Observers /\ observers' \subseteq Observers
    BY <1>1 DEF Types
  <2> QED BY <2>1 DEF Waking
<1>5. End(segments) = Len(log) /\ End(segments') = Len(log') /\ Len(log) \in Nat /\ Len(log') \in Nat
  BY <1>1, <1>3 DEF InIndex, Kept
<1>6. /\ \A g \in groups : Base(segments) <= position[g]
      /\ \A g \in groups' : Base(segments') <= position'[g]
  BY <1>1 DEF Positions, Holding, Waking
<1>7. Base(segments) \in Nat /\ Base(segments') \in Nat
  <2>1. Chain(segments) /\ Chain(segments')
    BY <1>1, <1>3 DEF InIndex, Kept, Lists
  <2> QED BY <2>1, Chained
<1>8. (\E g \in groups : F = position[g]) /\ \A g \in groups : F <= position[g]
  BY <1>3, FloorOfHolders
<1>9. (\E g \in groups' : G = position'[g]) /\ \A g \in groups' : G <= position'[g]
  BY <1>3, FloorOfHolders
<1>10. HeldNow = BytesFrom(segments, F) /\ HeldNow' = BytesFrom(segments', G)
  BY <1>4 DEF HeldNow
<1> HIDE DEF F, G
<1>11. F \in Nat /\ G \in Nat /\ G <= F /\ Base(segments) <= F /\ Base(segments') <= G
  BY <1>2, <1>3, <1>6, <1>8, <1>9
<1>12. /\ BytesFrom(segments, F) = Len(log) - Smaller(Len(log), F)
       /\ BytesFrom(segments', G) = Len(log') - Smaller(Len(log'), G)
  <2>1. Larger(F, Base(segments)) = F /\ Larger(G, Base(segments')) = G
    BY <1>7, <1>11 DEF Larger
  <2> QED BY <1>5, <2>1 DEF BytesFrom
<1>13. \A a, b, f, g \in Nat : a >= b /\ g <= f =>
          /\ b - Smaller(b, f) \in Nat /\ a - Smaller(a, g) \in Nat
          /\ a - Smaller(a, g) >= b - Smaller(b, f)
  BY DEF Smaller
<1> QED BY <1>2, <1>5, <1>10, <1>11, <1>12, <1>13

(* A sender that waits after a step waited before it, with the same batch   *)
(* and woken if it was, or has just found that its batch does not fit.      *)
LEMMA WaitersWait ==
    ASSUME Waking, Types, InIndex, [Next]_vars, NEW s \in Senders, spc'[s] = "waiting"
    PROVE  \/ AwaitRoom(s)
           \/ /\ spc[s] = "waiting" /\ pending'[s] = pending[s]
              /\ swoken[s] => swoken'[s]
<1>0. /\ spc \in [Senders -> SenderStates] /\ pending \in [Senders -> Seq(Payloads)]
      /\ swoken \in [Senders -> BOOLEAN]
  BY DEF Types
<1>1. CASE Ending
  BY <1>1, EndsAre DEF Ends
<1>2. ASSUME NEW t \in Senders,
             \/ \E batch \in Batches : Send(t, batch)
             \/ Retry(t) \/ NotifyArrived(t) \/ Cancel(t) \/ WriteFails(t)
             \/ RollFails(t) \/ \E ok \in BOOLEAN : TakeBatch(t, ok)
      PROVE  spc[s] = "waiting" /\ pending'[s] = pending[s] /\ swoken'[s] = swoken[s]
  <2>1. /\ \E x \in SenderStates \ {"waiting"} : spc' = [spc EXCEPT ![t] = x]
        /\ pending' = pending \/ \E y : pending' = [pending EXCEPT ![t] = y]
        /\ swoken' = swoken \/ \E y : swoken' = [swoken EXCEPT ![t] = y]
    <3>1. CASE \E batch \in Batches : Send(t, batch)
      BY <3>1 DEF Send, SenderStates
    <3>2. CASE Retry(t)
      BY <3>2 DEF Retry, SenderStates
    <3>3. CASE NotifyArrived(t)
      <4>1. spc' = [spc EXCEPT ![t] = "idle"] /\ pending' = pending /\ swoken' = swoken
        BY <3>3 DEF NotifyArrived
      <4> QED BY <4>1 DEF SenderStates
    <3>4. CASE Cancel(t)
      BY <3>4 DEF Cancel, Waking
    <3>5. CASE WriteFails(t)
      <4>1. /\ spc' = [spc EXCEPT ![t] = "idle"] /\ swoken' = swoken
            /\ pending' = [pending EXCEPT ![t] = <<>>]
        BY <3>5 DEF WriteFails
      <4> QED BY <4>1 DEF SenderStates
    <3>6. CASE RollFails(t) \/ \E ok \in BOOLEAN : TakeBatch(t, ok)
      BY <3>6, TakersAre DEF SenderStates
    <3> QED BY <1>2, <3>1, <3>2, <3>3, <3>4, <3>5, <3>6
  <2>2. t # s
    BY <1>0, <2>1
  <2> QED BY <1>0, <2>1, <2>2
<1>3. ASSUME NEW t \in Senders, AwaitRoom(t)
      PROVE  \/ AwaitRoom(s)
             \/ spc[s] = "waiting" /\ pending'[s] = pending[s] /\ swoken'[s] = swoken[s]
  <2>1. CASE t = s
    BY <1>3, <2>1
  <2>2. CASE t # s
    BY <1>0, <1>3, <2>2 DEF AwaitRoom
  <2> QED BY <2>1, <2>2
<1>4. ASSUME NEW g \in Groups, NotifyReleased(g)
      PROVE  spc[s] = "waiting" /\ pending'[s] = pending[s] /\ swoken'[s]
  BY <1>4 DEF NotifyReleased, WakeSenders
<1>5. ASSUME NEW g \in Groups, Unsubscribe(g)
      PROVE  FALSE
  BY <1>5 DEF Unsubscribe, Waking
<1>6. ASSUME NEW g \in Groups, NEW asObserver \in BOOLEAN, Receiver(g, asObserver)
      PROVE  UNCHANGED senders
  BY <1>6 DEF Receiver
<1>7. ASSUME NEW g \in Groups, NEW n \in Nat,
             \/ Receive(g) \/ ReceiveFails(g) \/ Recheck(g) \/ TimeOut(g)
             \/ TakeSkipped(g) \/ ReadFails(g) \/ Read(g) \/ Locate(g, n)
             \/ AcknowledgeFails(g, n) \/ \E ok \in BOOLEAN : Acknowledge(g, n, ok)
      PROVE  UNCHANGED senders
  BY <1>7 DEF Receive, ReceiveFails, Recheck, TimeOut, TakeSkipped, ReadFails, Read, Locate,
              AcknowledgeFails, Acknowledge
<1>8. CASE Open
  BY <1>8 DEF Open, senders
<1>9. CASE UNCHANGED senders
  BY <1>9 DEF senders
<1>10. UNCHANGED vars => UNCHANGED senders
  BY DEF vars
<1>11. CASE Next
  BY <1>1, <1>2, <1>3, <1>4, <1>5, <1>6, <1>7, <1>8, <1>9, <1>11, NextIsSteps DEF Ending
<1> QED BY <1>9, <1>10, <1>11

(* A receiver that acknowledged wakes the senders before it goes on. *)
LEMMA ReleasedWakes ==
    ASSUME Waking, Types, InIndex, [Next]_vars, NEW g \in Groups, rpc[g] = "released"
    PROVE  rpc'[g] = "released" \/ NotifyReleased(g) \/ Ends
<1>0. rpc \in [Groups -> ReceiverStates]
  BY DEF Types
<1>1. CASE Ending
  BY <1>1, EndsAre
<1>2. ASSUME NEW h \in Groups, NEW n \in Nat,
             \/ \E asObserver \in BOOLEAN : Receiver(h, asObserver)
             \/ Receive(h) \/ ReceiveFails(h) \/ Recheck(h) \/ TimeOut(h)
             \/ ReadFails(h) \/ Read(h) \/ Locate(h, n)
             \/ \E ok \in BOOLEAN : Acknowledge(h, n, ok)
      PROVE  rpc[h] # "released" /\ \E x : rpc' = [rpc EXCEPT ![h] = x]
  BY <1>2 DEF Receiver, Receive, ReceiveFails, Recheck, TimeOut, ReadFails, Read, Locate, Acknowledge
<1>3. ASSUME NEW h \in Groups, rpc[h] # "released", NEW x, rpc' = [rpc EXCEPT ![h] = x]
      PROVE  rpc'[g] = "released"
  BY <1>0, <1>3
<1>4. ASSUME NEW h \in Groups, NotifyReleased(h), h # g
      PROVE  rpc'[g] = "released"
  <2>1. rpc' = [rpc EXCEPT ![h] = "idle"]
    BY <1>4 DEF NotifyReleased
  <2> QED BY <1>0, <1>4, <2>1
<1>5. ASSUME NEW h \in Groups, NEW n \in Nat, TakeSkipped(h) \/ AcknowledgeFails(h, n)
      PROVE  UNCHANGED rpc
  BY <1>5 DEF TakeSkipped, AcknowledgeFails, receivers
<1>6. ASSUME NEW h \in Groups, Unsubscribe(h)
      PROVE  FALSE
  BY <1>6 DEF Unsubscribe, Waking
<1>7. ASSUME NEW s \in Senders,
             \/ \E batch \in Batches : Send(s, batch)
             \/ AwaitRoom(s) \/ Retry(s) \/ NotifyArrived(s) \/ Cancel(s) \/ WriteFails(s)
      PROVE  UNCHANGED rpc
  BY <1>7, SendersAre
<1>8. ASSUME NEW s \in Senders, RollFails(s) \/ \E ok \in BOOLEAN : TakeBatch(s, ok)
      PROVE  UNCHANGED rpc
  BY <1>8, TakersAre DEF receivers
<1>9. Open \/ UNCHANGED vars => UNCHANGED rpc
  BY DEF Open, vars, receivers
<1>10. CASE Next
  <2>1. 0 \in Nat
    OBVIOUS
  <2> QED BY <1>1, <1>2, <1>3, <1>4, <1>5, <1>6, <1>7, <1>8, <1>9, <1>10, <2>1, NextIsSteps DEF Ending
<1> QED BY <1>9, <1>10

(* A group that is there when records are sent stays until the process ends. *)
LEMMA ServedIsInvariant ==
    ASSUME Waking, Types, InIndex, Served, [Next]_vars
    PROVE  Served'
<1> SUFFICES ASSUME NEW s \in Senders, spc'[s] # "idle" PROVE Standing \subseteq groups'
  BY DEF Served
<1>0. spc \in [Senders -> SenderStates]
  BY DEF Types
<1>1. ~Ends
  BY DEF Ends
<1>2. Standing \subseteq groups
  <2>1. CASE spc[s] # "idle"
    BY <2>1 DEF Served
  <2>2. CASE spc[s] = "idle"
    <3>1. ASSUME NEW t \in Senders, NEW batch \in Batches, Send(t, batch)
          PROVE  Standing \subseteq groups
      BY <3>1 DEF Send
    <3>2. ASSUME NEW t \in Senders,
                 \/ AwaitRoom(t) \/ Retry(t) \/ NotifyArrived(t) \/ Cancel(t) \/ WriteFails(t)
                 \/ RollFails(t) \/ \E ok \in BOOLEAN : TakeBatch(t, ok)
          PROVE  FALSE
      <4>1. CASE RollFails(t) \/ \E ok \in BOOLEAN : TakeBatch(t, ok)
        <5>1. spc[t] = "registered" /\ spc' = [spc EXCEPT ![t] = "appended"]
          BY <4>1, TakersAre
        <5> QED BY <1>0, <2>2, <5>1
      <4>2. CASE AwaitRoom(t) \/ Retry(t) \/ NotifyArrived(t) \/ Cancel(t) \/ WriteFails(t)
        <5>1. spc[t] # "idle" /\ \E x : spc' = [spc EXCEPT ![t] = x]
          BY <4>2 DEF AwaitRoom, Retry, NotifyArrived, Cancel, WriteFails
        <5> QED BY <1>0, <2>2, <5>1
      <4> QED BY <3>2, <4>1, <4>2
    <3>3. ASSUME NEW g \in Groups, NEW n \in Nat,
                 \/ \E asObserver \in BOOLEAN : Receiver(g, asObserver)
                 \/ Unsubscribe(g) \/ \E ok \in BOOLEAN : Acknowledge(g, n, ok)
          PROVE  UNCHANGED spc
      BY <3>3 DEF Receiver, Unsubscribe, Acknowledge, senders
    <3>4. ASSUME NEW g \in Groups,
                 \/ Receive(g) \/ ReceiveFails(g) \/ Recheck(g) \/ TimeOut(g)
                 \/ NotifyReleased(g) \/ TakeSkipped(g) \/ ReadFails(g) \/ Read(g)
                 \/ \E max \in Nat : Locate(g, max)
                 \/ \E offset \in Nat : AcknowledgeFails(g, offset)
          PROVE  UNCHANGED spc
      BY <3>4, ReceiversAre
    <3>5. Open \/ UNCHANGED vars => UNCHANGED spc
      BY DEF Open, vars, senders
    <3>6. spc' # spc
      BY <2>2
    <3>7. Next
      BY <3>5, <3>6
    <3>8. 0 \in Nat
      OBVIOUS
    <3> QED BY <1>1, <3>1, <3>2, <3>3, <3>4, <3>5, <3>6, <3>7, <3>8, EndsAre, NextIsSteps DEF Ending
  <2> QED BY <2>1, <2>2
<1>3. groups # {}
  BY <1>2 DEF Waking
<1>4. groups \subseteq groups'
  BY <1>1, <1>3, GroupsStay
<1> QED BY <1>2, <1>4

(* No step leaves a sender asleep whose batch would be taken. *)
LEMMA NoMissedReleaseIsInvariant ==
    ASSUME Waking, IInv, IInv', Served, NoMissedRelease, [Next]_vars
    PROVE  NoMissedRelease'
<1>0. Types /\ InIndex /\ Types'
  BY DEF IInv
<1> SUFFICES ASSUME NEW s \in Senders, spc'[s] = "waiting", ~swoken'[s],
                    Fits(Len(pending[s]))'
             PROVE  \E g \in Groups : rpc'[g] = "released"
  BY DEF NoMissedRelease
<1> DEFINE n == Len(pending[s])
<1>1. HeldNow' = 0 \/ HeldNow' + n' <= Capacity
  BY DEF Fits, HeldNow
<1>2. ~Ends
  BY DEF Ends
<1>3. CASE AwaitRoom(s)
  <2>1. ~(HeldNow = 0 \/ HeldNow + n <= Capacity)
    BY <1>3 DEF AwaitRoom, Fits, HeldNow
  <2>2. HeldNow' = HeldNow /\ n' = n
    BY <1>3 DEF AwaitRoom, index, positions, HeldNow
  <2> QED BY <1>1, <2>1, <2>2
<1>4. CASE /\ spc[s] = "waiting" /\ pending'[s] = pending[s]
           /\ swoken[s] => swoken'[s]
  <2>1. groups # {}
    BY <1>4 DEF Served, Waking
  <2>2. CASE HeldNow \in Nat /\ HeldNow' \in Nat /\ HeldNow' >= HeldNow
    <3>1. n \in Nat /\ n' = n /\ Capacity \in Nat
      BY <1>0, <1>4, OptionsAssumption DEF Types
    <3> HIDE DEF n
    <3>2. HeldNow = 0 \/ HeldNow + n <= Capacity
      <4>1. \A a, b, c, m \in Nat : (a = 0 \/ a + m <= c) /\ a >= b => b = 0 \/ b + m <= c
        OBVIOUS
      <4> QED BY <1>1, <2>2, <3>1, <4>1
    <3>3. Fits(Len(pending[s]))
      BY <3>2 DEF Fits, HeldNow, n
    <3>4. PICK g \in Groups : rpc[g] = "released"
      BY <1>4, <3>3 DEF NoMissedRelease
    <3>5. NotifyReleased(g) => swoken'[s]
      BY <1>4 DEF NotifyReleased, WakeSenders
    <3> QED BY <1>0, <1>2, <3>4, <3>5, ReleasedWakes
  <2> QED BY <1>2, <2>1, <2>2, RoomIsAnnounced
<1> QED BY <1>0, <1>3, <1>4, WaitersWait
(* A receiver that waits after a step waited before it and was not woken    *)
(* since, unless it was already, or has just found nothing.                 *)
LEMMA ReceiversWait ==
    ASSUME Waking, Types, InIndex, [Next]_vars, NEW g \in Groups, rpc'[g] = "waiting"
    PROVE  \/ \E max \in Nat : Locate(g, max)
           \/ rpc[g] = "waiting" /\ next'[g] = next[g] /\ (rwoken[g] => rwoken'[g])
<1>0. /\ rpc \in [Groups -> ReceiverStates] /\ next \in [Groups -> Nat]
      /\ rwoken \in [Groups -> BOOLEAN]
  BY DEF Types
<1>1. CASE Ending
  BY <1>1, EndsAre DEF Ends
<1>2. ASSUME NEW h \in Groups, NEW n \in Nat,
             \/ \E asObserver \in BOOLEAN : Receiver(h, asObserver)
             \/ Receive(h) \/ ReceiveFails(h) \/ Recheck(h) \/ TimeOut(h)
             \/ ReadFails(h) \/ Read(h) \/ NotifyReleased(h)
             \/ \E ok \in BOOLEAN : Acknowledge(h, n, ok)
      PROVE  rpc[g] = "waiting" /\ next'[g] = next[g] /\ rwoken'[g] = rwoken[g]
  <2>1. \E x \in ReceiverStates \ {"waiting"} : rpc' = [rpc EXCEPT ![h] = x]
    <3>1. CASE \E asObserver \in BOOLEAN : Receiver(h, asObserver)
      BY <3>1 DEF Receiver, ReceiverStates
    <3>2. CASE Receive(h) \/ ReceiveFails(h) \/ Recheck(h)
      BY <3>2 DEF Receive, ReceiveFails, Recheck, ReceiverStates
    <3>3. CASE TimeOut(h) \/ ReadFails(h) \/ Read(h) \/ NotifyReleased(h)
      <4>1. rpc' = [rpc EXCEPT ![h] = "idle"]
        BY <3>3 DEF TimeOut, ReadFails, Read, NotifyReleased
      <4> QED BY <4>1 DEF ReceiverStates
    <3>4. CASE \E ok \in BOOLEAN : Acknowledge(h, n, ok)
      <4>1. rpc' = [rpc EXCEPT ![h] = "released"]
        BY <3>4, AcknowledgeAnnounces
      <4> QED BY <4>1 DEF ReceiverStates
    <3> QED BY <1>2, <3>1, <3>2, <3>3, <3>4
  <2>2. next' = next \/ \E y : next' = [next EXCEPT ![h] = y]
    BY <1>2 DEF Receiver, Receive, ReceiveFails, Recheck, TimeOut, ReadFails, Read,
                NotifyReleased, Acknowledge
  <2>3. rwoken' = rwoken \/ \E y : rwoken' = [rwoken EXCEPT ![h] = y]
    BY <1>2 DEF Receiver, Receive, ReceiveFails, Recheck, TimeOut, ReadFails, Read,
                NotifyReleased, Acknowledge
  <2>4. h # g /\ rpc[g] = "waiting"
    BY <1>0, <2>1
  <2> QED BY <1>0, <2>2, <2>3, <2>4
<1>3. ASSUME NEW h \in Groups, NEW max \in Nat, Locate(h, max)
      PROVE  \/ Locate(g, max)
             \/ rpc[g] = "waiting" /\ next'[g] = next[g] /\ rwoken'[g] = rwoken[g]
  <2>1. CASE h = g
    BY <1>3, <2>1
  <2>2. CASE h # g
    <3>1. /\ \E x : rpc' = [rpc EXCEPT ![h] = x]
          /\ \E y : next' = [next EXCEPT ![h] = y]
          /\ rwoken' = rwoken
      BY <1>3 DEF Locate
    <3> QED BY <1>0, <2>2, <3>1
  <2> QED BY <2>1, <2>2
<1>4. ASSUME NEW h \in Groups, NEW n \in Nat, TakeSkipped(h) \/ AcknowledgeFails(h, n)
      PROVE  UNCHANGED <<rpc, next, rwoken>>
  BY <1>4 DEF TakeSkipped, AcknowledgeFails, receivers
<1>5. ASSUME NEW h \in Groups, Unsubscribe(h)
      PROVE  FALSE
  BY <1>5 DEF Unsubscribe, Waking
<1>6. ASSUME NEW s \in Senders,
             \/ \E batch \in Batches : Send(s, batch)
             \/ AwaitRoom(s) \/ Retry(s) \/ Cancel(s) \/ WriteFails(s)
      PROVE  UNCHANGED receivers
  BY <1>6 DEF Send, AwaitRoom, Retry, Cancel, WriteFails
<1>7. ASSUME NEW s \in Senders, NotifyArrived(s)
      PROVE  rpc' = rpc /\ next' = next /\ (rwoken[g] => rwoken'[g])
  BY <1>7 DEF NotifyArrived, WakeReceivers
<1>8. ASSUME NEW s \in Senders, RollFails(s) \/ \E ok \in BOOLEAN : TakeBatch(s, ok)
      PROVE  UNCHANGED receivers
  BY <1>8, TakersAre
<1>9. Open \/ UNCHANGED vars => UNCHANGED receivers
  BY DEF Open, vars
<1>10. UNCHANGED receivers => UNCHANGED <<rpc, next, rwoken>>
  BY DEF receivers
<1>11. CASE Next
  <2>1. 0 \in Nat
    OBVIOUS
  <2> QED BY <1>1, <1>2, <1>3, <1>4, <1>5, <1>6, <1>7, <1>8, <1>9, <1>10, <1>11, <2>1, NextIsSteps DEF Ending
<1> QED BY <1>9, <1>10, <1>11

(* A sender that appended wakes the receivers before it returns. *)
LEMMA AppendedWakes ==
    ASSUME Waking, Types, InIndex, [Next]_vars, NEW s \in Senders, spc[s] = "appended"
    PROVE  spc'[s] = "appended" \/ NotifyArrived(s) \/ Ends
<1>0. spc \in [Senders -> SenderStates]
  BY DEF Types
<1>1. CASE Ending
  BY <1>1, EndsAre
<1>2. ASSUME NEW t \in Senders,
             \/ \E batch \in Batches : Send(t, batch)
             \/ AwaitRoom(t) \/ Retry(t) \/ WriteFails(t)
      PROVE  spc[t] # "appended" /\ \E x : spc' = [spc EXCEPT ![t] = x]
  BY <1>2 DEF Send, AwaitRoom, Retry, WriteFails
<1>3. ASSUME NEW t \in Senders, RollFails(t) \/ \E ok \in BOOLEAN : TakeBatch(t, ok)
      PROVE  spc[t] # "appended" /\ \E x : spc' = [spc EXCEPT ![t] = x]
  <2>1. spc' = [spc EXCEPT ![t] = "appended"] /\ spc[t] = "registered"
    BY <1>3, TakersAre
  <2> QED BY <2>1
<1>4. ASSUME NEW t \in Senders, spc[t] # "appended", NEW x, spc' = [spc EXCEPT ![t] = x]
      PROVE  spc'[s] = "appended"
  BY <1>0, <1>4
<1>5. ASSUME NEW t \in Senders, NotifyArrived(t), t # s
      PROVE  spc'[s] = "appended"
  <2>1. spc' = [spc EXCEPT ![t] = "idle"]
    BY <1>5 DEF NotifyArrived
  <2> QED BY <1>0, <1>5, <2>1
<1>6. ASSUME NEW t \in Senders, Cancel(t)
      PROVE  FALSE
  BY <1>6 DEF Cancel, Waking
<1>7. ASSUME NEW g \in Groups, NEW n \in Nat,
             \/ \E asObserver \in BOOLEAN : Receiver(g, asObserver)
             \/ \E ok \in BOOLEAN : Acknowledge(g, n, ok)
      PROVE  UNCHANGED spc
  BY <1>7 DEF Receiver, Acknowledge, senders
<1>8. ASSUME NEW g \in Groups,
             \/ Receive(g) \/ ReceiveFails(g) \/ Recheck(g) \/ TimeOut(g)
             \/ NotifyReleased(g) \/ TakeSkipped(g) \/ ReadFails(g) \/ Read(g)
             \/ \E max \in Nat : Locate(g, max)
             \/ \E offset \in Nat : AcknowledgeFails(g, offset)
      PROVE  UNCHANGED spc
  BY <1>8, ReceiversAre
<1>9. ASSUME NEW g \in Groups, Unsubscribe(g)
      PROVE  FALSE
  BY <1>9 DEF Unsubscribe, Waking
<1>10. Open \/ UNCHANGED vars => UNCHANGED spc
  BY DEF Open, vars, senders
<1>11. CASE Next
  <2>1. 0 \in Nat
    OBVIOUS
  <2> QED BY <1>1, <1>2, <1>3, <1>4, <1>5, <1>6, <1>7, <1>8, <1>9, <1>10, <1>11, <2>1, NextIsSteps DEF Ending
<1> QED BY <1>10, <1>11

(* The topic only gets longer by a batch that was appended, ... *)
LEMMA LongerIsAppended ==
    ASSUME Waking, Types, InIndex, [Next]_vars
    PROVE  log' = log \/ Ends \/ \E s \in Senders : spc'[s] = "appended"
<1>0. spc \in [Senders -> SenderStates]
  BY DEF Types
<1>1. CASE Ending
  BY <1>1, EndsAre
<1>2. ASSUME NEW t \in Senders, RollFails(t) \/ \E ok \in BOOLEAN : TakeBatch(t, ok)
      PROVE  spc'[t] = "appended"
  <2>1. spc' = [spc EXCEPT ![t] = "appended"]
    BY <1>2, TakersAre
  <2> QED BY <1>0, <2>1
<1>3. ASSUME NEW t \in Senders,
             \/ \E batch \in Batches : Send(t, batch)
             \/ AwaitRoom(t) \/ Retry(t) \/ NotifyArrived(t) \/ Cancel(t) \/ WriteFails(t)
      PROVE  UNCHANGED log
  BY <1>3, SendersAre
<1>4. ASSUME NEW g \in Groups, NEW n \in Nat,
             \/ \E asObserver \in BOOLEAN : Receiver(g, asObserver)
             \/ Unsubscribe(g) \/ \E ok \in BOOLEAN : Acknowledge(g, n, ok)
      PROVE  UNCHANGED log
  BY <1>4 DEF Receiver, Unsubscribe, Acknowledge, history
<1>5. ASSUME NEW g \in Groups,
             \/ Receive(g) \/ ReceiveFails(g) \/ Recheck(g) \/ TimeOut(g)
             \/ NotifyReleased(g) \/ TakeSkipped(g) \/ ReadFails(g) \/ Read(g)
             \/ \E max \in Nat : Locate(g, max)
             \/ \E offset \in Nat : AcknowledgeFails(g, offset)
      PROVE  UNCHANGED log
  BY <1>5, ReceiversAre
<1>6. Open \/ UNCHANGED vars => UNCHANGED log
  BY DEF Open, vars, history
<1>7. CASE Next
  <2>1. 0 \in Nat
    OBVIOUS
  <2> QED BY <1>1, <1>2, <1>3, <1>4, <1>5, <1>6, <1>7, <2>1, NextIsSteps DEF Ending
<1> QED BY <1>6, <1>7

(* ... and a receiver that found nothing has got to the end. *)
LEMMA NothingLeftToFind ==
    ASSUME Types, InIndex, NEW g \in Groups, NEW max \in Nat, Locate(g, max),
           rpc'[g] = "waiting"
    PROVE  next'[g] >= Len(log)
<1>0. up /\ next \in [Groups -> Nat] /\ rpc \in [Groups -> ReceiverStates] /\ log \in Seq(Payloads)
  BY DEF Types, Locate
<1>1. End(segments) = Len(log) /\ Base(segments) \in Nat /\ Len(log) \in Nat
  <2>1. Chain(segments)
    BY <1>0 DEF InIndex, Kept, Lists
  <2>2. End(segments) = Len(log)
    BY <1>0 DEF InIndex, Kept
  <2> QED BY <1>0, <2>1, <2>2, Chained
<1>2. From(g) \in Nat
  BY <1>0, <1>1 DEF From, Larger
<1>3. rpc' = [rpc EXCEPT ![g] = IF From(g) < End(segments) THEN "reading" ELSE "waiting"]
  BY DEF Locate
<1>4. next'[g] = From(g)
  BY <1>0 DEF Locate
<1>5. ~(From(g) < End(segments))
  BY <1>0, <1>3
<1> QED BY <1>1, <1>2, <1>4, <1>5

(* A receiver that waits, and has its group after a step, had it before. *)
LEMMA WaitingIsThere ==
    ASSUME Waking, Types, InIndex, [Next]_vars, NEW g \in Groups,
           g \in groups', rpc[g] = "waiting", rpc'[g] = "waiting"
    PROVE  up /\ g \in groups
<1>0. rpc \in [Groups -> ReceiverStates] /\ up
  BY DEF Types
<1>1. CASE Ending
  BY <1>1, EndsAre DEF Ends
<1>2. CASE Open
  BY <1>0, <1>2 DEF Open
<1>3. ASSUME NEW h \in Groups, NEW asObserver \in BOOLEAN, Receiver(h, asObserver)
      PROVE  g \in groups
  <2>1. rpc' = [rpc EXCEPT ![h] = "idle"] /\ groups' = groups \union {h}
    BY <1>3 DEF Receiver
  <2> QED BY <1>0, <2>1
<1>4. ASSUME NEW h \in Groups, Unsubscribe(h)
      PROVE  FALSE
  BY <1>4 DEF Unsubscribe, Waking
<1>5. ASSUME NEW h \in Groups, NEW n \in Nat, NEW ok \in BOOLEAN, Acknowledge(h, n, ok)
      PROVE  groups' = groups
  BY <1>5 DEF Acknowledge
<1>6. ASSUME NEW h \in Groups,
             \/ Receive(h) \/ ReceiveFails(h) \/ Recheck(h) \/ TimeOut(h)
             \/ NotifyReleased(h) \/ TakeSkipped(h) \/ ReadFails(h) \/ Read(h)
             \/ \E max \in Nat : Locate(h, max)
             \/ \E offset \in Nat : AcknowledgeFails(h, offset)
      PROVE  groups' = groups
  BY <1>6, ReceiversAre DEF positions
<1>7. ASSUME NEW s \in Senders,
             \/ \E batch \in Batches : Send(s, batch)
             \/ AwaitRoom(s) \/ Retry(s) \/ NotifyArrived(s) \/ Cancel(s) \/ WriteFails(s)
      PROVE  groups' = groups
  BY <1>7, SendersAre DEF positions
<1>8. ASSUME NEW s \in Senders, RollFails(s) \/ \E ok \in BOOLEAN : TakeBatch(s, ok)
      PROVE  groups' = groups
  BY <1>8, TakersAre DEF positions
<1>9. UNCHANGED vars => groups' = groups
  BY DEF vars, positions
<1>10. CASE Next
  <2>1. 0 \in Nat
    OBVIOUS
  <2> QED BY <1>0, <1>1, <1>2, <1>3, <1>4, <1>5, <1>6, <1>7, <1>8, <1>10, <2>1, NextIsSteps DEF Ending
<1> QED BY <1>0, <1>9, <1>10

(* No step leaves a receiver asleep on records. *)
LEMMA NoMissedArrivalIsInvariant ==
    ASSUME Waking, IInv, IInv', NoMissedArrival, [Next]_vars
    PROVE  NoMissedArrival'
<1>0. Types /\ InIndex /\ Types' /\ InIndex'
  BY DEF IInv
<1> SUFFICES ASSUME NEW g \in groups', rpc'[g] = "waiting", ~rwoken'[g],
                    next'[g] < End(segments'), ~\E s \in Senders : spc'[s] = "appended"
             PROVE  FALSE
  BY DEF NoMissedArrival
<1>1. g \in Groups /\ ~Ends
  BY <1>0 DEF Types, Ends
<1>2. up' /\ End(segments') = Len(log')
  BY <1>0 DEF Types, InIndex, Kept
<1>3. log' = log /\ Len(log) \in Nat
  <2>1. log' = log
    BY <1>0, <1>1, LongerIsAppended
  <2>2. log \in Seq(Payloads)
    BY <1>0 DEF Types
  <2> QED BY <2>1, <2>2
<1>4. next'[g] \in Nat
  BY <1>0, <1>1 DEF Types
<1>5. ASSUME NEW max \in Nat, Locate(g, max)
      PROVE  FALSE
  <2>1. next'[g] >= Len(log)
    BY <1>0, <1>1, <1>5, NothingLeftToFind
  <2> QED BY <1>2, <1>3, <1>4, <2>1
<1>6. CASE rpc[g] = "waiting" /\ next'[g] = next[g] /\ (rwoken[g] => rwoken'[g])
  <2>1. up /\ g \in groups
    BY <1>0, <1>1, <1>6, WaitingIsThere
  <2>2. End(segments) = Len(log)
    BY <1>0, <2>1 DEF InIndex, Kept
  <2>3. PICK s \in Senders : spc[s] = "appended"
    BY <1>2, <1>3, <1>6, <2>1, <2>2 DEF NoMissedArrival
  <2>4. NotifyArrived(s) => rwoken'[g]
    BY <1>1, <1>6 DEF NotifyArrived, WakeReceivers
  <2> QED BY <1>0, <1>1, <2>3, <2>4, AppendedWakes
<1> QED BY <1>0, <1>1, <1>5, <1>6, ReceiversWait

(* In the beginning nobody sleeps, ... *)
LEMMA WakeupsBegin == Init => WInv
<1> SUFFICES ASSUME Init PROVE WInv
  OBVIOUS
<1>1. IInv
  BY InitKeeps
<1> QED BY <1>1 DEF Init, WInv, Served, NoMissedRelease, NoMissedArrival

(* ... and no step makes anybody miss what it waits for. *)
LEMMA WakeupsKeep == ASSUME Waking PROVE WInv /\ [Next]_vars => WInv'
<1> SUFFICES ASSUME WInv, [Next]_vars PROVE WInv'
  OBVIOUS
<1>1. IInv /\ Types /\ InIndex
  BY DEF WInv, IInv
<1>2. IInv'
  <2>1. Tolerated
    BY DEF Waking, Tolerated
  <2> QED BY <1>1, <2>1, NextKeeps
<1>3. Served'
  BY <1>1, ServedIsInvariant DEF WInv
<1>4. NoMissedRelease'
  BY <1>2, NoMissedReleaseIsInvariant DEF WInv
<1>5. NoMissedArrival'
  BY <1>2, NoMissedArrivalIsInvariant DEF WInv
<1> QED BY <1>2, <1>3, <1>4, <1>5 DEF WInv

(* On disk nobody sleeps on what is there for him, across restarts: no     *)
(* sender while its batch would be taken, no receiver on records, unless   *)
(* whoever made room or appended is still about to wake him.               *)
THEOREM SleepersAreWoken ==
    ASSUME Waking
    PROVE  Spec => [](NoMissedRelease /\ NoMissedArrival)
<1>1. Init => WInv
  BY WakeupsBegin
<1>2. WInv /\ [Next]_vars => WInv'
  BY WakeupsKeep
<1>3. WInv => NoMissedRelease /\ NoMissedArrival
  BY DEF WInv
<1> QED BY <1>1, <1>2, <1>3, PTL DEF Spec

=============================================================================
