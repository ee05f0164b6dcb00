--------------------------- MODULE Regraph_proofs ---------------------------
(***************************************************************************)
(* What holds of Regraph for any clock, any number of events and crashes,   *)
(* and any widths: an event the role will not receive again was gathered,  *)
(* lies in a range that is noted, was stored too late to be read, or is    *)
(* older than what the role reads back.                                    *)
(***************************************************************************)
EXTENDS Regraph, FiniteSetTheorems, WellFoundedInduction, TLAPS

-----------------------------------------------------------------------------
(* Least and greatest of finite sets of numbers.                           *)

(* Natural numbers have a least one among them. *)
LEMMA LeastOf ==
    ASSUME NEW S \in SUBSET Nat, S # {}
    PROVE  \E x \in S : \A y \in S : x <= y
<1>1. PICK x \in S : \A y \in S : ~(<<y, x>> \in OpToRel(<, Nat))
  BY NatLessThanWellFounded, WFMin
<1>2. \A y \in S : ~(y < x)
  BY <1>1 DEF OpToRel
<1> QED BY <1>2

(* So do finitely many integers: the smallest part of them with no least   *)
(* one would have one without any of its elements.                         *)
LEMMA MinOf ==
    ASSUME NEW S \in SUBSET Int, IsFiniteSet(S), S # {}
    PROVE  Min(S) \in S /\ \A y \in S : Min(S) <= y
<1> DEFINE Has(T) == \E x \in T : \A y \in T : x <= y
           Bad == {n \in Nat : \E T \in SUBSET S : T # {} /\ Cardinality(T) = n /\ ~Has(T)}
<1>0. \A T \in SUBSET S : IsFiniteSet(T) /\ Cardinality(T) \in Nat
  BY FS_Subset, FS_CardinalityType
<1>1. Bad = {}
  <2> SUFFICES ASSUME Bad # {} PROVE FALSE
    OBVIOUS
  <2>1. PICK n \in Bad : \A m \in Bad : n <= m
    BY LeastOf
  <2>2. PICK T \in SUBSET S : T # {} /\ Cardinality(T) = n /\ ~Has(T)
    BY <2>1
  <2>3. PICK x \in T : TRUE
    BY <2>2
  <2>4. T \ {x} \in SUBSET S /\ Cardinality(T \ {x}) = n - 1 /\ n - 1 \in Nat
    <3>1. IsFiniteSet(T) /\ Cardinality(T) \in Nat /\ Cardinality(T \ {x}) \in Nat
      BY <1>0
    <3>2. Cardinality(T \ {x}) = Cardinality(T) - 1
      BY <2>3, <3>1, FS_RemoveElement
    <3> QED BY <2>2, <3>1, <3>2
  <2>5. T \ {x} = {} \/ Has(T \ {x})
    <3>1. n - 1 \notin Bad
      BY <2>1, <2>4
    <3> QED BY <2>4, <3>1
  <2>6. CASE T \ {x} = {}
    <3>1. x <= x /\ \A y \in T : y = x
      BY <2>6
    <3> QED BY <2>2, <2>3, <3>1
  <2>7. CASE Has(T \ {x})
    <3>1. PICK y \in T \ {x} : \A z \in T \ {x} : y <= z
      BY <2>7
    <3>2. x \in Int /\ y \in Int /\ \A z \in T : z \in Int
      OBVIOUS
    <3>3. CASE x <= y
      <4>1. \A z \in T : x <= z
        BY <3>1, <3>2, <3>3
      <4> QED BY <2>2, <2>3, <4>1
    <3>4. CASE ~(x <= y)
      <4>1. \A z \in T : y <= z
        BY <3>1, <3>2, <3>4
      <4> QED BY <2>2, <3>1, <4>1
    <3> QED BY <3>3, <3>4
  <2> QED BY <2>5, <2>6, <2>7
<1>2. Cardinality(S) \notin Bad /\ Cardinality(S) \in Nat
  BY <1>0, <1>1
<1>3. \E x \in S : \A y \in S : x <= y
  BY <1>2
<1> QED BY <1>3 DEF Min

(* Finitely many are given finitely many. *)
LEMMA ImageIsFinite ==
    ASSUME NEW S, IsFiniteSet(S), NEW U, NEW f \in [S -> U]
    PROVE  {f[x] : x \in S} \in SUBSET U /\ IsFiniteSet({f[x] : x \in S})
<1> DEFINE T == {f[x] : x \in S}
<1>1. f \in Surjection(S, T)
  BY DEF Surjection
<1>2. IsFiniteSet(T)
  <2> HIDE DEF T
  <2> QED BY <1>1, FS_Surjection
<1> QED BY <1>2

(* And a greatest one. *)
LEMMA MaxOf ==
    ASSUME NEW S \in SUBSET Int, IsFiniteSet(S), S # {}
    PROVE  Max(S) \in S /\ \A y \in S : y <= Max(S)
<1> DEFINE f == [x \in S |-> 0 - x]
           T == {f[x] : x \in S}
<1>1. T \in SUBSET Int /\ T # {} /\ IsFiniteSet(T)
  <2>1. f \in [S -> Int]
    OBVIOUS
  <2>2. PICK x \in S : f[x] \in T
    OBVIOUS
  <2> HIDE DEF f
  <2> QED BY <2>1, <2>2, ImageIsFinite
<1>2. Min(T) \in T /\ \A y \in T : Min(T) <= y
  <2> HIDE DEF T
  <2> QED BY <1>1, MinOf
<1>3. PICK x \in S : Min(T) = f[x]
  BY <1>2
<1>4. \A y \in S : y \in Int /\ x \in Int /\ 0 - x <= 0 - y
  BY <1>2, <1>3
<1>5. \A y \in S : x >= y
  BY <1>4
<1>6. Max(S) \in S /\ \A y \in S : Max(S) >= y
  BY <1>5 DEF Max
<1>7. \A y \in S : y \in Int /\ Max(S) \in Int
  BY <1>6
<1> QED BY <1>6, <1>7

-----------------------------------------------------------------------------
(* What the methods of Unread make of what is noted.                       *)

Ranges == [from : Int, to : Int]
Notes == {n \in [until : Nat, ranges : SUBSET Ranges, asked : BOOLEAN] : IsFiniteSet(n.ranges)}

Touching(R, new) == {new} \union {r \in R : r.from <= new.to /\ new.from <= r.to}
Merged(R, new) == [from |-> Min({r.from : r \in Touching(R, new)}),
                   to |-> Max({r.to : r \in Touching(R, new)})]
MergedInto(R, new) == (R \ Touching(R, new)) \union {Merged(R, new)}

(* The merged range begins and ends as one of those it was made of, and    *)
(* holds them all.                                                         *)
LEMMA MergedHolds ==
    ASSUME NEW R \in SUBSET Ranges, IsFiniteSet(R), NEW new \in Ranges
    PROVE  /\ Merged(R, new) \in Ranges
           /\ \A r \in Touching(R, new) : Merged(R, new).from <= r.from /\ r.to <= Merged(R, new).to
           /\ \E r \in Touching(R, new) : Merged(R, new).from = r.from
           /\ \E r \in Touching(R, new) : Merged(R, new).to = r.to
<1> DEFINE T == Touching(R, new)
           f == [r \in T |-> r.from]
           g == [r \in T |-> r.to]
           F == {f[r] : r \in T}
           G == {g[r] : r \in T}
<1>1. IsFiniteSet(T) /\ T # {} /\ T \subseteq Ranges
  <2>1. IsFiniteSet({r \in R : r.from <= new.to /\ new.from <= r.to})
    BY FS_Subset
  <2> QED BY <2>1, FS_Singleton, FS_Union DEF Touching
<1>2. F = {r.from : r \in T} /\ G = {r.to : r \in T}
  OBVIOUS
<1>3. IsFiniteSet(F) /\ IsFiniteSet(G)
  <2>1. f \in [T -> Int] /\ g \in [T -> Int]
    BY <1>1 DEF Ranges
  <2> HIDE DEF T, f, g
  <2> QED BY <1>1, <2>1, ImageIsFinite
<1>4. \A r \in T : r.from \in F /\ r.to \in G /\ r.from \in Int /\ r.to \in Int
  BY <1>1 DEF Ranges
<1>5. (\A x \in F : \E r \in T : x = r.from) /\ \A x \in G : \E r \in T : x = r.to
  OBVIOUS
<1>6. Merged(R, new) = [from |-> Min(F), to |-> Max(G)]
  BY <1>2 DEF Merged
<1> HIDE DEF T, F, G
<1>7. F \in SUBSET Int /\ G \in SUBSET Int /\ F # {} /\ G # {}
  BY <1>1, <1>4, <1>5
<1>8. /\ Min(F) \in F /\ \A x \in F : Min(F) <= x
      /\ Max(G) \in G /\ \A x \in G : x <= Max(G)
  BY <1>3, <1>7, MinOf, MaxOf
<1>9. Merged(R, new) \in Ranges /\ Merged(R, new).from = Min(F) /\ Merged(R, new).to = Max(G)
  <2>1. Min(F) \in Int /\ Max(G) \in Int
    BY <1>7, <1>8
  <2> QED BY <1>6, <2>1 DEF Ranges
<1>10. \A r \in T : Merged(R, new).from <= r.from /\ r.to <= Merged(R, new).to
  BY <1>4, <1>8, <1>9
<1>11. (\E r \in T : Merged(R, new).from = r.from) /\ \E r \in T : Merged(R, new).to = r.to
  BY <1>5, <1>8, <1>9
<1> QED BY <1>9, <1>10, <1>11 DEF T

(* What is merged holds every time that was held.  If each of the ranges   *)
(* begins before one of some times, or ends before another, each still does. *)
LEMMA MergingKeeps ==
    ASSUME NEW R \in SUBSET Ranges, IsFiniteSet(R), NEW new \in Ranges
    PROVE  /\ MergedInto(R, new) \in SUBSET Ranges /\ IsFiniteSet(MergedInto(R, new))
           /\ \A time \in Int, r \in R \union {new} : Within(time, r) =>
                  \E s \in MergedInto(R, new) : Within(time, s)
           /\ \A times \in SUBSET Int, end \in Int :
                  (\A r \in R \union {new} : r.to <= end \/ \E time \in times : r.from <= time)
                  => \A s \in MergedInto(R, new) : s.to <= end \/ \E time \in times : s.from <= time
<1> DEFINE m == Merged(R, new)
           T == Touching(R, new)
<1>1. /\ m \in Ranges
      /\ \A r \in T : m.from <= r.from /\ r.to <= m.to
      /\ \E r \in T : m.from = r.from
      /\ \E r \in T : m.to = r.to
  BY MergedHolds
<1>2. MergedInto(R, new) = (R \ T) \union {m} /\ T \subseteq R \union {new}
  BY DEF MergedInto, Touching
<1>3. \A r \in R \union {new} \union {m} : r.from \in Int /\ r.to \in Int
  BY <1>1 DEF Ranges
<1>4. IsFiniteSet((R \ T) \union {m})
  <2>1. IsFiniteSet(R \ T)
    BY FS_Subset
  <2> QED BY <2>1, FS_AddElement
<1>5. new \in T
  BY DEF Touching
<1> HIDE DEF m, T
<1>6. ASSUME NEW time \in Int, NEW r \in R \union {new}, Within(time, r)
      PROVE  \E s \in (R \ T) \union {m} : Within(time, s)
  <2>1. CASE r \in T
    <3>1. m.from <= time /\ time < m.to
      BY <1>1, <1>3, <1>6, <2>1 DEF Within
    <3> QED BY <3>1 DEF Within
  <2>2. CASE r \notin T
    <3>1. r \in R \ T
      BY <1>5, <2>2
    <3> QED BY <1>6, <3>1
  <2> QED BY <2>1, <2>2
<1>7. ASSUME NEW times \in SUBSET Int, NEW end \in Int,
             \A r \in R \union {new} : r.to <= end \/ \E time \in times : r.from <= time
      PROVE  \A s \in (R \ T) \union {m} : s.to <= end \/ \E time \in times : s.from <= time
  <2>1. ASSUME \A time \in times : ~(m.from <= time) PROVE m.to <= end
    <3>1. PICK r \in T : m.to = r.to
      BY <1>1
    <3>2. \A time \in times : ~(r.from <= time)
      BY <1>1, <1>2, <1>3, <2>1, <3>1
    <3> QED BY <1>2, <1>7, <3>1, <3>2
  <2> QED BY <1>7, <2>1
<1>8. MergedInto(R, new) \in SUBSET Ranges
  BY <1>1, <1>2
<1> QED BY <1>2, <1>4, <1>6, <1>7, <1>8

(* A range that is noted is merged into the others. *)
LEMMA NotingKeeps ==
    ASSUME NEW n \in Notes, NEW new \in Ranges
    PROVE  LET m == Noting(n, new)
           IN  /\ m \in Notes /\ m.until = n.until /\ m.asked = n.asked
               /\ m.ranges = MergedInto(n.ranges, new)
<1>1. Noting(n, new) = [n EXCEPT !.ranges = MergedInto(n.ranges, new)]
  BY DEF Noting, MergedInto, Merged, Touching, Notes
<1>2. MergedInto(n.ranges, new) \in SUBSET Ranges /\ IsFiniteSet(MergedInto(n.ranges, new))
  BY MergingKeeps DEF Notes
<1> QED BY <1>1, <1>2 DEF Notes

(* What was stored before the role first ran is noted from where the store  *)
(* begins, or from as far back as is read, unless nothing lies there.      *)
LEMMA StoredFromKeeps ==
    ASSUME NEW n \in Notes, now \in Nat, NEW begins \in SUBSET Nat, IsFiniteSet(begins)
    PROVE  LET m == StoredFrom(n, begins)
               starts == begins \union {now - back : back \in ReadBack}
           IN  /\ m \in Notes /\ m.until = n.until /\ m.asked
               /\ \/ /\ m.ranges = n.ranges
                     /\ begins = {} \/ ReadBack = {0} \/ \E from \in starts : n.until <= from
                  \/ \E from \in starts :
                        /\ from < n.until
                        /\ m.ranges = MergedInto(n.ranges, [from |-> from, to |-> n.until])
<1> DEFINE f == [back \in ReadBack |-> now - back]
           starts == begins \union {f[back] : back \in ReadBack}
           n1 == [n EXCEPT !.asked = TRUE]
           from == Max(starts)
           new == [from |-> from, to |-> n.until]
<1>0. starts = begins \union {now - back : back \in ReadBack}
  OBVIOUS
<1>1. /\ n1 \in Notes /\ n1.until = n.until /\ n1.asked /\ n1.ranges = n.ranges /\ n.until \in Nat
  BY DEF Notes
<1>2. StoredFrom(n, begins) = IF begins # {} /\ from < n.until /\ ReadBack # {0}
                              THEN Noting(n1, new) ELSE n1
  BY <1>0 DEF StoredFrom
<1>3. starts \in SUBSET Int /\ IsFiniteSet(starts)
  <2>1. ReadBack \subseteq Nat /\ IsFiniteSet(ReadBack)
    BY TimesAssumption
  <2>2. f \in [ReadBack -> Int]
    BY <2>1
  <2>3. {f[back] : back \in ReadBack} \in SUBSET Int /\ IsFiniteSet({f[back] : back \in ReadBack})
    <3> HIDE DEF f
    <3> QED BY <2>1, <2>2, ImageIsFinite
  <2> HIDE DEF f
  <2> DEFINE X == {f[back] : back \in ReadBack}
  <2>4. X \in SUBSET Int /\ IsFiniteSet(X)
    BY <2>3
  <2> HIDE DEF X
  <2>5. IsFiniteSet(begins \union X)
    BY <2>4, FS_Union
  <2>6. begins \union X \in SUBSET Int
    BY <2>4
  <2> QED BY <2>5, <2>6 DEF X
<1> HIDE DEF f, starts, n1
<1>4. CASE begins # {}
  <2>1. from \in starts /\ from \in Int
    <3>1. starts # {}
      BY <1>4 DEF starts
    <3> QED BY <1>3, <3>1, MaxOf
  <2> HIDE DEF from
  <2>2. CASE from < n.until /\ ReadBack # {0}
    <3>1. StoredFrom(n, begins) = Noting(n1, new) /\ new \in Ranges
      BY <1>1, <1>2, <1>4, <2>1, <2>2 DEF Ranges
    <3> HIDE DEF new
    <3>2. /\ Noting(n1, new) \in Notes /\ Noting(n1, new).until = n.until /\ Noting(n1, new).asked
          /\ Noting(n1, new).ranges = MergedInto(n.ranges, new)
      BY <1>1, <3>1, NotingKeeps
    <3> USE DEF new
    <3> QED BY <1>0, <2>1, <2>2, <3>1, <3>2
  <2>3. CASE ~(from < n.until /\ ReadBack # {0})
    <3>1. StoredFrom(n, begins) = n1
      BY <1>2, <2>3
    <3>2. ReadBack = {0} \/ n.until <= from
      BY <1>1, <2>1, <2>3
    <3> QED BY <1>0, <1>1, <2>1, <3>1, <3>2
  <2> QED BY <2>2, <2>3
<1>5. CASE begins = {}
  <2>1. StoredFrom(n, begins) = n1
    BY <1>2, <1>5
  <2> QED BY <1>1, <1>5, <2>1
<1> QED BY <1>4, <1>5

(* What is given up of the first ranges ends at until. *)
LEMMA ReadKeeps ==
    ASSUME NEW n \in Notes, NEW until \in Int
    PROVE  LET m == ReadFromStore(n, until)
           IN  /\ m \in Notes /\ m.until = n.until /\ m.asked = n.asked
               /\ \A s \in m.ranges : \E r \in n.ranges :
                     s.to = r.to /\ (s.from = r.from \/ s.from = until)
               /\ \A r \in n.ranges, time \in Int : Within(time, r) =>
                     time < until \/ \E s \in m.ranges : Within(time, s)
<1> DEFINE cut == [r \in First(n) |-> [r EXCEPT !.from = Larger(r.from, until)]]
           left == {s \in {cut[r] : r \in First(n)} : s.from < s.to}
           R == (n.ranges \ First(n)) \union left
<1>1. /\ n.ranges \in SUBSET Ranges /\ IsFiniteSet(n.ranges) /\ First(n) \subseteq n.ranges
      /\ \A r \in n.ranges : r.from \in Int /\ r.to \in Int
  BY DEF Notes, First, Ranges
<1>2. ReadFromStore(n, until) = [n EXCEPT !.ranges = R]
  BY DEF ReadFromStore, Notes
<1>3. \A r \in First(n) : /\ cut[r] \in Ranges /\ cut[r].from = Larger(r.from, until)
                           /\ cut[r].to = r.to
  BY <1>1 DEF Ranges, Larger
<1>4. cut \in [First(n) -> Ranges]
  BY <1>3
<1> HIDE DEF cut
<1>5. R \in SUBSET Ranges /\ IsFiniteSet(R)
  <2>1. IsFiniteSet(First(n)) /\ IsFiniteSet(n.ranges \ First(n))
    BY <1>1, FS_Subset
  <2>2. {cut[r] : r \in First(n)} \in SUBSET Ranges /\ IsFiniteSet({cut[r] : r \in First(n)})
    BY <1>4, <2>1, ImageIsFinite
  <2>3. left \in SUBSET Ranges /\ IsFiniteSet(left)
    BY <2>2, FS_Subset
  <2> HIDE DEF left
  <2> QED BY <1>1, <2>1, <2>3, FS_Union
<1>6. ASSUME NEW s \in R
      PROVE  \E r \in n.ranges : s.to = r.to /\ (s.from = r.from \/ s.from = until)
  <2>1. CASE s \in n.ranges
    BY <2>1
  <2>2. CASE s \in left
    <3>1. PICK r \in First(n) : s = cut[r]
      BY <2>2
    <3>2. r \in n.ranges /\ s.to = r.to /\ (s.from = r.from \/ s.from = until)
      BY <1>1, <1>3, <3>1 DEF Larger
    <3> QED BY <3>2
  <2> QED BY <2>1, <2>2
<1>7. ASSUME NEW r \in n.ranges, NEW time \in Int, Within(time, r), ~(time < until)
      PROVE  \E s \in R : Within(time, s)
  <2>1. CASE r \in First(n)
    <3>1. cut[r].from <= time /\ time < cut[r].to /\ cut[r].from < cut[r].to
      BY <1>1, <1>3, <1>7, <2>1 DEF Larger, Within
    <3>2. cut[r] \in R
      BY <2>1, <3>1
    <3> QED BY <3>1, <3>2 DEF Within
  <2>2. CASE r \notin First(n)
    BY <1>7, <2>2
  <2> QED BY <2>1, <2>2
<1> HIDE DEF R
<1>8. /\ ReadFromStore(n, until) \in Notes /\ ReadFromStore(n, until).ranges = R
      /\ ReadFromStore(n, until).until = n.until /\ ReadFromStore(n, until).asked = n.asked
  BY <1>2, <1>5 DEF Notes
<1> QED BY <1>6, <1>7, <1>8

-----------------------------------------------------------------------------
(* The invariant.                                                          *)

(* The notes there are: those in the file, and those of a role that runs.  *)
Standing == file \union (IF dpc = "off" THEN {} ELSE {noted})
Ahead == at..(Len(log) - 1)

(* What becomes of an event: it is settled for good, lies in a noted range, *)
(* or will lie in one once it is known where the store begins.  Those that  *)
(* other processes send while this one starts are nobody's.                *)
Settled(event) ==
    \/ event \in gathered \/ NearAnEnd(event)
    \/ event < joinedAt /\ OthersRun
    \/ OfBefore(event) /\ \A n \in Standing : n.asked
InRange(event) == \A n \in Standing : \E r \in n.ranges : Within(Taken(event), r)
Pending(event) == event < joinedAt /\ \A n \in Standing : ~n.asked /\ Taken(event) < n.until
Safe(event) == Settled(event) \/ InRange(event) \/ Pending(event)

(* An event does not lie before a range that ends much after it, or is     *)
(* settled; nor will one that is still to arrive.                          *)
Clear(event, from, to) ==
    from <= Taken(event) \/ Settled(event) \/ to <= Taken(event) + Lateness
Ever(from, to) ==
    from <= now - Lateness \/ to <= now \/ \E e \in ends : from <= e.until
Fits(r) == Ever(r.from, r.to) /\ \A event \in Ahead : Clear(event, r.from, r.to)

Works == [from : Int, until : Int]
Types ==
    /\ now \in Nat /\ log \in Seq(Nat) /\ base \in 0..Len(log) /\ stored \in SUBSET Events
    /\ at \in Nat /\ next \in at..Len(log) /\ batch \in SUBSET (0..(next - 1))
    /\ joined \in BOOLEAN /\ joinedAt \in 0..at
    /\ asked \in SUBSET Events
    /\ work \in SUBSET Works /\ ends \in SUBSET [until : Int, byClock : BOOLEAN]
    /\ noted \in Notes /\ file \in SUBSET Notes

Places ==
    /\ dpc \in {"off", "opened", "receiving", "gathering", "sent", "noting"}
    /\ rpc \in {"off", "looking", "asked", "reading", "read"}
    /\ rpc = "off" <=> dpc \in {"off", "opened"}
    /\ rpc = "off" => next = at
    /\ dpc = "noting" => at = next
    /\ dpc \in {"off", "opened", "receiving"} => batch = {}
    /\ dpc = "gathering" => batch \subseteq at..(next - 1)
    /\ dpc \in {"sent", "noting"} => batch \subseteq gathered
    /\ rpc \in {"off", "looking", "asked"} => work = {}
    /\ rpc = "asked" => ~noted.asked /\ first = {Taken(event) : event \in asked}
    /\ dpc # "off" => file # {}

(* The ranges that are noted lie apart. *)
Parted(R) == \A r, s \in R : r.from <= r.to /\ (r = s \/ r.to < s.from \/ s.to < r.from)
Apart == \A n \in Standing : Parted(n.ranges)

(* Before the role was known to the topic, its notes are as it opened them, *)
(* after all that was sent by its own process.                             *)
Starts ==
    IF joined THEN file # {}
    ELSE /\ rpc = "off" /\ at = 0
         /\ \A n \in Standing : n.ranges = {} /\ ~n.asked
         /\ OthersRun \/ \A n \in Standing, event \in Events : Taken(event) < n.until

(* The topic has the events almost in the order they were taken in, and    *)
(* the store too.                                                          *)
Ordered ==
    /\ \A event \in Events : Taken(event) <= now
    /\ \A e, f \in Events : e < f => Taken(e) <= Taken(f) + Lateness
    /\ \A e \in stored, f \in Events \ stored : Taken(e) <= Taken(f) + Lateness + StoreLag
    /\ \A e \in ends : e.byClock \/ e.until <= now

(* What the role will receive is not much older than what it noted.        *)
Behind == \A n \in Standing :
    /\ n.until <= now
    /\ joined => \A event \in Ahead : n.until <= Taken(event) + Lateness

Below == \A n \in Standing : \A r \in n.ranges : Fits(r)

(* What was received, or passed, is safe. *)
Kept == joined => \A event \in 0..(next - 1) : Safe(event) \/ (dpc = "gathering" /\ event \in batch)

(* All events before the range that is read are settled, and once it was   *)
(* read, all before where the reading ended.                               *)
Over(w) == /\ \E e \in ends : w.until <= e.until
           /\ \A event \in Events : w.until <= Taken(event) \/ Settled(event) \/ Pending(event)
Under(w) == /\ Ever(w.from, w.until)
            /\ \A event \in Events : Clear(event, w.from, w.until) \/ Pending(event)
Working ==
    /\ \A v, w \in work : v = w
    /\ \A w \in work : Under(w) /\ (rpc = "read" => Over(w))

IInv ==
    /\ Types /\ Places /\ Apart /\ Starts /\ Ordered
    /\ Behind /\ Below /\ Kept /\ Working

(* The invariant holds at the start. *)
LEMMA InitHasInvariant == Init => IInv
<1> SUFFICES ASSUME Init PROVE IInv
  OBVIOUS
<1> USE DEF Init
<1>1. NoNotes \in Notes
  BY FS_EmptySet DEF NoNotes, Notes
<1>2. Standing = {} /\ Events = {}
  BY DEF Standing, Events
<1>3. Types
  <2>1. log \in Seq(Nat) /\ Len(log) = 0 /\ now \in Nat /\ 0 \in 0..0
    OBVIOUS
  <2> QED BY <1>1, <2>1 DEF Types
<1>4. Places /\ Apart /\ Starts /\ Ordered
  BY <1>2 DEF Places, Apart, Starts, Ordered
<1>5. Behind /\ Below /\ Kept /\ Working
  BY <1>2 DEF Behind, Below, Kept, Working
<1> QED BY <1>3, <1>4, <1>5 DEF IInv

(* An event has a time. *)
LEMMA TimesOfEvents ==
    ASSUME Types
    PROVE  \A event \in Events : event \in Nat /\ event < Len(log) /\ Taken(event) \in Nat
<1>1. log \in Seq(Nat) /\ \A i \in 1..Len(log) : log[i] \in Nat
  BY DEF Types
<1>2. \A event \in Events : event \in Nat /\ event < Len(log) /\ event + 1 \in 1..Len(log)
  BY <1>1 DEF Events
<1> QED BY <1>1, <1>2 DEF Taken

(* Time passes. *)
LEMMA Ticks ==
    ASSUME now \in Nat, Tick
    PROVE  now' \in Nat /\ now < now'
<1> DEFINE S == {t \in Instants : now < t}
<1>1. Instants \in SUBSET Int /\ IsFiniteSet(Instants) /\ Instants # {} /\ S \subseteq Nat
  <2>1. Instants \subseteq Nat /\ 0 \in Instants /\ IsFiniteSet(Instants)
    BY BoundsAssumption
  <2>2. Instants \in SUBSET Int /\ Instants # {}
    BY <2>1
  <2> QED BY <2>1, <2>2
<1>2. Max(Instants) \in Instants
  BY <1>1, MaxOf
<1>3. S \in SUBSET Int /\ IsFiniteSet(S) /\ S # {}
  BY <1>1, <1>2, FS_Subset DEF Tick
<1>4. Min(S) \in S
  BY <1>3, MinOf
<1> QED BY <1>1, <1>4 DEF Tick

(* What arrives comes last, and is late by Lateness at most. *)
LEMMA Arrives ==
    ASSUME Types, Arrive
    PROVE  /\ log' \in Seq(Nat) /\ Len(log') = Len(log) + 1 /\ Events \subseteq Events'
           /\ \A event \in Events : Taken(event)' = Taken(event)
           /\ \A event \in Events' : \/ event \in Events
                                     \/ /\ event = Len(log) /\ Taken(event)' \in Nat
                                        /\ now - Lateness <= Taken(event)' /\ Taken(event)' <= now
<1>1. PICK taken \in Instants \intersect ((now - Lateness)..now) : log' = Append(log, taken)
  BY DEF Arrive
<1>2. taken \in Nat /\ now - Lateness <= taken /\ taken <= now
  BY BoundsAssumption, OrderAssumption DEF Types
<1>3. /\ log \in Seq(Nat) /\ Len(log) \in Nat
      /\ log' \in Seq(Nat) /\ Len(log') = Len(log) + 1 /\ log'[Len(log) + 1] = taken
      /\ \A i \in 1..Len(log) : log'[i] = log[i]
  BY <1>1, <1>2 DEF Types
<1>4. Events = 0..(Len(log) - 1) /\ Events' = 0..Len(log)
  BY <1>3 DEF Events
<1>5. \A event \in Events : Taken(event)' = Taken(event)
  BY <1>3, <1>4 DEF Taken
<1>6. \A event \in Events' : event \in Events \/ (event = Len(log) /\ Taken(event)' = taken)
  BY <1>3, <1>4 DEF Taken
<1> QED BY <1>2, <1>3, <1>4, <1>5, <1>6

-----------------------------------------------------------------------------
(* What every step keeps, or lets grow.                                    *)

(* No step changes what was received, or when; what comes is late by       *)
(* Lateness at most.                                                       *)
Lasting ==
    /\ log' \in Seq(Nat) /\ Len(log) <= Len(log')
    /\ \A event \in Events : event \in Events' /\ Taken(event)' = Taken(event)
    /\ \A event \in Events' : \/ event \in Events
                              \/ /\ event = Len(log) /\ Taken(event)' \in Nat /\ now' = now
                                 /\ now - Lateness <= Taken(event)' /\ Taken(event)' <= now

LEMMA TopicLasts ==
    ASSUME Types, [Next]_vars
    PROVE  Lasting
<1>1. CASE Arrive
  <2>1. /\ log' \in Seq(Nat) /\ Len(log') = Len(log) + 1 /\ Events \subseteq Events'
        /\ \A event \in Events : Taken(event)' = Taken(event)
        /\ \A event \in Events' : \/ event \in Events
                                  \/ /\ event = Len(log) /\ Taken(event)' \in Nat
                                     /\ now - Lateness <= Taken(event)' /\ Taken(event)' <= now
    BY <1>1, Arrives
  <2>2. now' = now /\ Len(log) \in Nat
    BY <1>1 DEF Arrive, Types
  <2> QED BY <2>1, <2>2 DEF Lasting
<1>2. CASE log' = log
  <2>1. log \in Seq(Nat) /\ Len(log) <= Len(log)
    BY DEF Types
  <2> QED BY <1>2, <2>1 DEF Lasting, Events, Taken
<1>3. Arrive \/ log' = log
  BY DEF Next, vars, topic, Tick, Store, Open, Observe, Receive, Gather, Acknowledge, Note,
         Ask, NoteStored, Look, Read, Wait, NoteRead, Crash
<1> QED BY <1>1, <1>2, <1>3

(* Nothing is taken back that was gathered, read, stored or acknowledged;   *)
(* and the store is asked where it begins until that is noted.             *)
Growing ==
    /\ now' \in Nat /\ now <= now'
    /\ gathered \subseteq gathered' /\ ends \subseteq ends' /\ stored \subseteq stored'
    /\ at' \in Nat /\ at <= at'
    /\ IF joined THEN joined' /\ joinedAt' = joinedAt
       ELSE UNCHANGED <<joined, joinedAt>> \/ (joined' /\ joinedAt' = Len(log) /\ at' = Len(log))
    /\ asked' = asked \/ (noted \in Standing /\ ~noted.asked)

LEMMA NothingIsTakenBack ==
    ASSUME Types, Places, Starts, [Next]_vars
    PROVE  Growing
<1> DEFINE Others == UNCHANGED <<stored, at, joined, joinedAt>>
           Rest == Others /\ UNCHANGED <<now, gathered, ends, asked>>
<1>0. now \in Nat /\ at \in Nat /\ next \in Nat /\ at <= next /\ next <= Len(log)
      /\ Len(log) \in Nat /\ joined \in BOOLEAN
  BY DEF Types
<1>1. CASE Tick
  <2>1. Others /\ UNCHANGED <<gathered, ends, asked>>
    BY <1>1 DEF Tick, topic, derive, history
  <2>2. now' \in Nat /\ now < now'
    BY <1>0, <1>1, Ticks
  <2> QED BY <1>0, <2>1, <2>2 DEF Growing
<1>2. ASSUME NEW event \in Events \ stored, Store(event) PROVE Growing
  <2>1. stored \subseteq stored' /\ UNCHANGED <<now, at, joined, joinedAt, gathered, ends, asked>>
    BY <1>2 DEF Store, derive, history
  <2> QED BY <1>0, <2>1 DEF Growing
<1>3. CASE Observe
  <2>1. UNCHANGED <<now, stored, gathered, ends, asked>> /\ joined'
    BY <1>3 DEF Observe, topic
  <2>2. IF joined THEN at' = at /\ joinedAt' = joinedAt
        ELSE at' = Len(log) /\ joinedAt' = Len(log) /\ at = 0
    BY <1>3 DEF Observe, Starts
  <2>3. /\ now' \in Nat /\ now <= now' /\ at' \in Nat /\ at <= at'
        /\ gathered \subseteq gathered' /\ ends \subseteq ends' /\ stored \subseteq stored'
    BY <1>0, <2>1, <2>2
  <2>4. CASE joined
    BY <2>1, <2>2, <2>3, <2>4 DEF Growing
  <2>5. CASE ~joined
    BY <2>1, <2>2, <2>3, <2>5 DEF Growing
  <2> QED BY <2>4, <2>5
<1>4. CASE Gather
  <2>1. gathered \subseteq gathered' /\ Others /\ UNCHANGED <<now, ends, asked>>
    BY <1>4 DEF Gather, topic, history
  <2> QED BY <1>0, <2>1 DEF Growing
<1>5. CASE Acknowledge
  <2>1. at' = next /\ UNCHANGED <<now, stored, joined, joinedAt, gathered, ends, asked>>
    BY <1>5 DEF Acknowledge, topic, history
  <2> QED BY <1>0, <2>1 DEF Growing
<1>6. CASE Ask
  <2>1. Others /\ UNCHANGED <<now, gathered, ends>>
    BY <1>6 DEF Ask, topic, derive
  <2>2. noted \in Standing /\ ~noted.asked
    BY <1>6 DEF Ask, Standing, Places
  <2> QED BY <1>0, <2>1, <2>2 DEF Growing
<1>7. CASE Read
  <2>1. Others /\ UNCHANGED <<now, asked>>
    BY <1>7 DEF Read, topic, derive
  <2>2. gathered \subseteq gathered' /\ ends \subseteq ends'
    BY <1>7 DEF Read
  <2> QED BY <1>0, <2>1, <2>2 DEF Growing
<1>8. CASE Rest
  BY <1>0, <1>8 DEF Growing
<1>9. CASE Arrive \/ Open \/ Receive \/ Note \/ NoteStored \/ Look \/ Wait \/ NoteRead \/ Crash
           \/ UNCHANGED vars
  <2>1. Rest
    BY <1>9 DEF Arrive, Open, Receive, Note, NoteStored, Look, Wait, NoteRead, Crash,
                vars, topic, derive, history
  <2> QED BY <1>8, <2>1
<1> QED BY <1>1, <1>2, <1>3, <1>4, <1>5, <1>6, <1>7, <1>9 DEF Next

-----------------------------------------------------------------------------
(* The notes.                                                              *)

Maximal(n) == Max({n.until} \union {Taken(event) : event \in batch})
Furthered(n) == [n EXCEPT !.until = Maximal(n)]
Begun == [NoNotes EXCEPT !.until = now]

(* How far derive came is no less than it was, and as late as an event. *)
LEMMA Furthers ==
    ASSUME Types, NEW n \in Notes
    PROVE  /\ Furthered(n) \in Notes /\ Furthered(n).until = Maximal(n) /\ n.until <= Maximal(n)
           /\ Maximal(n) = n.until \/ \E event \in batch : Maximal(n) = Taken(event)
           /\ Furthered(n).ranges = n.ranges /\ Furthered(n).asked = n.asked
<1> DEFINE f == [event \in batch |-> Taken(event)]
           S == {f[event] : event \in batch}
<1>0. S = {Taken(event) : event \in batch}
  OBVIOUS
<1>1. batch \subseteq Events /\ IsFiniteSet(batch)
  <2>1. next \in Nat /\ Len(log) \in Nat /\ next <= Len(log) /\ batch \subseteq 0..(next - 1)
    BY DEF Types
  <2>2. IsFiniteSet(0..(next - 1))
    BY <2>1, FS_Interval
  <2>3. batch \subseteq Events
    BY <2>1 DEF Events
  <2> QED BY <2>1, <2>2, <2>3, FS_Subset
<1>2. f \in [batch -> Nat] /\ \A event \in batch : f[event] = Taken(event)
  BY <1>1, TimesOfEvents
<1>3. S \in SUBSET Nat /\ IsFiniteSet(S) /\ \A x \in S : \E event \in batch : x = f[event]
  <2> HIDE DEF f
  <2> QED BY <1>1, <1>2, ImageIsFinite
<1> HIDE DEF f, S
<1>4. n.until \in Nat
  BY DEF Notes
<1> DEFINE T == {n.until} \union S
<1>5. T \in SUBSET Int /\ T # {} /\ n.until \in T /\ \A x \in T : x \in Nat
  <2>1. \A x \in T : x \in Nat /\ x \in Int
    <3>1. \A x \in S : x \in Nat
      BY <1>3
    <3>2. \A x \in T : x \in Nat
      BY <1>4, <3>1
    <3> QED BY <3>2
  <2>2. n.until \in T
    OBVIOUS
  <2> HIDE DEF T
  <2> QED BY <2>1, <2>2
<1>6. IsFiniteSet(T)
  BY <1>3, FS_Singleton, FS_Union
<1>7. Maximal(n) = Max(T)
  BY <1>0 DEF Maximal
<1>8. \A x \in T : x = n.until \/ x \in S
  OBVIOUS
<1> HIDE DEF T
<1>9. Max(T) \in T /\ \A y \in T : y <= Max(T)
  BY <1>5, <1>6, MaxOf
<1>10. Maximal(n) \in Nat /\ n.until <= Maximal(n)
  BY <1>5, <1>7, <1>9
<1>11. Maximal(n) = n.until \/ \E event \in batch : Maximal(n) = Taken(event)
  <2>1. CASE Max(T) \in S
    <3>1. PICK event \in batch : Max(T) = f[event]
      BY <1>3, <2>1
    <3> QED BY <1>2, <1>7, <3>1
  <2> QED BY <1>7, <1>8, <1>9, <2>1
<1> HIDE DEF Maximal
<1> QED BY <1>10, <1>11 DEF Furthered, Notes

(* What the role was moved to: an event, or now. *)
Resumed(from, to) == IF from < to THEN Taken(from) ELSE now
Widened(n, resumed) == [from |-> Smaller(n.until, resumed) - DISORDER, to |-> resumed + DISORDER]

LEMMA Receives ==
    ASSUME Types, Receive
    PROVE  \E from \in next..Len(log), to \in next..Len(log) :
              /\ dpc = "receiving" /\ from <= to
              /\ next' = to /\ batch' = from..(to - 1)
              /\ dpc' = IF from < to THEN "gathering" ELSE "receiving"
              /\ base' \in 0..Len(log)
              /\ from = to => from = Len(log)
              /\ IF next < from THEN Save(Skipped(noted, Resumed(from, to))) ELSE UNCHANGED notes
<1>1. PICK released \in {base} \union ((Larger(base, next) + 1)..Len(log)) :
          LET from == Larger(next, released)
              to == Smaller(Len(log), from + Batch)
          IN  /\ dpc = "receiving" /\ (next < from \/ from < to)
              /\ base' = released
              /\ next' = to /\ batch' = from..(to - 1)
              /\ dpc' = IF from < to THEN "gathering" ELSE "receiving"
              /\ IF next < from
                 THEN Save(Skipped(noted, IF from < to THEN Taken(from) ELSE now))
                 ELSE UNCHANGED notes
  BY DEF Receive
<1> DEFINE from == Larger(next, released)
           to == Smaller(Len(log), from + Batch)
<1>2. /\ base \in Nat /\ next \in Nat /\ Len(log) \in Nat /\ base <= Len(log) /\ next <= Len(log)
      /\ Batch \in Nat /\ 0 < Batch
  BY BoundsAssumption DEF Types
<1>3. released \in 0..Len(log)
  BY <1>2 DEF Larger
<1>4. /\ from \in next..Len(log) /\ to \in next..Len(log) /\ from <= to
      /\ from = to => from = Len(log)
  BY <1>2, <1>3 DEF Larger, Smaller
<1>5. IF next < from THEN Save(Skipped(noted, Resumed(from, to))) ELSE UNCHANGED notes
  BY <1>1 DEF Resumed
<1>6. /\ dpc = "receiving" /\ base' = released /\ next' = to /\ batch' = from..(to - 1)
      /\ dpc' = IF from < to THEN "gathering" ELSE "receiving"
  BY <1>1
<1> HIDE DEF from, to
<1> QED BY <1>3, <1>4, <1>5, <1>6

(* Where it was moved to is a time. *)
LEMMA ResumedIsTime ==
    ASSUME Types, NEW from \in Nat, NEW to \in 0..Len(log)
    PROVE  Resumed(from, to) \in Nat
<1>1. from < to => from \in Events
  BY DEF Types, Events
<1> QED BY <1>1, TimesOfEvents DEF Resumed, Types

(* The widened range is noted. *)
LEMMA SkippedKeeps ==
    ASSUME NEW n \in Notes, NEW resumed \in Nat
    PROVE  /\ Widened(n, resumed) \in Ranges
           /\ Skipped(n, resumed) \in Notes
           /\ Skipped(n, resumed).until = n.until /\ Skipped(n, resumed).asked = n.asked
           /\ Skipped(n, resumed).ranges = MergedInto(n.ranges, Widened(n, resumed))
<1>1. Widened(n, resumed) \in Ranges
  BY OrderAssumption DEF Widened, Ranges, Notes, Smaller
<1>2. Skipped(n, resumed) = Noting(n, Widened(n, resumed))
  BY DEF Skipped, Widened
<1> QED BY <1>1, <1>2, NotingKeeps

(* What the store said of where it begins. *)
LEMMA EarliestIsTime ==
    ASSUME Types, NEW es \in SUBSET Events
    PROVE  LET begins == Earliest({Taken(event) : event \in es})
           IN  /\ begins \in SUBSET Nat /\ IsFiniteSet(begins)
               /\ begins = {} => es = {}
               /\ \A begin \in begins, event \in es : begin <= Taken(event)
<1> DEFINE f == [event \in es |-> Taken(event)]
           S == {f[event] : event \in es}
<1>0. S = {Taken(event) : event \in es}
  OBVIOUS
<1>1. IsFiniteSet(es)
  <2>1. IsFiniteSet(Events)
    BY FS_Interval DEF Events, Types
  <2> QED BY <2>1, FS_Subset
<1>2. f \in [es -> Nat] /\ \A event \in es : f[event] = Taken(event) /\ f[event] \in S
  BY TimesOfEvents
<1>3. S \in SUBSET Nat /\ IsFiniteSet(S) /\ (S = {} => es = {})
  <2>1. S = {} => es = {}
    BY <1>2
  <2> HIDE DEF f
  <2>2. S \in SUBSET Nat /\ IsFiniteSet(S)
    BY <1>1, <1>2, ImageIsFinite
  <2> HIDE DEF S
  <2> QED BY <2>1, <2>2
<1>4. \A event \in es : Taken(event) \in S
  BY <1>2
<1> HIDE DEF f, S
<1>5. CASE S = {}
  BY <1>0, <1>3, <1>5, FS_EmptySet DEF Earliest
<1>6. CASE S # {}
  <2>1. Min(S) \in S /\ \A y \in S : Min(S) <= y
    <3>1. S \in SUBSET Int
      BY <1>3
    <3> QED BY <1>3, <1>6, <3>1, MinOf
  <2>2. Earliest({Taken(event) : event \in es}) = {Min(S)}
    BY <1>0, <1>6 DEF Earliest
  <2>3. {Min(S)} \in SUBSET Nat /\ IsFiniteSet({Min(S)})
    BY <1>3, <2>1, FS_Singleton
  <2>4. \A begin \in {Min(S)}, event \in es : begin <= Taken(event)
    BY <1>4, <2>1
  <2> QED BY <2>2, <2>3, <2>4
<1> QED BY <1>5, <1>6

(* A task that runs has its notes among those there are. *)
LEMMA RunsWithNotes ==
    ASSUME Types, Places
    PROVE  /\ Standing \in SUBSET Notes
           /\ dpc # "off" => noted \in Standing
           /\ rpc # "off" => noted \in Standing /\ dpc \notin {"off", "opened"}
BY DEF Types, Places, Standing

(* Which notes there are changes when the role opens or saves them, writes *)
(* down how far it came, or ends.                                          *)
LEMMA NotesStay ==
    ASSUME Types, Places, [Next]_vars,
           ~(Open \/ Receive \/ Note \/ NoteStored \/ NoteRead \/ Crash)
    PROVE  Standing' = Standing /\ UNCHANGED notes
<1>1. UNCHANGED notes /\ (dpc' = "off" <=> dpc = "off")
  BY DEF Next, vars, Tick, Arrive, Store, Observe, Gather, Acknowledge, Ask, Look, Read, Wait,
         derive, notes
<1> QED BY <1>1 DEF Standing, notes

(* Notes that are saved are all there are. *)
LEMMA SavedNotesStand ==
    ASSUME NEW n, Save(n)
    PROVE  noted' = n /\ file' = {n} /\ Standing' = {n}
BY DEF Save, Standing

(* A role that was moved past events notes that, and how far it came stays. *)
LEMMA MovedOn ==
    ASSUME Types, Places, Receive
    PROVE  \E from \in next..Len(log), to \in next..Len(log) :
              /\ dpc = "receiving" /\ from <= to /\ noted \in Standing /\ noted \in Notes
              /\ next' = to /\ batch' = from..(to - 1)
              /\ dpc' = IF from < to THEN "gathering" ELSE "receiving"
              /\ from = to => from = Len(log)
              /\ Resumed(from, to) \in Nat
              /\ IF next < from
                 THEN LET new == Widened(noted, Resumed(from, to))
                      IN  /\ noted' \in Notes /\ file' = {noted'} /\ Standing' = {noted'}
                          /\ noted'.until = noted.until /\ noted'.asked = noted.asked
                          /\ new \in Ranges /\ noted'.ranges = MergedInto(noted.ranges, new)
                 ELSE UNCHANGED notes /\ Standing' = Standing
<1>1. PICK from \in next..Len(log), to \in next..Len(log) :
              /\ dpc = "receiving" /\ from <= to
              /\ next' = to /\ batch' = from..(to - 1)
              /\ dpc' = IF from < to THEN "gathering" ELSE "receiving"
              /\ from = to => from = Len(log)
              /\ IF next < from THEN Save(Skipped(noted, Resumed(from, to))) ELSE UNCHANGED notes
  BY Receives
<1>2. noted \in Notes /\ noted \in Standing /\ dpc # "off" /\ dpc' # "off"
  BY <1>1, RunsWithNotes DEF Types
<1>3. Resumed(from, to) \in Nat
  <2>1. from \in Nat /\ to \in 0..Len(log)
    BY DEF Types
  <2> QED BY <2>1, ResumedIsTime
<1>4. CASE next < from
  <2>1. Save(Skipped(noted, Resumed(from, to)))
    BY <1>1, <1>4
  <2>2. /\ noted' = Skipped(noted, Resumed(from, to)) /\ file' = {noted'} /\ Standing' = {noted'}
    BY <2>1, SavedNotesStand
  <2> QED BY <1>1, <1>2, <1>3, <1>4, <2>2, SkippedKeeps
<1>5. CASE ~(next < from)
  <2>1. UNCHANGED notes /\ Standing' = Standing
    BY <1>1, <1>2, <1>5 DEF Standing, notes
  <2> QED BY <1>1, <1>2, <1>3, <1>5, <2>1
<1> QED BY <1>4, <1>5

(* What a step makes of notes. *)
Became(m, n) ==
    /\ m.until <= n.until /\ (m.asked => n.asked)
    /\ m.asked = n.asked \/ NoteStored
    /\ m.until = n.until \/ (Note /\ m = noted /\ n = Furthered(noted))
    /\ m.ranges = n.ranges \/ Receive \/ NoteStored \/ NoteRead

(* Notes come of those there were, but for those the role begins with. *)
LEMMA NotesFit ==
    ASSUME Types, Places, [Next]_vars
    PROVE  /\ noted' \in Notes /\ file' \in SUBSET Notes
           /\ \A n \in Standing' : \/ \E m \in Standing : Became(m, n)
                                   \/ file = {} /\ n = Begun /\ Open
<1>0. /\ noted \in Notes /\ file \in SUBSET Notes /\ Standing \in SUBSET Notes
      /\ \A n \in Notes : n.until <= n.until
  BY RunsWithNotes DEF Types, Notes
<1>a. \A n \in Standing : Became(n, n)
  BY <1>0 DEF Became
<1>1. ASSUME NEW n \in Notes, Save(n), noted \in Standing, Became(noted, n)
      PROVE  /\ noted' \in Notes /\ file' \in SUBSET Notes
             /\ \A m \in Standing' : \E l \in Standing : Became(l, m)
  BY <1>1, SavedNotesStand
<1>2. CASE Open
  <2>1. PICK n \in IF file = {} THEN {Begun} ELSE file : Save(n)
    BY <1>2 DEF Open, Begun
  <2>2. Begun \in Notes
    BY FS_EmptySet DEF Begun, NoNotes, Notes, Types
  <2>3. n \in Notes /\ (n \in Standing \/ (file = {} /\ n = Begun))
    BY <1>0, <2>1, <2>2 DEF Standing
  <2> QED BY <1>0, <1>a, <1>2, <2>1, <2>3, SavedNotesStand
<1>3. CASE Receive
  <2>1. PICK from \in next..Len(log), to \in next..Len(log) :
            /\ noted \in Standing
            /\ IF next < from
               THEN /\ noted' \in Notes /\ file' = {noted'} /\ Standing' = {noted'}
                    /\ noted'.until = noted.until /\ noted'.asked = noted.asked
               ELSE UNCHANGED notes /\ Standing' = Standing
    BY <1>3, MovedOn
  <2>2. CASE next < from
    BY <1>0, <1>3, <2>1, <2>2 DEF Became
  <2>3. CASE ~(next < from)
    BY <1>0, <1>a, <2>1, <2>3 DEF notes
  <2> QED BY <2>2, <2>3
<1>4. CASE Note
  <2>1. noted' = Furthered(noted) /\ file' \in {file, {Furthered(noted)}} /\ dpc' # "off" /\ dpc # "off"
    BY <1>4 DEF Note, Furthered, Maximal
  <2>2. Furthered(noted) \in Notes /\ Became(noted, Furthered(noted))
    BY <1>0, <1>4, Furthers DEF Became
  <2>3. Standing' \subseteq Standing \union {Furthered(noted)} /\ noted \in Standing
    BY <2>1 DEF Standing
  <2> QED BY <1>0, <1>a, <2>1, <2>2, <2>3
<1>5. CASE NoteStored
  <2>1. Save(StoredFrom(noted, Earliest(first))) /\ rpc = "asked"
    BY <1>5 DEF NoteStored
  <2>2. noted \in Standing /\ asked \in SUBSET Events /\ first = {Taken(event) : event \in asked}
    BY <2>1, RunsWithNotes DEF Places, Types
  <2>3. Earliest(first) \in SUBSET Nat /\ IsFiniteSet(Earliest(first)) /\ now \in Nat
    BY <2>2, EarliestIsTime DEF Types
  <2>4. /\ StoredFrom(noted, Earliest(first)) \in Notes
        /\ StoredFrom(noted, Earliest(first)).until = noted.until
        /\ StoredFrom(noted, Earliest(first)).asked
    BY <1>0, <2>3, StoredFromKeeps
  <2>5. Became(noted, StoredFrom(noted, Earliest(first)))
    BY <1>0, <1>5, <2>4 DEF Became
  <2> QED BY <1>1, <2>1, <2>2, <2>4, <2>5
<1>6. CASE NoteRead
  <2>1. PICK w \in work : Save(ReadFromStore(noted, w.until))
    BY <1>6 DEF NoteRead
  <2>2. noted \in Standing /\ w.until \in Int
    BY <1>6, RunsWithNotes DEF NoteRead, Types, Works
  <2>3. /\ ReadFromStore(noted, w.until) \in Notes
        /\ ReadFromStore(noted, w.until).until = noted.until
        /\ ReadFromStore(noted, w.until).asked = noted.asked
    BY <1>0, <2>2, ReadKeeps
  <2>4. Became(noted, ReadFromStore(noted, w.until))
    BY <1>0, <1>6, <2>3 DEF Became
  <2> QED BY <1>1, <2>1, <2>2, <2>3, <2>4
<1>7. CASE Crash
  <2>1. noted' = NoNotes /\ file' \in {file, {noted}} /\ Standing' \subseteq Standing
    BY <1>7 DEF Crash, Standing
  <2>2. NoNotes \in Notes
    BY FS_EmptySet DEF NoNotes, Notes
  <2> QED BY <1>0, <1>a, <2>1, <2>2
<1>8. CASE ~(Open \/ Receive \/ Note \/ NoteStored \/ NoteRead \/ Crash)
  <2>1. Standing' = Standing /\ UNCHANGED notes
    BY <1>8, NotesStay
  <2> QED BY <1>0, <1>a, <2>1 DEF notes
<1> QED BY <1>2, <1>3, <1>4, <1>5, <1>6, <1>7, <1>8

-----------------------------------------------------------------------------
(* What becomes of events.                                                 *)

(* What is settled stays so. *)
LEMMA SettledLasts ==
    ASSUME Types, Places, Starts, [Next]_vars, NEW event \in Events, Settled(event)
    PROVE  Settled(event)'
<1>1. Growing /\ Lasting
  BY NothingIsTakenBack, TopicLasts
<1>2. event \in Events' /\ Taken(event)' = Taken(event) /\ Taken(event) \in Nat /\ event \in Nat
  BY <1>1, TimesOfEvents DEF Lasting
<1>3. event < joinedAt => joined /\ joinedAt' = joinedAt
  BY <1>1, <1>2 DEF Growing, Types, Starts
<1>4. CASE event \in gathered
  BY <1>1, <1>4 DEF Growing, Settled
<1>5. CASE NearAnEnd(event)
  <2>1. NearAnEnd(event)'
    BY <1>1, <1>2, <1>5 DEF Growing, NearAnEnd
  <2> QED BY <2>1 DEF Settled
<1>6. CASE event < joinedAt /\ OthersRun
  BY <1>3, <1>6 DEF Settled
<1>7. CASE OfBefore(event) /\ \A n \in Standing : n.asked
  <2>1. joined /\ joinedAt' = joinedAt /\ event < joinedAt /\ file # {}
    BY <1>3, <1>7 DEF OfBefore, Starts
  <2>2. \A n \in Standing' : n.asked
    BY <1>7, <2>1, NotesFit DEF Became
  <2>3. asked' = asked /\ asked \in SUBSET Events
    BY <1>1, <1>7 DEF Growing, Types
  <2>4. \A e \in asked : Taken(e)' = Taken(e)
    BY <1>1, <2>3 DEF Lasting
  <2>5. CASE \A e \in asked : Taken(event) < Taken(e)
    <3>1. \A e \in asked' : Taken(event)' < Taken(e)'
      BY <1>2, <2>3, <2>4, <2>5
    <3>2. OfBefore(event)'
      BY <2>1, <3>1 DEF OfBefore
    <3> QED BY <2>2, <3>2 DEF Settled
  <2>6. CASE \E back \in ReadBack : Taken(event) < now - back
    <3>1. PICK back \in ReadBack : Taken(event) < now - back
      BY <2>6
    <3>2. back \in Nat /\ now \in Nat /\ now' \in Nat /\ now <= now'
      BY <1>1, TimesAssumption DEF Growing, Types
    <3>3. Taken(event)' < now' - back
      BY <1>2, <3>1, <3>2
    <3>4. OfBefore(event)'
      BY <2>1, <3>3 DEF OfBefore
    <3> QED BY <2>2, <3>4 DEF Settled
  <2> QED BY <1>7, <2>5, <2>6 DEF OfBefore
<1> QED BY <1>4, <1>5, <1>6, <1>7 DEF Settled

(* What waits for the store to say where it begins waits until it is noted. *)
LEMMA PendingLasts ==
    ASSUME Types, Places, Starts, [Next]_vars, ~NoteStored, NEW event \in Events, Pending(event)
    PROVE  Pending(event)'
<1>1. Growing /\ Lasting
  BY NothingIsTakenBack, TopicLasts
<1>2. Taken(event)' = Taken(event) /\ Taken(event) \in Nat /\ event \in Nat
  BY <1>1, TimesOfEvents DEF Lasting
<1>3. joined /\ joinedAt' = joinedAt /\ event < joinedAt /\ file # {}
  BY <1>1, <1>2 DEF Growing, Types, Starts, Pending
<1>4. ASSUME NEW n \in Standing' PROVE ~n.asked /\ Taken(event) < n.until
  <2>1. PICK m \in Standing : m.until <= n.until /\ m.asked = n.asked
    BY <1>3, NotesFit DEF Became
  <2>2. ~m.asked /\ Taken(event) < m.until /\ m.until \in Nat /\ m \in Notes
    BY <2>1, RunsWithNotes DEF Pending, Notes
  <2>3. n \in Notes
    BY NotesFit DEF Standing
  <2> QED BY <1>2, <2>1, <2>2, <2>3 DEF Notes
<1> QED BY <1>2, <1>3, <1>4 DEF Pending

(* No event comes to lie before a range that is noted, unless the range    *)
(* ends not much after it.                                                 *)
LEMMA ClearLasts ==
    ASSUME Types, Places, Starts, [Next]_vars, NEW event \in Events, NEW from, NEW to,
           Clear(event, from, to)
    PROVE  from <= Taken(event)' \/ Settled(event)' \/ to <= Taken(event)' + Lateness
<1>1. Taken(event)' = Taken(event)
  BY TopicLasts DEF Lasting
<1> QED BY <1>1, SettledLasts DEF Clear

LEMMA EverLasts ==
    ASSUME Types, Places, Starts, [Next]_vars, NEW from \in Int, NEW to \in Int, Ever(from, to)
    PROVE  from <= now' - Lateness \/ to <= now' \/ \E e \in ends' : from <= e.until
<1>0. now \in Nat /\ now' \in Nat /\ now <= now' /\ Lateness \in Nat
  BY NothingIsTakenBack, OrderAssumption DEF Growing, Types
<1>1. ends \subseteq ends'
  BY NothingIsTakenBack DEF Growing
<1>2. CASE from <= now - Lateness
  <2>1. from <= now' - Lateness
    <3>1. \A a, b, c, d \in Int : a <= b - d /\ b <= c => a <= c - d
      OBVIOUS
    <3>2. now \in Int /\ now' \in Int /\ Lateness \in Int
      BY <1>0
    <3> QED BY <1>0, <1>2, <3>1, <3>2
  <2> QED BY <2>1
<1>3. CASE to <= now
  <2>1. to <= now'
    BY <1>0, <1>3
  <2> QED BY <2>1
<1>4. CASE \E e \in ends : from <= e.until
  BY <1>1, <1>4
<1> QED BY <1>2, <1>3, <1>4 DEF Ever

(* An event that arrives before the end of what was read is settled by it. *)
LEMMA ArrivedIsSettled ==
    ASSUME Types, Places, Starts, Ordered, [Next]_vars, NEW event \in Events', event \notin Events,
           NEW time \in Int, NEW e \in ends, time <= e.until
    PROVE  time <= Taken(event)' \/ Settled(event)'
<1>1. /\ Taken(event)' \in Nat /\ now - Lateness <= Taken(event)' /\ Taken(event)' <= now
      /\ now \in Nat /\ Lateness \in Nat /\ StoreLag \in Nat
  BY TopicLasts, OrderAssumption DEF Lasting, Types
<1>2. e \in ends' /\ e.until \in Int /\ (e.byClock \/ e.until <= now)
  BY NothingIsTakenBack DEF Growing, Types, Ordered
<1>3. ASSUME ~(time <= Taken(event)') PROVE Settled(event)'
  <2>1. Taken(event)' < e.until
    BY <1>1, <1>2, <1>3
  <2>2. e.byClock \/ e.until <= Taken(event)' + Lateness + StoreLag
    BY <1>1, <1>2
  <2>3. NearAnEnd(event)'
    BY <1>2, <2>1, <2>2 DEF NearAnEnd
  <2> QED BY <2>3 DEF Settled
<1> QED BY <1>3

LEMMA ArrivedIsClear ==
    ASSUME Types, Places, Starts, Ordered, [Next]_vars, NEW event \in Events', event \notin Events,
           NEW from \in Int, NEW to \in Int, Ever(from, to)
    PROVE  from <= Taken(event)' \/ Settled(event)' \/ to <= Taken(event)' + Lateness
<1>1. /\ Taken(event)' \in Nat /\ now - Lateness <= Taken(event)' /\ Taken(event)' <= now
      /\ now \in Nat /\ Lateness \in Nat
  BY TopicLasts, OrderAssumption DEF Lasting, Types
<1>2. CASE from <= now - Lateness
  BY <1>1, <1>2
<1>3. CASE to <= now
  BY <1>1, <1>3
<1>4. CASE \E e \in ends : from <= e.until
  BY <1>4, ArrivedIsSettled
<1> QED BY <1>2, <1>3, <1>4 DEF Ever

-----------------------------------------------------------------------------
(* Types, places and the order of events.                                  *)

(* What a look takes is a part of a range. *)
LEMMA Looks ==
    ASSUME Types, Look, NEW w \in work'
    PROVE  \E r \in noted.ranges :
              /\ w \in Works /\ w.from = r.from /\ w.until <= r.to /\ r \in Ranges
              /\ \A s \in noted.ranges : r.from <= s.from
<1>1. PICK r \in First(noted) : w = [from |-> r.from, until |-> Smaller(r.to, r.from + WINDOW)]
  BY DEF Look
<1>2. r \in noted.ranges /\ r \in Ranges /\ \A s \in noted.ranges : r.from <= s.from
  BY DEF First, Types, Notes
<1>3. r.from \in Int /\ r.to \in Int /\ WINDOW \in Int
  BY <1>2, TimesAssumption DEF Ranges
<1>4. Smaller(r.to, r.from + WINDOW) \in Int /\ Smaller(r.to, r.from + WINDOW) <= r.to
  BY <1>3 DEF Smaller
<1> QED BY <1>1, <1>2, <1>3, <1>4 DEF Works

(* A step keeps every variable in its type. *)
LEMMA TypesStay ==
    ASSUME Types, Places, Starts, [Next]_vars
    PROVE  Types'
<1>1. Growing /\ Lasting /\ noted' \in Notes /\ file' \in SUBSET Notes
  BY NothingIsTakenBack, TopicLasts, NotesFit
<1>2. /\ Len(log) \in Nat /\ Len(log') \in Nat /\ Len(log) <= Len(log') /\ Events \subseteq Events'
      /\ at \in Nat /\ next \in Nat /\ at <= next /\ next <= Len(log) /\ batch \subseteq 0..(next - 1)
      /\ base \in 0..Len(log) /\ stored \subseteq Events /\ asked \subseteq Events
      /\ joined \in BOOLEAN /\ joinedAt \in Nat /\ joinedAt <= at
  BY <1>1 DEF Lasting, Types
<1>3. base' \in 0..Len(log')
  <2>1. CASE Receive
    <3>1. base' \in 0..Len(log)
      BY <2>1, Receives
    <3> QED BY <1>2, <3>1
  <2>2. CASE base' = base
    BY <1>2, <2>2
  <2>3. Receive \/ base' = base
    BY DEF Next, vars, topic, Tick, Arrive, Store, Open, Observe, Gather, Acknowledge, Note, Ask,
           NoteStored, Look, Read, Wait, NoteRead, Crash
  <2> QED BY <2>1, <2>2, <2>3
<1>4. stored' \in SUBSET Events'
  <2>1. stored' = stored \/ \E event \in Events : stored' = stored \union {event}
    BY DEF Next, vars, topic, Tick, Arrive, Store, Open, Observe, Receive, Gather, Acknowledge,
           Note, Ask, NoteStored, Look, Read, Wait, NoteRead, Crash
  <2> QED BY <1>2, <2>1
<1>5. next' \in at'..Len(log') /\ batch' \in SUBSET (0..(next' - 1))
  <2>1. CASE Observe
    <3>1. next' = at' /\ at' \in {at, Len(log)} /\ batch' = {} /\ log' = log
      BY <2>1 DEF Observe, Places, topic
    <3> QED BY <1>2, <3>1
  <2>2. CASE Receive
    <3>1. PICK from \in next..Len(log), to \in next..Len(log) :
              next' = to /\ batch' = from..(to - 1)
      BY <2>2, Receives
    <3>2. at' = at /\ log' = log
      BY <2>2 DEF Receive
    <3> QED BY <1>2, <3>1, <3>2
  <2>3. CASE Acknowledge
    <3>1. at' = next /\ next' = next /\ batch' = batch /\ log' = log
      BY <2>3 DEF Acknowledge, topic
    <3> QED BY <1>2, <3>1
  <2>4. CASE Note
    <3>1. at' = at /\ next' = next /\ batch' = {} /\ log' = log
      BY <2>4 DEF Note, topic
    <3> QED BY <1>2, <3>1
  <2>5. CASE Crash
    <3>1. at' = at /\ next' = at /\ batch' = {} /\ log' = log
      BY <2>5 DEF Crash, topic
    <3> QED BY <1>2, <3>1
  <2>6. CASE UNCHANGED <<at, next, batch>>
    BY <1>2, <2>6
  <2>7. ASSUME ~(Observe \/ Receive \/ Acknowledge \/ Note \/ Crash)
        PROVE  UNCHANGED <<at, next, batch>>
    BY <2>7 DEF Next, vars, derive, Tick, Arrive, Store, Open, Gather, Ask, NoteStored, Look,
                Read, Wait, NoteRead
  <2> QED BY <2>1, <2>2, <2>3, <2>4, <2>5, <2>6, <2>7
<1>6. joined' \in BOOLEAN /\ joinedAt' \in 0..at'
  <2>1. joined' = joined \/ joined' = TRUE
    BY DEF Next, vars, derive, Tick, Arrive, Store, Open, Observe, Receive, Gather, Acknowledge,
           Note, Ask, NoteStored, Look, Read, Wait, NoteRead, Crash
  <2>2. at' \in Nat /\ at <= at' /\ (joinedAt' = joinedAt \/ (joinedAt' = Len(log) /\ at' = Len(log)))
    BY <1>1 DEF Growing
  <2>3. joined' \in BOOLEAN
    BY <1>2, <2>1
  <2>4. joinedAt' \in 0..at'
    BY <1>2, <2>2
  <2> QED BY <2>3, <2>4
<1>7. asked' \in SUBSET Events'
  <2>1. asked' = asked \/ asked' = stored
    BY DEF Next, vars, history, Tick, Arrive, Store, Open, Observe, Receive, Gather, Acknowledge,
           Note, Ask, NoteStored, Look, Read, Wait, NoteRead, Crash
  <2> QED BY <1>2, <2>1
<1>8. work' \in SUBSET Works
  <2>1. CASE Look
    BY <2>1, Looks
  <2>2. CASE ~Look
    <3>1. work' = work \/ work' = {}
      BY <2>2 DEF Next, vars, readBack, Tick, Arrive, Store, Open, Observe, Receive, Gather,
                  Acknowledge, Note, Ask, NoteStored, Read, Wait, NoteRead, Crash
    <3> QED BY <3>1 DEF Types
  <2> QED BY <2>1, <2>2
<1>9. ends' \in SUBSET [until : Int, byClock : BOOLEAN]
  <2>1. CASE Read
    <3>1. PICK w \in work :
            ends' = ends \union {[until |-> w.until, byClock |-> ~HoldsReceivedFrom(w.until)]}
      BY <2>1 DEF Read
    <3>2. PICK byClock \in BOOLEAN : ends' = ends \union {[until |-> w.until, byClock |-> byClock]}
      BY <3>1
    <3>3. w.until \in Int
      BY DEF Types, Works
    <3>4. [until |-> w.until, byClock |-> byClock] \in [until : Int, byClock : BOOLEAN]
      BY <3>3
    <3> QED BY <3>2, <3>4 DEF Types
  <2>2. CASE ~Read
    <3>1. ends' = ends
      BY <2>2 DEF Next, vars, history, Tick, Arrive, Store, Open, Observe, Receive, Gather,
                  Acknowledge, Note, Ask, NoteStored, Look, Wait, NoteRead, Crash
    <3> QED BY <3>1 DEF Types
  <2> QED BY <2>1, <2>2
<1>10. now' \in Nat /\ log' \in Seq(Nat) /\ at' \in Nat
  BY <1>1 DEF Growing, Lasting
<1> QED BY <1>1, <1>3, <1>4, <1>5, <1>6, <1>7, <1>8, <1>9, <1>10 DEF Types

(* A step keeps what goes with the places of the tasks. *)
LEMMA PlacesStay ==
    ASSUME Types, Places, Starts, [Next]_vars
    PROVE  Places'
<1>0. at \in Nat /\ next \in Nat /\ at <= next
  BY DEF Types
<1>1. CASE Tick
  BY <1>1 DEF Tick, Places, Taken, topic, derive, readBack, notes, history
<1>2. CASE Arrive
  <2>1. \A event \in asked : Taken(event)' = Taken(event)
    BY TopicLasts DEF Lasting, Types
  <2>2. UNCHANGED <<derive, readBack, notes, gathered, history>>
    BY <1>2 DEF Arrive
  <2>3. rpc = "asked" => first = {Taken(event) : event \in asked}
    BY DEF Places
  <2>4. rpc = "asked" => first = {Taken(event)' : event \in asked}
    BY <2>1, <2>3
  <2> QED BY <2>2, <2>4 DEF Places, derive, readBack, notes, history
<1>3. ASSUME NEW event \in Events \ stored, Store(event) PROVE Places'
  BY <1>3 DEF Store, Places, Taken, derive, readBack, notes, history
<1>4. CASE Open
  <2>1. file' # {}
    BY <1>4 DEF Open, Save
  <2> QED BY <1>4, <2>1 DEF Open, Places, topic, readBack, history
<1>5. CASE Observe
  BY <1>5 DEF Observe, Places, topic, notes
<1>6. CASE Receive
  <2>1. PICK from \in next..Len(log), to \in next..Len(log) :
            /\ from <= to /\ next' = to /\ batch' = from..(to - 1)
            /\ dpc' = IF from < to THEN "gathering" ELSE "receiving"
            /\ IF next < from
               THEN file' = {noted'} /\ noted'.asked = noted.asked
               ELSE UNCHANGED notes /\ Standing' = Standing
    BY <1>6, MovedOn
  <2>2. batch' \subseteq at..(next' - 1) /\ (dpc' = "receiving" => batch' = {})
    BY <1>0, <2>1
  <2>3. dpc = "receiving" /\ UNCHANGED <<at, log, rpc, work, first, gathered, asked>>
    BY <1>6 DEF Receive, readBack, history
  <2>4. noted'.asked = noted.asked /\ (file # {} => file' # {})
    <3>1. CASE next < from
      BY <2>1, <3>1
    <3>2. CASE ~(next < from)
      BY <2>1, <3>2 DEF notes
    <3> QED BY <3>1, <3>2
  <2> QED BY <2>1, <2>2, <2>3, <2>4 DEF Places, Taken
<1>7. CASE Gather
  BY <1>7 DEF Gather, Places, Taken, topic, readBack, notes, history
<1>8. CASE Acknowledge
  BY <1>8 DEF Acknowledge, Places, Taken, topic, readBack, notes, history
<1>9. CASE Note
  <2>1. noted'.asked = noted.asked /\ file' # {}
    <3>1. noted' = Furthered(noted) /\ file' \in {file, {Furthered(noted)}} /\ dpc # "off"
      BY <1>9 DEF Note, Furthered, Maximal
    <3> QED BY <3>1, Furthers DEF Types, Places
  <2> QED BY <1>9, <2>1 DEF Note, Places, Taken, topic, readBack, history
<1>10. CASE Ask
  BY <1>10 DEF Ask, Places, Taken, topic, derive, notes
<1>11. CASE NoteStored
  <2>1. file' # {}
    BY <1>11 DEF NoteStored, Save
  <2> QED BY <1>11, <2>1 DEF NoteStored, Places, topic, derive, history
<1>12. CASE Look
  BY <1>12 DEF Look, Places, topic, derive, notes, history
<1>13. CASE Read
  <2>1. /\ rpc = "reading" /\ rpc' = "read" /\ gathered \subseteq gathered'
        /\ UNCHANGED <<topic, derive, work, first, notes>>
    BY <1>13 DEF Read
  <2> QED BY <2>1 DEF Places, topic, derive, notes
<1>14. CASE Wait
  BY <1>14 DEF Wait, Places, topic, derive, notes, history
<1>15. CASE NoteRead
  <2>1. file' # {}
    BY <1>15 DEF NoteRead, Save
  <2> QED BY <1>15, <2>1 DEF NoteRead, Places, topic, derive, history
<1>16. CASE Crash
  BY <1>16 DEF Crash, Places, topic, history
<1>17. CASE UNCHANGED vars
  BY <1>17 DEF vars, Places, Taken, topic, derive, readBack, notes, history
<1> QED BY <1>1, <1>2, <1>3, <1>4, <1>5, <1>6, <1>7, <1>8, <1>9, <1>10, <1>11, <1>12, <1>13,
           <1>14, <1>15, <1>16, <1>17 DEF Next

(* Until the role is known to the topic its notes begin after all that its  *)
(* own process sent.                                                       *)
LEMMA StartsStay ==
    ASSUME Types, Places, Starts, [Next]_vars
    PROVE  Starts'
<1>1. Growing /\ Lasting
  BY NothingIsTakenBack, TopicLasts
<1>2. CASE joined
  <2>1. joined' /\ file # {}
    BY <1>1, <1>2 DEF Growing, Starts
  <2>2. file' = file \/ \E n : file' = {n}
    BY DEF Next, vars, notes, Save, Tick, Arrive, Store, Open, Observe, Receive, Gather, Acknowledge,
           Note, Ask, NoteStored, Look, Read, Wait, NoteRead, Crash
  <2> QED BY <2>1, <2>2 DEF Starts
<1>3. CASE ~joined
  <2>1. /\ rpc = "off" /\ at = 0 /\ dpc \in {"off", "opened"}
        /\ \A n \in Standing : n.ranges = {} /\ ~n.asked
        /\ OthersRun \/ \A n \in Standing, event \in Events : Taken(event) < n.until
    BY <1>3 DEF Starts, Places
  <2>2. CASE Observe
    BY <2>1, <2>2 DEF Observe, Places, Starts, notes
  <2>3. CASE Open
    <3>1. PICK n \in IF file = {} THEN {Begun} ELSE file : Save(n)
      BY <2>3 DEF Open, Begun
    <3>2. /\ Standing' = {n} /\ Events' = Events /\ UNCHANGED <<joined, rpc, at>>
          /\ \A event \in Events : Taken(event)' = Taken(event)
      BY <2>3, <3>1, SavedNotesStand DEF Open, readBack, topic, Events, Taken
    <3>3. n.ranges = {} /\ ~n.asked /\ (OthersRun \/ \A event \in Events : Taken(event) < n.until)
      <4>1. CASE file = {}
        <5>1. n = Begun /\ n.until = now
          BY <3>1, <4>1 DEF Begun, NoNotes
        <5>2. n.ranges = {} /\ ~n.asked
          BY <3>1, <4>1 DEF Begun, NoNotes
        <5>3. OthersRun \/ \A event \in Events : Taken(event) < now
          BY <2>3, <4>1 DEF Open
        <5> QED BY <5>1, <5>2, <5>3
      <4>2. CASE file # {}
        <5>1. n \in Standing
          BY <3>1, <4>2 DEF Standing
        <5> QED BY <2>1, <5>1
      <4> QED BY <4>1, <4>2
    <3> QED BY <1>3, <2>1, <3>2, <3>3 DEF Starts
  <2>4. CASE Crash
    <3>1. /\ Standing' \subseteq Standing /\ rpc' = "off" /\ Events' = Events
          /\ UNCHANGED <<joined, at>> /\ \A event \in Events : Taken(event)' = Taken(event)
      BY <2>4 DEF Crash, Standing, topic, Events, Taken
    <3> QED BY <1>3, <2>1, <3>1 DEF Starts
  <2>5. CASE Arrive
    <3>1. Standing' = Standing /\ UNCHANGED <<joined, rpc, at>> /\ (OthersRun \/ ~Starting)
      BY <2>5, NotesStay DEF Arrive, derive, readBack, notes, Standing
    <3>2. OthersRun \/ Standing = {}
      BY <2>1, <3>1 DEF Starting, Standing
    <3> QED BY <1>3, <2>1, <3>1, <3>2 DEF Starts
  <2>6. CASE UNCHANGED <<joined, rpc, at, notes, dpc, log>>
    <3>1. Standing' = Standing /\ Events' = Events
          /\ \A event \in Events : Taken(event)' = Taken(event)
      BY <2>6 DEF Standing, notes, Events, Taken
    <3> QED BY <1>3, <2>1, <2>6, <3>1 DEF Starts
  <2>7. Tick \/ Arrive \/ (\E event \in Events \ stored : Store(event)) \/ Open \/ Observe \/ Crash
        \/ UNCHANGED vars
    BY <2>1 DEF Next, Receive, Gather, Acknowledge, Note, Ask, NoteStored, Look, Read, Wait, NoteRead
  <2>8. ~(Observe \/ Open \/ Crash \/ Arrive) => UNCHANGED <<joined, rpc, at, notes, dpc, log>>
    BY <2>7 DEF Tick, Store, vars, topic, derive, readBack
  <2> QED BY <2>2, <2>3, <2>4, <2>5, <2>6, <2>8
<1> QED BY <1>2, <1>3 DEF Types

(* Events arrive, and are stored, almost in the order they were taken in,   *)
(* and what was read ends no later than what was stored.                   *)
LEMMA OrderedStays ==
    ASSUME Types, Places, Starts, Ordered, [Next]_vars
    PROVE  Ordered'
<1>0. /\ now \in Nat /\ Lateness \in Nat /\ StoreLag \in Nat /\ Len(log) \in Nat
      /\ stored \subseteq Events
      /\ \A event \in Events : event \in 0..(Len(log) - 1) /\ Taken(event) \in Nat
  BY OrderAssumption, TimesOfEvents DEF Types, Events
<1>1. Growing /\ Lasting
  BY NothingIsTakenBack, TopicLasts
<1>2. now' \in Nat /\ now <= now' /\ \A event \in Events : Taken(event)' = Taken(event) /\ event \in Events'
  BY <1>1 DEF Growing, Lasting
<1>3. \A event \in Events' : \/ event \in Events
                            \/ /\ event = Len(log) /\ Taken(event)' \in Nat
                               /\ now - Lateness <= Taken(event)' /\ Taken(event)' <= now
  BY <1>1 DEF Lasting
<1>4. \A event \in Events' : Taken(event)' <= now'
  <2>1. ASSUME NEW event \in Events' PROVE Taken(event)' <= now'
    <3>1. CASE event \in Events
      <4>1. Taken(event)' = Taken(event) /\ Taken(event) \in Nat /\ Taken(event) <= now
        BY <1>0, <1>2, <3>1 DEF Ordered
      <4> QED BY <1>0, <1>2, <4>1
    <3>2. CASE event \notin Events
      <4>1. Taken(event)' \in Nat /\ Taken(event)' <= now
        BY <1>3, <3>2
      <4> QED BY <1>0, <1>2, <4>1
    <3> QED BY <3>1, <3>2
  <2> QED BY <2>1
<1>5. \A e, f \in Events' : e < f => Taken(e)' <= Taken(f)' + Lateness
  <2>1. ASSUME NEW e \in Events', NEW f \in Events', e < f
        PROVE  Taken(e)' <= Taken(f)' + Lateness
    <3>1. e \in Events
      BY <1>0, <1>3, <2>1
    <3>2. CASE f \in Events
      BY <1>2, <2>1, <3>1, <3>2 DEF Ordered
    <3>3. CASE f \notin Events
      <4>1. Taken(f)' \in Nat /\ now - Lateness <= Taken(f)'
        BY <1>3, <3>3
      <4>2. Taken(e)' \in Nat /\ Taken(e)' <= now
        BY <1>0, <1>2, <3>1 DEF Ordered
      <4> QED BY <1>0, <4>1, <4>2
    <3> QED BY <3>2, <3>3
  <2> QED BY <2>1
<1>6. \A e \in stored', f \in Events' \ stored' : Taken(e)' <= Taken(f)' + Lateness + StoreLag
  <2>1. ASSUME NEW e \in stored, NEW f \in Events' \ stored'
        PROVE  Taken(e)' <= Taken(f)' + Lateness + StoreLag
    <3>1. e \in Events /\ Taken(e)' = Taken(e) /\ Taken(e) \in Nat /\ Taken(e) <= now
      BY <1>0, <1>2 DEF Ordered
    <3>2. CASE f \in Events
      <4>1. f \in Events \ stored /\ Taken(f)' = Taken(f)
        BY <1>1, <1>2, <3>2 DEF Growing
      <4> QED BY <3>1, <4>1 DEF Ordered
    <3>3. CASE f \notin Events
      <4>1. Taken(f)' \in Nat /\ now - Lateness <= Taken(f)'
        BY <1>3, <3>3
      <4> QED BY <1>0, <3>1, <4>1
    <3> QED BY <3>2, <3>3
  <2>2. CASE stored' = stored
    BY <2>1, <2>2
  <2>3. ASSUME NEW event \in Events \ stored, Store(event)
        PROVE  \A f \in Events' \ stored' : Taken(event)' <= Taken(f)' + Lateness + StoreLag
    <3>1. /\ \A earlier \in (0..event) \ stored : Taken(event) <= Taken(earlier) + StoreLag
          /\ stored' = stored \union {event} /\ Events' = Events
      BY <2>3 DEF Store, Events
    <3>2. ASSUME NEW f \in Events \ stored, f # event
          PROVE  Taken(event) <= Taken(f) + Lateness + StoreLag
      <4>1. /\ event \in Nat /\ f \in Nat /\ Taken(event) \in Nat /\ Taken(f) \in Nat
        BY <1>0
      <4>2. CASE f < event
        <5>1. Taken(event) <= Taken(f) + StoreLag
          BY <3>1, <4>1, <4>2
        <5> QED BY <1>0, <4>1, <5>1
      <4>3. CASE event < f
        <5>1. Taken(event) <= Taken(f) + Lateness
          BY <4>3 DEF Ordered
        <5> QED BY <1>0, <4>1, <5>1
      <4> QED BY <3>2, <4>1, <4>2, <4>3
    <3>3. ASSUME NEW f \in Events' \ stored'
          PROVE  Taken(event)' <= Taken(f)' + Lateness + StoreLag
      <4>1. f \in Events \ stored /\ f # event
        BY <3>1
      <4>2. Taken(event) <= Taken(f) + Lateness + StoreLag
        BY <3>2, <4>1
      <4>3. Taken(event)' = Taken(event) /\ Taken(f)' = Taken(f)
        BY <1>2, <4>1
      <4> QED BY <4>2, <4>3
    <3> QED BY <3>3
  <2>4. stored' = stored \/ \E event \in Events \ stored : Store(event)
    BY DEF Next, vars, topic, Tick, Arrive, Open, Observe, Receive, Gather, Acknowledge, Note,
           Ask, NoteStored, Look, Read, Wait, NoteRead, Crash
  <2>5. CASE \E event \in Events \ stored : Store(event)
    <3>1. PICK event \in Events \ stored : Store(event)
      BY <2>5
    <3>2. stored' = stored \union {event}
      BY <3>1 DEF Store
    <3> QED BY <2>1, <2>3, <3>1, <3>2
  <2> QED BY <2>2, <2>4, <2>5
<1>7. \A e \in ends' : e.byClock \/ e.until <= now'
  <2>1. \A e \in ends : e.until \in Int /\ (e.byClock \/ e.until <= now)
    BY DEF Types, Ordered
  <2>2. ASSUME NEW e \in ends, ~e.byClock PROVE e.until <= now'
    <3>1. e.until \in Int /\ e.until <= now
      BY <2>1, <2>2
    <3> QED BY <1>0, <1>2, <3>1
  <2>3. CASE Read
    <3>1. PICK w \in work :
            ends' = ends \union {[until |-> w.until, byClock |-> ~HoldsReceivedFrom(w.until)]}
      BY <2>3 DEF Read
    <3>2. HoldsReceivedFrom(w.until) => w.until <= now'
      <4>1. ASSUME NEW event \in stored, Taken(event) >= w.until PROVE w.until <= now'
        <5>1. Taken(event) \in Nat /\ Taken(event) <= now /\ w.until \in Int
          BY <1>0 DEF Ordered, Types, Works
        <5> QED BY <1>0, <1>2, <4>1, <5>1
      <4> QED BY <4>1 DEF HoldsReceivedFrom
    <3> DEFINE new == [until |-> w.until, byClock |-> ~HoldsReceivedFrom(w.until)]
    <3>3. new.until = w.until /\ (new.byClock \/ HoldsReceivedFrom(w.until))
      <4> HIDE DEF HoldsReceivedFrom
      <4> QED OBVIOUS
    <3>4. new.byClock \/ new.until <= now'
      <4> HIDE DEF new
      <4> QED BY <3>2, <3>3
    <3> HIDE DEF new
    <3>5. \A e \in ends' : e \in ends \/ e = new
      <4>1. ends' = ends \union {new}
        BY <3>1 DEF new
      <4> QED BY <4>1
    <3> QED BY <2>2, <3>4, <3>5
  <2>4. CASE ~Read
    <3>1. ends' = ends
      BY <2>4 DEF Next, vars, history, Tick, Arrive, Store, Open, Observe, Receive, Gather,
                  Acknowledge, Note, Ask, NoteStored, Look, Wait, NoteRead, Crash
    <3> QED BY <2>2, <3>1
  <2> QED BY <2>3, <2>4
<1> QED BY <1>4, <1>5, <1>6, <1>7 DEF Ordered

(* What is noted never comes much further than what is still to be received. *)
LEMMA BehindStays ==
    ASSUME Types, Places, Starts, Ordered, Behind, [Next]_vars
    PROVE  Behind'
<1>0. /\ now \in Nat /\ Lateness \in Nat /\ Len(log) \in Nat /\ at \in Nat /\ next \in Nat
      /\ at <= next /\ next <= Len(log) /\ batch \subseteq 0..(next - 1)
      /\ \A event \in Events : event \in 0..(Len(log) - 1) /\ Taken(event) \in Nat
      /\ \A n \in Standing : n \in Notes /\ n.until \in Nat
  <2>1. /\ now \in Nat /\ Lateness \in Nat /\ Len(log) \in Nat /\ at \in Nat /\ next \in Nat
        /\ at <= next /\ next <= Len(log) /\ batch \subseteq 0..(next - 1)
    BY OrderAssumption DEF Types
  <2>2. \A event \in Events : event \in 0..(Len(log) - 1) /\ Taken(event) \in Nat
    BY TimesOfEvents DEF Events
  <2>3. \A n \in Standing : n \in Notes /\ n.until \in Nat
    BY RunsWithNotes DEF Notes
  <2> QED BY <2>1, <2>2, <2>3
<1>1. Growing /\ Lasting
  BY NothingIsTakenBack, TopicLasts
<1>2. /\ now' \in Nat /\ now <= now' /\ at' \in Nat /\ at <= at' /\ Len(log') \in Nat
      /\ \A event \in Events : Taken(event)' = Taken(event) /\ event \in Events'
  BY <1>1 DEF Growing, Lasting
<1>3. \A event \in Events' : \/ event \in Events
                            \/ /\ event = Len(log) /\ Taken(event)' \in Nat
                               /\ now - Lateness <= Taken(event)' /\ Taken(event)' <= now
  BY <1>1 DEF Lasting
<1>4. \A event \in Ahead' : event \in Events' /\ (event \in Events => event \in Ahead)
  BY <1>0, <1>2 DEF Ahead, Events
<1>5. joined' => joined \/ Ahead' = {}
  <2>1. CASE Observe /\ ~joined
    <3>1. at' = Len(log) /\ log' = log
      BY <2>1 DEF Observe, topic
    <3> QED BY <1>0, <3>1 DEF Ahead
  <2>2. Observe \/ joined' = joined
    BY DEF Next, vars, derive, Tick, Arrive, Store, Open, Receive, Gather, Acknowledge, Note, Ask,
           NoteStored, Look, Read, Wait, NoteRead, Crash
  <2> QED BY <2>1, <2>2
<1>6. ASSUME NEW until \in Nat, until <= now,
             joined => \A event \in Ahead : until <= Taken(event) + Lateness
      PROVE  /\ until <= now'
             /\ joined' => \A event \in Ahead' : until <= Taken(event)' + Lateness
  <2>1. ASSUME NEW event \in Ahead', joined' PROVE until <= Taken(event)' + Lateness
    <3>1. CASE event \in Events
      <4>1. event \in Ahead /\ Taken(event)' = Taken(event) /\ joined
        BY <1>2, <1>4, <1>5, <2>1, <3>1
      <4> QED BY <1>6, <4>1
    <3>2. CASE event \notin Events
      <4>1. Taken(event)' \in Nat /\ now - Lateness <= Taken(event)'
        BY <1>3, <1>4, <3>2
      <4> QED BY <1>0, <1>6, <4>1
    <3> QED BY <3>1, <3>2
  <2> QED BY <1>0, <1>2, <1>6, <2>1
<1>7. ASSUME NEW n \in Standing'
      PROVE  /\ n.until \in Nat /\ n.until <= now
             /\ joined => \A event \in Ahead : n.until <= Taken(event) + Lateness
  <2>1. CASE \E m \in Standing : m.until = n.until
    BY <1>0, <2>1 DEF Behind
  <2>2. CASE Note /\ n = Furthered(noted) /\ noted \in Standing
    <3>1. /\ noted \in Notes /\ n.until = Maximal(noted)
          /\ Maximal(noted) = noted.until \/ \E event \in batch : Maximal(noted) = Taken(event)
      BY <2>2, Furthers DEF Types
    <3>2. CASE Maximal(noted) = noted.until
      BY <1>0, <2>2, <3>1, <3>2 DEF Behind
    <3>3. CASE \E event \in batch : Maximal(noted) = Taken(event)
      <4>1. PICK event \in batch : n.until = Taken(event)
        BY <3>1, <3>3
      <4>2. event \in Events /\ event < next /\ at = next
        BY <1>0, <2>2 DEF Note, Places, Events
      <4>3. \A f \in Ahead : f \in Events /\ event < f
        BY <1>0, <4>2 DEF Ahead, Events
      <4> QED BY <1>0, <4>1, <4>2, <4>3 DEF Ordered
    <3> QED BY <3>1, <3>2, <3>3
  <2>3. CASE file = {} /\ n = Begun
    <3>1. n.until = now /\ ~joined
      BY <2>3 DEF Begun, NoNotes, Starts
    <3> QED BY <1>0, <3>1
  <2> QED BY <2>1, <2>2, <2>3, NotesFit DEF Became
<1>8. ASSUME NEW n \in Standing'
      PROVE  n.until <= now' /\ (joined' => \A event \in Ahead' : n.until <= Taken(event)' + Lateness)
  BY <1>6, <1>7
<1> QED BY <1>8 DEF Behind

-----------------------------------------------------------------------------
(* The ranges that are noted.                                              *)

(* A task that runs is known to the topic, and its notes are almost behind. *)
LEMMA RunsJoined ==
    ASSUME Types, Places, Starts, Behind, rpc # "off"
    PROVE  /\ joined /\ noted \in Standing /\ noted \in Notes
           /\ noted.until \in Nat /\ noted.until <= now
           /\ \A event \in Ahead : noted.until <= Taken(event) + Lateness
<1>1. joined /\ noted \in Standing /\ noted \in Notes
  BY RunsWithNotes DEF Starts, Types
<1> QED BY <1>1 DEF Behind, Notes

(* What is ahead stays ahead, but for what is acknowledged. *)
LEMMA AheadStays ==
    ASSUME Types, Growing, Lasting
    PROVE  \A event \in Ahead' : event \in Events' /\ (event \in Events => event \in Ahead)
BY DEF Types, Growing, Lasting, Ahead, Events

(* Nothing comes to lie before a range. *)
LEMMA FitsLasts ==
    ASSUME Types, Places, Starts, Ordered, [Next]_vars, NEW r \in Ranges, Fits(r)
    PROVE  Fits(r)'
<1>1. r.from \in Int /\ r.to \in Int /\ Ever(r.from, r.to)
  BY DEF Ranges, Fits
<1>2. Ever(r.from, r.to)'
  <2>1. r.from <= now' - Lateness \/ r.to <= now' \/ \E e \in ends' : r.from <= e.until
    BY <1>1, EverLasts
  <2> QED BY <2>1 DEF Ever
<1>3. ASSUME NEW event \in Ahead' PROVE Clear(event, r.from, r.to)'
  <2>1. event \in Events' /\ (event \in Events => event \in Ahead)
    BY AheadStays, NothingIsTakenBack, TopicLasts
  <2>2. r.from <= Taken(event)' \/ Settled(event)' \/ r.to <= Taken(event)' + Lateness
    <3>1. CASE event \in Events
      <4>1. Clear(event, r.from, r.to)
        BY <2>1, <3>1 DEF Fits
      <4> QED BY <3>1, <4>1, ClearLasts
    <3>2. CASE event \notin Events
      BY <1>1, <2>1, <3>2, ArrivedIsClear
    <3> QED BY <3>1, <3>2
  <2> QED BY <2>2 DEF Clear
<1> QED BY <1>2, <1>3 DEF Fits

(* Nothing lies before a merged range if nothing does before its parts. *)
LEMMA FitsMerging ==
    ASSUME Types, NEW R \in SUBSET Ranges, IsFiniteSet(R), NEW new \in Ranges,
           \A r \in R \union {new} : Fits(r)
    PROVE  \A s \in MergedInto(R, new) : s \in Ranges /\ Fits(s)
<1>0. /\ now \in Int /\ Lateness \in Int /\ now - Lateness \in Int /\ \A e \in ends : e.until \in Int
      /\ \A event \in Ahead : Taken(event) \in Int /\ Taken(event) + Lateness \in Int
  <2>1. now \in Nat /\ Lateness \in Nat /\ \A e \in ends : e.until \in Int
    BY OrderAssumption DEF Types
  <2>2. \A event \in Ahead : event \in Events
    BY DEF Ahead, Events, Types
  <2>3. \A event \in Ahead : Taken(event) \in Nat
    BY <2>2, TimesOfEvents
  <2> QED BY <2>1, <2>3
<1>1. MergedInto(R, new) \in SUBSET Ranges
  BY MergingKeeps
<1>2. \A s \in MergedInto(R, new) : Ever(s.from, s.to)
  <2> DEFINE times == {now - Lateness} \union {e.until : e \in ends}
  <2>1. times \in SUBSET Int
    BY <1>0
  <2>2. \A from, to : Ever(from, to) <=> to <= now \/ \E time \in times : from <= time
    BY DEF Ever
  <2> HIDE DEF times
  <2>3. \A r \in R \union {new} : r.to <= now \/ \E time \in times : r.from <= time
    BY <2>2 DEF Fits
  <2>4. \A s \in MergedInto(R, new) : s.to <= now \/ \E time \in times : s.from <= time
    BY <1>0, <2>1, <2>3, MergingKeeps
  <2> QED BY <2>2, <2>4
<1>3. ASSUME NEW event \in Ahead PROVE \A s \in MergedInto(R, new) : Clear(event, s.from, s.to)
  <2>1. CASE Settled(event)
    BY <2>1 DEF Clear
  <2>2. CASE ~Settled(event)
    <3> DEFINE times == {Taken(event)}
               end == Taken(event) + Lateness
    <3>1. times \in SUBSET Int /\ end \in Int
      BY <1>0
    <3>2. \A from, to : Clear(event, from, to) <=> to <= end \/ \E time \in times : from <= time
      BY <2>2 DEF Clear
    <3> HIDE DEF times, end
    <3>3. \A r \in R \union {new} : r.to <= end \/ \E time \in times : r.from <= time
      BY <3>2 DEF Fits
    <3>4. \A s \in MergedInto(R, new) : s.to <= end \/ \E time \in times : s.from <= time
      BY <3>1, <3>3, MergingKeeps
    <3> QED BY <3>2, <3>4
  <2> QED BY <2>1, <2>2
<1> QED BY <1>1, <1>2, <1>3 DEF Fits

(* What the notes become that are saved when the role was moved on. *)
LEMMA MovedOnFits ==
    ASSUME Types, Places, Starts, Behind, Below, Receive
    PROVE  \/ Standing' = Standing
           \/ /\ Standing' = {noted'}
              /\ \A r \in noted'.ranges : r \in Ranges /\ Fits(r)
<1>0. rpc # "off" /\ now \in Nat
  BY DEF Places, Receive, Types
<1>1. PICK from \in next..Len(log), to \in next..Len(log) :
          /\ Resumed(from, to) \in Nat
          /\ IF next < from
             THEN LET new == Widened(noted, Resumed(from, to))
                  IN  /\ Standing' = {noted'}
                      /\ new \in Ranges /\ noted'.ranges = MergedInto(noted.ranges, new)
             ELSE Standing' = Standing
  BY MovedOn
<1>2. CASE next < from
  <2> DEFINE new == Widened(noted, Resumed(from, to))
  <2>1. /\ new \in Ranges /\ new.from = Smaller(noted.until, Resumed(from, to)) - DISORDER
        /\ Standing' = {noted'} /\ noted'.ranges = MergedInto(noted.ranges, new)
    BY <1>1, <1>2 DEF Widened
  <2>2. new.from <= noted.until - DISORDER /\ new.from \in Int /\ noted.until \in Nat
    BY <1>0, <1>1, <2>1, RunsJoined, OrderAssumption DEF Smaller, Ranges
  <2> HIDE DEF new
  <2>3. DISORDER \in Nat /\ Lateness \in Nat /\ Lateness <= DISORDER
    BY OrderAssumption
  <2>4. Ever(new.from, new.to)
    <3>1. noted.until <= now
      BY <1>0, RunsJoined
    <3>2. new.from <= now - Lateness
      BY <1>0, <2>2, <2>3, <3>1
    <3> QED BY <3>2 DEF Ever
  <2>5. ASSUME NEW event \in Ahead PROVE Clear(event, new.from, new.to)
    <3>1. event \in Events
      BY DEF Ahead, Events, Types
    <3>2. Taken(event) \in Nat /\ noted.until <= Taken(event) + Lateness
      BY <1>0, <3>1, RunsJoined, TimesOfEvents
    <3>3. new.from <= Taken(event)
      BY <2>2, <2>3, <3>2
    <3> QED BY <3>3 DEF Clear
  <2>6. /\ noted.ranges \in SUBSET Ranges /\ IsFiniteSet(noted.ranges)
        /\ \A r \in noted.ranges \union {new} : Fits(r)
    <3>1. noted \in Standing /\ noted \in Notes
      BY <1>0, RunsJoined
    <3> QED BY <2>4, <2>5, <3>1 DEF Notes, Below, Fits
  <2> QED BY <2>1, <2>6, FitsMerging
<1> QED BY <1>1, <1>2

(* ... when it is known where the store begins. *)
LEMMA StoredFits ==
    ASSUME Types, Places, Starts, Behind, Below, NoteStored
    PROVE  /\ Standing' = {noted'}
           /\ \A r \in noted'.ranges : r \in Ranges /\ Fits(r)
<1>0. /\ rpc # "off" /\ now \in Nat /\ noted' = StoredFrom(noted, Earliest(first))
      /\ Standing' = {noted'} /\ first = {Taken(event) : event \in asked} /\ asked \in SUBSET Events
  <2>1. rpc = "asked" /\ Save(StoredFrom(noted, Earliest(first)))
    BY DEF NoteStored
  <2> QED BY <2>1, SavedNotesStand DEF Places, Types
<1>1. Earliest(first) \in SUBSET Nat /\ IsFiniteSet(Earliest(first))
  BY <1>0, EarliestIsTime
<1>2. /\ noted \in Notes /\ noted \in Standing /\ noted.until \in Nat /\ noted.until <= now
      /\ \A event \in Ahead : noted.until <= Taken(event) + Lateness
  BY <1>0, RunsJoined
<1>3. /\ noted' \in Notes
      /\ \/ noted'.ranges = noted.ranges
         \/ \E from \in Earliest(first) \union {now - back : back \in ReadBack} :
               noted'.ranges = MergedInto(noted.ranges, [from |-> from, to |-> noted.until])
  BY <1>0, <1>1, <1>2, StoredFromKeeps
<1>4. /\ noted.ranges \in SUBSET Ranges /\ IsFiniteSet(noted.ranges)
      /\ \A r \in noted.ranges : Fits(r)
  BY <1>2 DEF Notes, Below
<1>5. ASSUME NEW from \in Earliest(first) \union {now - back : back \in ReadBack},
             noted'.ranges = MergedInto(noted.ranges, [from |-> from, to |-> noted.until])
      PROVE  \A r \in noted'.ranges : r \in Ranges /\ Fits(r)
  <2> DEFINE new == [from |-> from, to |-> noted.until]
  <2>1. from \in Int
    <3>1. \A back \in ReadBack : now - back \in Int
      BY <1>0, TimesAssumption
    <3> QED BY <1>1, <3>1
  <2>2. new \in Ranges /\ new.to = noted.until
    BY <1>2, <2>1 DEF Ranges
  <2> HIDE DEF new
  <2>3. Fits(new)
    BY <1>2, <2>2 DEF Fits, Ever, Clear
  <2> QED BY <1>4, <1>5, <2>2, <2>3, FitsMerging DEF new
<1> QED BY <1>0, <1>3, <1>4, <1>5

(* ... and when a part was read. *)
LEMMA ReadFits ==
    ASSUME Types, Places, Starts, Behind, Below, Working, NoteRead
    PROVE  /\ Standing' = {noted'}
           /\ \A r \in noted'.ranges : r \in Ranges /\ Fits(r)
<1>1. PICK w \in work : Save(ReadFromStore(noted, w.until))
  BY DEF NoteRead
<1>2. /\ rpc = "read" /\ w.until \in Int /\ Over(w)
      /\ noted \in Notes /\ noted \in Standing
  BY RunsJoined DEF NoteRead, Types, Works, Working
<1>3. /\ noted' \in Notes
      /\ \A s \in noted'.ranges : \E r \in noted.ranges :
            s.to = r.to /\ (s.from = r.from \/ s.from = w.until)
      /\ Standing' = {noted'}
  BY <1>1, <1>2, SavedNotesStand, ReadKeeps
<1>4. ASSUME NEW s \in noted'.ranges PROVE s \in Ranges /\ Fits(s)
  <2>1. s \in Ranges
    BY <1>3 DEF Notes
  <2>2. PICK r \in noted.ranges : s.to = r.to /\ (s.from = r.from \/ s.from = w.until)
    BY <1>3
  <2>3. Fits(r)
    BY <1>2 DEF Below
  <2>4. CASE s.from = r.from
    BY <2>1, <2>2, <2>3, <2>4 DEF Fits
  <2>5. CASE s.from = w.until
    <3>1. Ever(s.from, s.to)
      BY <1>2, <2>5 DEF Over, Ever
    <3>2. ASSUME NEW event \in Ahead PROVE Clear(event, s.from, s.to)
      <4>1. event \in Events /\ event \in Nat /\ at <= event /\ joinedAt <= at /\ joinedAt \in Nat /\ at \in Nat
        BY DEF Ahead, Events, Types
      <4>2. ~Pending(event)
        BY <4>1 DEF Pending
      <4> QED BY <1>2, <2>5, <4>1, <4>2 DEF Over, Clear
    <3> QED BY <2>1, <3>1, <3>2 DEF Fits
  <2> QED BY <2>2, <2>4, <2>5
<1> QED BY <1>3, <1>4

LEMMA BelowStays ==
    ASSUME Types, Places, Starts, Ordered, Behind, Below, Working, [Next]_vars
    PROVE  Below'
<1>1. ASSUME NEW n \in Standing' PROVE \A r \in n.ranges : r \in Ranges /\ Fits(r)
  <2>1. CASE \E m \in Standing : m.ranges = n.ranges
    BY <2>1, RunsWithNotes DEF Below, Notes
  <2>2. CASE file = {} /\ n = Begun
    BY <2>2 DEF Begun, NoNotes
  <2>3. CASE Receive
    BY <2>1, <2>3, MovedOnFits
  <2>4. CASE NoteStored
    BY <2>4, StoredFits
  <2>5. CASE NoteRead
    BY <2>5, ReadFits
  <2> QED BY <2>1, <2>2, <2>3, <2>4, <2>5, NotesFit DEF Became
<1>2. ASSUME NEW n \in Standing', NEW r \in n.ranges PROVE Fits(r)'
  BY <1>1, <1>2, FitsLasts
<1> QED BY <1>2 DEF Below

-----------------------------------------------------------------------------
(* The ranges that are noted lie apart.                                    *)

(* A range comes to lie apart from the others when it is made one with those *)
(* it touches.                                                             *)
LEMMA MergingParts ==
    ASSUME NEW R \in SUBSET Ranges, IsFiniteSet(R), Parted(R), NEW new \in Ranges, new.from <= new.to
    PROVE  Parted(MergedInto(R, new))
<1> DEFINE m == Merged(R, new)
           T == Touching(R, new)
<1>1. /\ m \in Ranges
      /\ \A r \in T : m.from <= r.from /\ r.to <= m.to
      /\ \E r \in T : m.from = r.from
      /\ \E r \in T : m.to = r.to
  BY MergedHolds
<1>2. /\ MergedInto(R, new) = (R \ T) \union {m}
      /\ \A r \in T : r = new \/ (r \in R /\ r.from <= new.to /\ new.from <= r.to)
      /\ \A r \in R \ T : ~(r.from <= new.to /\ new.from <= r.to)
      /\ new \in T
  BY DEF MergedInto, Touching
<1>3. \A r \in R \union {new} \union {m} : r.from \in Int /\ r.to \in Int
  BY <1>1 DEF Ranges
<1> HIDE DEF m, T
<1>4. m.from <= m.to
  <2>1. m.from <= new.from /\ new.to <= m.to
    BY <1>1, <1>2
  <2> QED BY <1>3, <2>1
<1>5. ASSUME NEW s \in R \ T PROVE s.to < m.from \/ m.to < s.from
  <2>1. s.to < new.from \/ new.to < s.from
    BY <1>2, <1>3
  <2>2. s.from <= s.to /\ \A r \in R \intersect T : s.to < r.from \/ r.to < s.from
    BY DEF Parted
  <2>3. CASE s.to < new.from
    <3>1. PICK r \in T : m.from = r.from
      BY <1>1
    <3>2. s.to < r.from
      <4>1. CASE r = new
        BY <2>3, <4>1
      <4>2. CASE r # new
        <5>1. r \in R /\ r \in R \intersect T /\ new.from <= r.to
          BY <1>2, <4>2
        <5> QED BY <1>3, <2>2, <2>3, <5>1
      <4> QED BY <4>1, <4>2
    <3> QED BY <3>1, <3>2
  <2>4. CASE new.to < s.from
    <3>1. PICK r \in T : m.to = r.to
      BY <1>1
    <3>2. r.to < s.from
      <4>1. CASE r = new
        BY <2>4, <4>1
      <4>2. CASE r # new
        <5>1. r \in R /\ r \in R \intersect T /\ r.from <= new.to
          BY <1>2, <4>2
        <5> QED BY <1>3, <2>2, <2>4, <5>1
      <4> QED BY <4>1, <4>2
    <3> QED BY <3>1, <3>2
  <2> QED BY <2>1, <2>3, <2>4
<1>6. \A r, s \in (R \ T) \union {m} : r.from <= r.to /\ (r = s \/ r.to < s.from \/ s.to < r.from)
  <2>1. \A r, s \in R \ T : r.from <= r.to /\ (r = s \/ r.to < s.from \/ s.to < r.from)
    BY DEF Parted
  <2> QED BY <1>4, <1>5, <2>1
<1> QED BY <1>2, <1>6 DEF Parted

(* What is left of the first range lies where it lay. *)
LEMMA ReadParts ==
    ASSUME NEW n \in Notes, Parted(n.ranges), NEW until \in Int
    PROVE  Parted(ReadFromStore(n, until).ranges)
<1> DEFINE cut(f) == [f EXCEPT !.from = Larger(f.from, until)]
           left == {r \in {cut(f) : f \in First(n)} : r.from < r.to}
<1>1. /\ n.ranges \subseteq Ranges /\ First(n) \subseteq n.ranges
      /\ \A r \in n.ranges : r.from \in Int /\ r.to \in Int
  BY DEF Notes, Ranges, First
<1>2. ReadFromStore(n, until).ranges = (n.ranges \ First(n)) \union left
  BY DEF ReadFromStore, Notes
<1>3. \A f \in First(n) : cut(f).from = Larger(f.from, until) /\ cut(f).to = f.to
  BY <1>1 DEF Ranges
<1>4. \A r \in left : \E f \in First(n) : r = cut(f) /\ r.from < r.to
  OBVIOUS
<1> HIDE DEF cut, left
<1>5. ASSUME NEW r \in left PROVE \E f \in n.ranges : /\ f \in First(n) /\ r = cut(f) /\ r.to = f.to
                                                    /\ f.from <= r.from /\ r.from \in Int
                                                    /\ r.from < r.to
  <2>1. PICK f \in First(n) : r = cut(f) /\ r.from < r.to
    BY <1>4
  <2>2. f \in n.ranges /\ r.from = Larger(f.from, until) /\ r.to = f.to
    BY <1>1, <1>3, <2>1
  <2>3. f.from <= r.from /\ r.from \in Int
    BY <1>1, <2>2 DEF Larger
  <2> QED BY <2>1, <2>2, <2>3
<1>6. ASSUME NEW r \in left, NEW s \in left PROVE r.from <= r.to /\ r = s
  <2>1. PICK f \in n.ranges : f \in First(n) /\ r = cut(f) /\ r.to = f.to /\ r.from \in Int /\ r.from < r.to
    BY <1>5
  <2>2. PICK g \in n.ranges : g \in First(n) /\ s = cut(g)
    BY <1>5
  <2>3. f.from <= g.from /\ g.from <= f.from /\ f.from <= f.to /\ g.from <= g.to
    BY <2>1, <2>2 DEF First, Parted
  <2>4. f = g
    BY <1>1, <2>3 DEF Parted
  <2>5. r.from <= r.to
    BY <1>1, <2>1
  <2> QED BY <2>1, <2>2, <2>4, <2>5
<1>7. ASSUME NEW r \in left, NEW s \in n.ranges \ First(n)
      PROVE  r.to < s.from \/ s.to < r.from
  <2>1. PICK f \in n.ranges : f \in First(n) /\ r.to = f.to /\ f.from <= r.from /\ r.from \in Int
    BY <1>5
  <2>2. f.to < s.from \/ s.to < f.from
    BY <1>7, <2>1 DEF Parted
  <2> QED BY <1>1, <2>1, <2>2
<1>8. \A r, s \in (n.ranges \ First(n)) \union left :
          r.from <= r.to /\ (r = s \/ r.to < s.from \/ s.to < r.from)
  <2>1. \A r, s \in n.ranges : r.from <= r.to /\ (r = s \/ r.to < s.from \/ s.to < r.from)
    BY DEF Parted
  <2> QED BY <1>6, <1>7, <2>1
<1> QED BY <1>2, <1>8 DEF Parted

LEMMA ApartStays ==
    ASSUME Types, Places, Apart, [Next]_vars
    PROVE  Apart'
<1>1. ASSUME NEW n \in Standing' PROVE Parted(n.ranges)
  <2>1. CASE \E m \in Standing : m.ranges = n.ranges
    BY <2>1 DEF Apart
  <2>2. CASE file = {} /\ n = Begun
    BY <2>2 DEF Begun, NoNotes, Parted
  <2>3. CASE Receive
    <3>1. PICK from \in next..Len(log), to \in next..Len(log) :
              /\ noted \in Standing /\ noted \in Notes /\ Resumed(from, to) \in Nat
              /\ IF next < from
                 THEN LET new == Widened(noted, Resumed(from, to))
                      IN  /\ Standing' = {noted'} /\ new \in Ranges
                          /\ noted'.ranges = MergedInto(noted.ranges, new)
                 ELSE Standing' = Standing
      BY <2>3, MovedOn
    <3>2. CASE next < from
      <4> DEFINE new == Widened(noted, Resumed(from, to))
      <4>1. new.from <= new.to
        BY <3>1, OrderAssumption DEF Widened, Smaller, Notes
      <4>2. new \in Ranges /\ n = noted' /\ noted'.ranges = MergedInto(noted.ranges, new)
        BY <3>1, <3>2
      <4> HIDE DEF new
      <4>3. noted.ranges \in SUBSET Ranges /\ IsFiniteSet(noted.ranges) /\ Parted(noted.ranges)
        BY <3>1 DEF Apart, Notes
      <4> QED BY <4>1, <4>2, <4>3, MergingParts
    <3>3. CASE ~(next < from)
      BY <3>1, <3>3 DEF Apart
    <3> QED BY <3>2, <3>3
  <2>4. CASE NoteStored
    <3>1. /\ rpc = "asked" /\ n = StoredFrom(noted, Earliest(first)) /\ now \in Nat
          /\ asked \in SUBSET Events /\ first = {Taken(event) : event \in asked}
          /\ noted \in Notes /\ noted \in Standing
      BY <2>4, RunsWithNotes, SavedNotesStand DEF NoteStored, Places, Types
    <3>2. Earliest(first) \in SUBSET Nat /\ IsFiniteSet(Earliest(first))
      BY <3>1, EarliestIsTime
    <3>3. /\ noted.ranges \in SUBSET Ranges /\ IsFiniteSet(noted.ranges) /\ Parted(noted.ranges)
          /\ noted.until \in Nat
      BY <3>1 DEF Apart, Notes
    <3>4. CASE n.ranges = noted.ranges
      BY <3>3, <3>4
    <3>5. ASSUME NEW from \in Earliest(first) \union {now - back : back \in ReadBack},
                 from < noted.until,
                 n.ranges = MergedInto(noted.ranges, [from |-> from, to |-> noted.until])
          PROVE  Parted(n.ranges)
      <4> DEFINE new == [from |-> from, to |-> noted.until]
      <4>1. from \in Int
        <5>1. \A back \in ReadBack : now - back \in Int
          BY <3>1, TimesAssumption
        <5> QED BY <3>2, <5>1
      <4>2. new \in Ranges /\ new.from <= new.to
        BY <3>3, <3>5, <4>1 DEF Ranges
      <4>3. n.ranges = MergedInto(noted.ranges, new)
        BY <3>5
      <4> HIDE DEF new
      <4> QED BY <3>3, <4>2, <4>3, MergingParts
    <3> QED BY <3>1, <3>2, <3>4, <3>5, StoredFromKeeps
  <2>5. CASE NoteRead
    <3>1. PICK w \in work : Save(ReadFromStore(noted, w.until)) /\ rpc = "read"
      BY <2>5 DEF NoteRead
    <3>2. n = ReadFromStore(noted, w.until) /\ noted \in Notes /\ noted \in Standing /\ w.until \in Int
      BY <3>1, RunsWithNotes, SavedNotesStand DEF Types, Works
    <3> QED BY <3>2, ReadParts DEF Apart
  <2> QED BY <2>1, <2>2, <2>3, <2>4, <2>5, NotesFit DEF Became
<1> QED BY <1>1 DEF Apart

-----------------------------------------------------------------------------
(* What was received, or passed, is safe.                                  *)

(* A time that lies in a noted range does, unless that is read. *)
LEMMA InRangeLasts ==
    ASSUME Types, Places, Starts, [Next]_vars, joined, ~NoteRead, NEW event \in Events, InRange(event)
    PROVE  InRange(event)'
<1>0. Taken(event) \in Int /\ Taken(event)' = Taken(event) /\ file # {}
  BY TimesOfEvents, TopicLasts DEF Lasting, Starts
<1>1. ASSUME NEW new \in Ranges, noted \in Standing, noted \in Notes
      PROVE  \E r \in MergedInto(noted.ranges, new) : Within(Taken(event), r)
  <2>1. PICK r \in noted.ranges : Within(Taken(event), r)
    BY <1>1 DEF InRange
  <2>2. noted.ranges \in SUBSET Ranges /\ IsFiniteSet(noted.ranges)
    BY <1>1 DEF Notes
  <2> QED BY <1>0, <2>1, <2>2, MergingKeeps
<1>2. ASSUME NEW n \in Standing' PROVE \E r \in n.ranges : Within(Taken(event), r)
  <2>1. CASE \E m \in Standing : m.ranges = n.ranges
    BY <2>1 DEF InRange
  <2>2. CASE Receive
    <3>1. PICK from \in next..Len(log), to \in next..Len(log) :
              /\ noted \in Standing /\ noted \in Notes
              /\ IF next < from
                 THEN LET new == Widened(noted, Resumed(from, to))
                      IN  /\ Standing' = {noted'} /\ new \in Ranges
                          /\ noted'.ranges = MergedInto(noted.ranges, new)
                 ELSE Standing' = Standing
      BY <2>2, MovedOn
    <3>2. CASE next < from
      BY <1>1, <3>1, <3>2
    <3>3. CASE ~(next < from)
      BY <3>1, <3>3 DEF InRange
    <3> QED BY <3>2, <3>3
  <2>3. CASE NoteStored
    <3>1. /\ rpc = "asked" /\ n = StoredFrom(noted, Earliest(first)) /\ now \in Nat
          /\ asked \in SUBSET Events /\ first = {Taken(e) : e \in asked}
          /\ noted \in Notes /\ noted \in Standing
      BY <2>3, RunsWithNotes, SavedNotesStand DEF NoteStored, Places, Types
    <3>2. Earliest(first) \in SUBSET Nat /\ IsFiniteSet(Earliest(first))
      BY <3>1, EarliestIsTime
    <3>3. CASE n.ranges = noted.ranges
      BY <3>1, <3>3 DEF InRange
    <3>4. ASSUME NEW from \in Earliest(first) \union {now - back : back \in ReadBack},
                 n.ranges = MergedInto(noted.ranges, [from |-> from, to |-> noted.until])
          PROVE  \E r \in n.ranges : Within(Taken(event), r)
      <4>1. from \in Int /\ noted.until \in Nat
        <5>1. \A back \in ReadBack : now - back \in Int
          BY <3>1, TimesAssumption
        <5> QED BY <3>1, <3>2, <5>1 DEF Notes
      <4>2. [from |-> from, to |-> noted.until] \in Ranges
        BY <4>1 DEF Ranges
      <4> QED BY <1>1, <3>1, <3>4, <4>2
    <3> QED BY <3>1, <3>2, <3>3, <3>4, StoredFromKeeps
  <2> QED BY <1>0, <2>1, <2>2, <2>3, NotesFit DEF Became
<1> QED BY <1>0, <1>2 DEF InRange

(* What waits for the store to say where it begins is noted then, or older  *)
(* than all that was stored, or than what is read back.                    *)
LEMMA PendingIsNoted ==
    ASSUME Types, Places, Starts, Behind, [Next]_vars, NoteStored, NEW event \in Events, Pending(event)
    PROVE  Settled(event)' \/ InRange(event)'
<1> DEFINE begins == Earliest(first)
           starts == begins \union {now - back : back \in ReadBack}
<1>1. /\ rpc = "asked" /\ noted' = StoredFrom(noted, begins) /\ Standing' = {noted'}
      /\ UNCHANGED <<now, log, asked, joinedAt>>
  BY SavedNotesStand DEF NoteStored, topic, history
<1>2. /\ now \in Nat /\ asked \in SUBSET Events /\ first = {Taken(e) : e \in asked}
      /\ event < joinedAt /\ Taken(event) \in Nat
      /\ \A e \in Events : Taken(e) \in Nat /\ Taken(e)' = Taken(e)
  BY <1>1, TimesOfEvents DEF Types, Places, Pending, Taken
<1>3. /\ begins \in SUBSET Nat /\ IsFiniteSet(begins) /\ (begins = {} => asked = {})
      /\ \A begin \in begins, e \in asked : begin <= Taken(e)
  BY <1>2, EarliestIsTime
<1>4. /\ noted \in Notes /\ noted \in Standing /\ noted.until \in Nat /\ noted.until <= now
      /\ Taken(event) < noted.until
  BY <1>1, RunsJoined DEF Pending
<1>5. /\ noted'.asked
      /\ \/ /\ begins = {} \/ ReadBack = {0} \/ \E from \in starts : noted.until <= from
         \/ \E from \in starts :
               /\ from < noted.until
               /\ noted'.ranges = MergedInto(noted.ranges, [from |-> from, to |-> noted.until])
  BY <1>1, <1>2, <1>3, <1>4, StoredFromKeeps
<1> HIDE DEF begins
<1>6. ASSUME (\A e \in asked : Taken(event) < Taken(e)) \/ \E back \in ReadBack : Taken(event) < now - back
      PROVE  Settled(event)'
  <2>1. OfBefore(event)
    BY <1>2, <1>6 DEF OfBefore
  <2>2. OfBefore(event)'
    <3>1. Taken(event)' = Taken(event) /\ \A e \in asked : Taken(e)' = Taken(e)
      BY <1>2
    <3>2. CASE \A e \in asked : Taken(event) < Taken(e)
      <4>1. \A e \in asked' : Taken(event)' < Taken(e)'
        BY <1>1, <3>1, <3>2
      <4> QED BY <1>1, <1>2, <4>1 DEF OfBefore
    <3>3. CASE \E back \in ReadBack : Taken(event) < now - back
      <4>1. \E back \in ReadBack : Taken(event)' < now' - back
        BY <1>1, <3>1, <3>3
      <4> QED BY <1>1, <1>2, <4>1 DEF OfBefore
    <3> QED BY <1>6, <3>2, <3>3
  <2> QED BY <1>1, <1>5, <2>2 DEF Settled
<1>7. ASSUME NEW from \in starts, Taken(event) < from
      PROVE  Settled(event)'
  <2>1. CASE from \in begins
    <3>1. \A e \in asked : Taken(event) < Taken(e)
      <4>1. from \in Nat /\ \A e \in asked : from <= Taken(e) /\ Taken(e) \in Nat
        BY <1>2, <1>3, <2>1
      <4> QED BY <1>2, <1>7, <4>1
    <3> QED BY <1>6, <3>1
  <2>2. CASE from \in {now - back : back \in ReadBack}
    BY <1>6, <1>7, <2>2
  <2> QED BY <2>1, <2>2
<1>8. CASE begins = {}
  BY <1>3, <1>6, <1>8
<1>9. CASE ReadBack = {0}
  <2>1. 0 \in ReadBack /\ Taken(event) < now - 0
    BY <1>2, <1>4, <1>9
  <2> QED BY <1>6, <2>1
<1>10. starts \in SUBSET Int
  <2>1. \A back \in ReadBack : now - back \in Int
    BY <1>2, TimesAssumption
  <2>2. \A begin \in begins : begin \in Int
    BY <1>3
  <2> QED BY <2>1, <2>2
<1>11. ASSUME NEW from \in starts, noted.until <= from PROVE Settled(event)'
  <2>1. from \in Int
    BY <1>10
  <2>2. Taken(event) < from
    BY <1>2, <1>4, <1>11, <2>1
  <2> QED BY <1>7, <2>2
<1>12. ASSUME NEW from \in starts,
              noted'.ranges = MergedInto(noted.ranges, [from |-> from, to |-> noted.until])
       PROVE  Settled(event)' \/ InRange(event)'
  <2>1. CASE Taken(event) < from
    BY <1>7, <2>1
  <2>2. CASE ~(Taken(event) < from)
    <3> DEFINE new == [from |-> from, to |-> noted.until]
    <3>1. from \in Int
      BY <1>10
    <3>2. new \in Ranges /\ Within(Taken(event), new)
      BY <1>2, <1>4, <2>2, <3>1 DEF Ranges, Within
    <3>3. noted.ranges \in SUBSET Ranges /\ IsFiniteSet(noted.ranges) /\ Taken(event) \in Int
      BY <1>2, <1>4 DEF Notes
    <3>4. noted'.ranges = MergedInto(noted.ranges, new)
      BY <1>12
    <3> HIDE DEF new
    <3>5. \E s \in noted'.ranges : Within(Taken(event), s)
      BY <3>2, <3>3, <3>4, MergingKeeps
    <3>6. InRange(event)'
      BY <1>1, <1>2, <3>5 DEF InRange
    <3> QED BY <3>6
  <2> QED BY <2>1, <2>2
<1> QED BY <1>5, <1>8, <1>9, <1>11, <1>12

(* What is read of the noted ranges is settled. *)
LEMMA InRangeIsRead ==
    ASSUME Types, Places, Starts, Working, [Next]_vars, NoteRead, NEW event \in Events, InRange(event)
    PROVE  Safe(event)'
<1>1. PICK w \in work : Save(ReadFromStore(noted, w.until)) /\ rpc = "read"
  BY DEF NoteRead
<1>2. /\ noted' = ReadFromStore(noted, w.until) /\ Standing' = {noted'} /\ w.until \in Int
      /\ noted \in Notes /\ noted \in Standing /\ ~NoteStored /\ Over(w)
  BY <1>1, RunsWithNotes, SavedNotesStand DEF Types, Works, NoteStored, Working
<1>3. Taken(event) \in Int /\ Taken(event)' = Taken(event)
  BY TimesOfEvents, TopicLasts DEF Lasting
<1>4. PICK r \in noted.ranges : Within(Taken(event), r)
  BY <1>2 DEF InRange
<1>5. CASE \E s \in noted'.ranges : Within(Taken(event), s)
  <2>1. InRange(event)'
    BY <1>2, <1>3, <1>5 DEF InRange
  <2> QED BY <2>1 DEF Safe
<1>6. CASE Taken(event) < w.until
  <2>1. Settled(event) \/ Pending(event)
    BY <1>2, <1>3, <1>6 DEF Over
  <2>2. Settled(event)' \/ Pending(event)'
    BY <1>2, <2>1, SettledLasts, PendingLasts
  <2> QED BY <2>2 DEF Safe
<1> QED BY <1>2, <1>3, <1>4, <1>5, <1>6, ReadKeeps

(* An event that is safe stays so. *)
LEMMA SafeLasts ==
    ASSUME Types, Places, Starts, Behind, Working, [Next]_vars, joined, NEW event \in Events, Safe(event)
    PROVE  Safe(event)'
<1>1. CASE Settled(event)
  <2>1. Settled(event)'
    BY <1>1, SettledLasts
  <2> QED BY <2>1 DEF Safe
<1>2. CASE InRange(event)
  <2>1. CASE NoteRead
    BY <1>2, <2>1, InRangeIsRead
  <2>2. CASE ~NoteRead
    <3>1. InRange(event)'
      BY <1>2, <2>2, InRangeLasts
    <3> QED BY <3>1 DEF Safe
  <2> QED BY <2>1, <2>2
<1>3. CASE Pending(event)
  <2>1. CASE NoteStored
    <3>1. Settled(event)' \/ InRange(event)'
      BY <1>3, <2>1, PendingIsNoted
    <3> QED BY <3>1 DEF Safe
  <2>2. CASE ~NoteStored
    <3>1. Pending(event)'
      BY <1>3, <2>2, PendingLasts
    <3> QED BY <3>1 DEF Safe
  <2> QED BY <2>1, <2>2
<1> QED BY <1>1, <1>2, <1>3 DEF Safe

(* What the role was moved past lies in the range it notes. *)
LEMMA PassedIsNoted ==
    ASSUME Types, Places, Starts, Ordered, Behind, Receive, NEW event \in Events,
           next <= event, event < next'
    PROVE  InRange(event)' \/ (dpc' = "gathering" /\ event \in batch')
<1>0. rpc # "off" /\ now \in Nat /\ log' = log /\ at \in Nat /\ next \in Nat /\ at <= next /\ Len(log) \in Nat
  BY DEF Receive, Places, Types
<1>1. PICK from \in next..Len(log), to \in next..Len(log) :
          /\ from <= to /\ next' = to /\ batch' = from..(to - 1)
          /\ dpc' = IF from < to THEN "gathering" ELSE "receiving"
          /\ Resumed(from, to) \in Nat
          /\ IF next < from
             THEN LET new == Widened(noted, Resumed(from, to))
                  IN  /\ Standing' = {noted'}
                      /\ new \in Ranges /\ noted'.ranges = MergedInto(noted.ranges, new)
             ELSE Standing' = Standing
  BY MovedOn
<1>2. event \in Nat /\ Taken(event) \in Nat /\ Taken(event)' = Taken(event) /\ Taken(event) <= now
      /\ event \in Ahead
  BY <1>0, TimesOfEvents DEF Ordered, Taken, Ahead, Events
<1>3. CASE from <= event
  <2>1. event \in from..(to - 1) /\ from < to
    BY <1>0, <1>1, <1>2, <1>3
  <2> QED BY <1>1, <2>1
<1>4. CASE event < from
  <2> DEFINE resumed == Resumed(from, to)
             new == Widened(noted, resumed)
  <2>1. /\ new \in Ranges /\ new.from = Smaller(noted.until, resumed) - DISORDER
        /\ new.to = resumed + DISORDER
        /\ Standing' = {noted'} /\ noted'.ranges = MergedInto(noted.ranges, new)
    BY <1>0, <1>1, <1>2, <1>4 DEF Widened
  <2>2. /\ noted \in Notes /\ noted.until \in Nat /\ noted.until <= Taken(event) + Lateness
    BY <1>0, <1>2, RunsJoined
  <2>3. resumed \in Nat /\ Taken(event) <= resumed + Lateness
    <3>1. CASE from < to
      <4>1. from \in Events /\ Taken(event) <= Taken(from) + Lateness /\ resumed = Taken(from)
        BY <1>0, <1>2, <1>4, <3>1 DEF Ordered, Events, Resumed
      <4> QED BY <1>1, <4>1
    <3>2. CASE ~(from < to)
      BY <1>0, <1>2, <3>2, OrderAssumption DEF Resumed
    <3> QED BY <3>1, <3>2
  <2> HIDE DEF resumed
  <2>4. new.from <= Taken(event) /\ Taken(event) < new.to
    BY <1>2, <2>1, <2>2, <2>3, OrderAssumption DEF Smaller
  <2> HIDE DEF new
  <2>5. \E s \in noted'.ranges : Within(Taken(event), s)
    <3>1. noted.ranges \in SUBSET Ranges /\ IsFiniteSet(noted.ranges) /\ Taken(event) \in Int
      BY <1>2, <2>2 DEF Notes
    <3>2. Within(Taken(event), new)
      BY <2>4 DEF Within
    <3> QED BY <2>1, <3>1, <3>2, MergingKeeps
  <2>6. InRange(event)'
    BY <1>2, <2>1, <2>5 DEF InRange
  <2> QED BY <2>6
<1> QED BY <1>0, <1>1, <1>2, <1>3, <1>4

(* What is received is gathered before it is acknowledged, or again. *)
LEMMA HeldLasts ==
    ASSUME Types, Places, [Next]_vars, dpc = "gathering", NEW event \in batch
    PROVE  (dpc' = "gathering" /\ event \in batch') \/ event \in gathered' \/ next' <= event
<1>1. CASE Gather
  BY <1>1 DEF Gather
<1>2. CASE Crash
  <2>1. next' = at /\ event \in at..(next - 1) /\ at \in Nat /\ next \in Nat
    BY <1>2 DEF Crash, Places, Types
  <2> QED BY <2>1
<1>3. CASE ~(Gather \/ Crash)
  <2>1. dpc' = dpc /\ batch' = batch
    BY <1>3 DEF Next, vars, derive, Tick, Arrive, Store, Open, Observe, Receive, Acknowledge, Note,
                Ask, NoteStored, Look, Read, Wait, NoteRead
  <2> QED BY <2>1
<1> QED BY <1>1, <1>2, <1>3

LEMMA KeptStays ==
    ASSUME Types, Places, Starts, Ordered, Behind, Kept, Working, [Next]_vars
    PROVE  Kept'
<1>0. /\ Growing /\ Lasting /\ Types'
      /\ next \in Nat /\ Len(log) \in Nat /\ at \in Nat /\ at <= next /\ next <= Len(log)
  <2>1. Growing /\ Lasting /\ Types'
    BY NothingIsTakenBack, TopicLasts, TypesStay
  <2>2. next \in Nat /\ Len(log) \in Nat /\ at \in Nat /\ at <= next /\ next <= Len(log)
    BY DEF Types
  <2> QED BY <2>1, <2>2
<1>1. next' \in Nat /\ Len(log') \in Nat /\ next' <= Len(log')
  <2>1. log' \in Seq(Nat) /\ at' \in Nat /\ next' \in at'..Len(log')
    BY <1>0 DEF Types
  <2> QED BY <2>1
<1>2. CASE joined
  <2>1. ASSUME NEW event \in 0..(next' - 1)
        PROVE  Safe(event)' \/ (dpc' = "gathering" /\ event \in batch')
    <3>0. event \in Nat /\ event < next'
      <4>1. \A n \in Nat : event \in 0..(n - 1) => event \in Nat /\ event < n
        OBVIOUS
      <4>2. next' \in Nat
        BY <1>1
      <4> QED BY <4>1, <4>2
    <3>1. CASE event < next
      <4>1. event \in Events /\ event \in 0..(next - 1)
        BY <1>0, <3>0, <3>1 DEF Events
      <4>2. CASE Safe(event)
        BY <1>2, <4>1, <4>2, SafeLasts
      <4>3. CASE dpc = "gathering" /\ event \in batch
        <5>1. (dpc' = "gathering" /\ event \in batch') \/ event \in gathered' \/ next' <= event
          BY <4>3, HeldLasts
        <5>2. ~(next' <= event)
          BY <1>1, <3>0
        <5> QED BY <5>1, <5>2 DEF Safe, Settled
      <4> QED BY <1>2, <4>1, <4>2, <4>3 DEF Kept
    <3>2. CASE ~(event < next)
      <4>1. next <= event /\ event < next'
        BY <1>0, <3>0, <3>2
      <4>2. CASE Receive
        <5>1. event \in Events
          <6>1. log' = log
            BY <4>2 DEF Receive
          <6> QED BY <1>0, <1>1, <3>0, <6>1 DEF Events
        <5> QED BY <4>1, <4>2, <5>1, PassedIsNoted DEF Safe
      <4>3. CASE ~Receive
        <5>1. next' = next \/ next' = at
          BY <1>2, <4>3 DEF Next, vars, derive, Tick, Arrive, Store, Open, Observe, Gather,
                 Acknowledge, Note, Ask, NoteStored, Look, Read, Wait, NoteRead, Crash
        <5> QED BY <1>0, <4>1, <5>1
      <4> QED BY <4>2, <4>3
    <3> QED BY <3>1, <3>2
  <2> QED BY <2>1 DEF Kept
<1>3. CASE ~joined
  <2>1. CASE Observe
    <3>1. /\ dpc = "opened" /\ dpc' = "receiving" /\ at' = Len(log) /\ next' = at' /\ joinedAt' = Len(log)
          /\ UNCHANGED <<log, notes>>
      BY <1>3, <2>1 DEF Observe, topic
    <3>2. Standing' = Standing
      BY <3>1 DEF Standing, notes
    <3>3. ASSUME NEW event \in 0..(next' - 1) PROVE Safe(event)'
      <4>1. event \in Events /\ event < joinedAt' /\ Taken(event)' = Taken(event)
        BY <1>0, <3>1 DEF Events, Taken
      <4>2. CASE OthersRun
        <5>1. Settled(event)'
          BY <4>1, <4>2 DEF Settled
        <5> QED BY <5>1 DEF Safe
      <4>3. CASE ~OthersRun
        <5>1. \A n \in Standing : ~n.asked /\ Taken(event) < n.until
          BY <1>3, <4>1, <4>3 DEF Starts
        <5>2. Pending(event)'
          BY <3>2, <4>1, <5>1 DEF Pending
        <5> QED BY <5>2 DEF Safe
      <4> QED BY <4>2, <4>3
    <3> QED BY <3>3 DEF Kept
  <2>2. CASE ~Observe
    <3>1. joined' = joined
      BY <2>2 DEF Next, vars, derive, Tick, Arrive, Store, Open, Receive, Gather, Acknowledge, Note,
             Ask, NoteStored, Look, Read, Wait, NoteRead, Crash
    <3> QED BY <1>3, <3>1 DEF Kept
  <2> QED BY <2>1, <2>2
<1> QED BY <1>2, <1>3

-----------------------------------------------------------------------------
(* What is read.                                                           *)

(* No event comes to lie before what is read. *)
LEMMA UnderLasts ==
    ASSUME Types, Places, Starts, Ordered, [Next]_vars, ~NoteStored, NEW w \in Works, Under(w)
    PROVE  Under(w)'
<1>1. w.from \in Int /\ w.until \in Int /\ Ever(w.from, w.until)
  BY DEF Works, Under
<1>2. Ever(w.from, w.until)'
  <2>1. w.from <= now' - Lateness \/ w.until <= now' \/ \E e \in ends' : w.from <= e.until
    BY <1>1, EverLasts
  <2> QED BY <2>1 DEF Ever
<1>3. ASSUME NEW event \in Events' PROVE Clear(event, w.from, w.until)' \/ Pending(event)'
  <2>1. CASE event \in Events /\ Pending(event)
    BY <2>1, PendingLasts
  <2>2. CASE event \in Events /\ Clear(event, w.from, w.until)
    <3>1. w.from <= Taken(event)' \/ Settled(event)' \/ w.until <= Taken(event)' + Lateness
      BY <2>2, ClearLasts
    <3> QED BY <3>1 DEF Clear
  <2>3. CASE event \notin Events
    <3>1. w.from <= Taken(event)' \/ Settled(event)' \/ w.until <= Taken(event)' + Lateness
      BY <1>1, <2>3, ArrivedIsClear
    <3> QED BY <3>1 DEF Clear
  <2> QED BY <2>1, <2>2, <2>3 DEF Under
<1> QED BY <1>2, <1>3 DEF Under

LEMMA OverLasts ==
    ASSUME Types, Places, Starts, Ordered, [Next]_vars, ~NoteStored, NEW w \in Works, Over(w)
    PROVE  Over(w)'
<1>1. PICK e \in ends : w.until <= e.until
  BY DEF Over
<1>2. e \in ends' /\ w.until \in Int
  BY NothingIsTakenBack DEF Growing, Works
<1>3. ASSUME NEW event \in Events' PROVE w.until <= Taken(event)' \/ Settled(event)' \/ Pending(event)'
  <2>1. CASE event \in Events
    <3>1. Taken(event)' = Taken(event)
      BY <2>1, TopicLasts DEF Lasting
    <3> QED BY <2>1, <3>1, SettledLasts, PendingLasts DEF Over
  <2>2. CASE event \notin Events
    BY <1>1, <1>2, <2>2, ArrivedIsSettled
  <2> QED BY <2>1, <2>2
<1> QED BY <1>1, <1>2, <1>3 DEF Over

(* A look takes the part that all noted ranges begin after. *)
LEMMA LookIsUnder ==
    ASSUME Types, Places, Starts, Below, Kept, Behind, Look, NEW w \in work'
    PROVE  w \in Works /\ Under(w)
<1>0. rpc # "off" /\ joined /\ noted \in Standing /\ noted \in Notes /\ at \in Nat /\ next \in Nat /\ at <= next
      /\ Len(log) \in Nat /\ now \in Nat /\ Lateness \in Nat
  <2>1. rpc # "off"
    BY DEF Look
  <2> QED BY <2>1, RunsJoined, OrderAssumption DEF Types
<1>1. PICK r \in noted.ranges : /\ w \in Works /\ w.from = r.from /\ w.until <= r.to /\ r \in Ranges
                                 /\ \A s \in noted.ranges : r.from <= s.from
  BY Looks
<1>2. Fits(r) /\ r.from \in Int /\ r.to \in Int /\ w.until \in Int
  BY <1>0, <1>1 DEF Below, Ranges, Works
<1>3. Ever(w.from, w.until)
  <2>1. CASE r.to <= now
    BY <1>0, <1>1, <1>2, <2>1 DEF Ever
  <2>2. CASE ~(r.to <= now)
    BY <1>1, <1>2, <2>2 DEF Fits, Ever
  <2> QED BY <2>1, <2>2
<1>4. ASSUME NEW event \in Events PROVE Clear(event, w.from, w.until) \/ Pending(event)
  <2>1. event \in Nat /\ Taken(event) \in Nat
    BY TimesOfEvents
  <2>2. CASE event \in Ahead
    <3>1. Clear(event, r.from, r.to)
      BY <1>2, <2>2 DEF Fits
    <3> QED BY <1>0, <1>1, <1>2, <2>1, <3>1 DEF Clear
  <2>3. CASE event \notin Ahead
    <3>1. event < at
      BY <1>0, <2>1, <2>3 DEF Ahead, Events
    <3>2. Safe(event)
      <4>1. event \in 0..(next - 1) /\ ~(event \in at..(next - 1))
        BY <1>0, <2>1, <3>1
      <4> QED BY <1>0, <4>1 DEF Kept, Places
    <3>3. CASE InRange(event)
      <4>1. PICK s \in noted.ranges : s.from <= Taken(event)
        BY <1>0, <3>3 DEF InRange, Within
      <4>2. r.from <= s.from /\ s.from \in Int
        BY <1>0, <1>1 DEF Notes, Ranges
      <4> QED BY <1>1, <1>2, <2>1, <4>1, <4>2 DEF Clear
    <3> QED BY <3>2, <3>3 DEF Safe, Clear
  <2> QED BY <2>2, <2>3
<1> QED BY <1>1, <1>3, <1>4 DEF Under

(* When a part is read, all that lies before its end is settled. *)
LEMMA ReadIsOver ==
    ASSUME Types, Places, Starts, Ordered, Working, [Next]_vars, Read, NEW w \in work
    PROVE  Over(w)'
<1>1. PICK v \in work :
          /\ HoldsReceivedFrom(v.until) \/ IsSettled(v.until)
          /\ gathered' = gathered \union
                {event \in stored : Within(Taken(event), [from |-> v.from, to |-> v.until])}
          /\ ends' = ends \union {[until |-> v.until, byClock |-> ~HoldsReceivedFrom(v.until)]}
  BY DEF Read
<1>2. v = w /\ w \in Works /\ w.from \in Int /\ w.until \in Int /\ Under(w) /\ ~NoteStored /\ Events' = Events
  BY DEF Working, Types, Works, Read, NoteStored, topic, Events
<1> DEFINE held == HoldsReceivedFrom(w.until)
           e == [until |-> w.until, byClock |-> ~held]
<1>3. e \in ends' /\ e.until = w.until
  BY <1>1, <1>2
<1>4. e.byClock \/ held
  <2> HIDE DEF held
  <2> QED OBVIOUS
<1>5. ASSUME NEW event \in stored, w.from <= Taken(event), Taken(event) < w.until
      PROVE  event \in gathered'
  BY <1>1, <1>2, <1>5 DEF Within
<1>6. held => \E x \in stored : Taken(x) >= w.until
  BY DEF HoldsReceivedFrom
<1> HIDE DEF held, e
<1>7. ASSUME NEW event \in Events', Taken(event)' < w.until,
             e.byClock \/ w.until <= Taken(event)' + Lateness + StoreLag
      PROVE  Settled(event)'
  <2>1. NearAnEnd(event)'
    BY <1>3, <1>7 DEF NearAnEnd
  <2> QED BY <2>1 DEF Settled
<1>8. ASSUME NEW event \in Events' PROVE w.until <= Taken(event)' \/ Settled(event)' \/ Pending(event)'
  <2>1. event \in Events /\ Taken(event) \in Nat /\ Taken(event)' = Taken(event)
    BY <1>2, TimesOfEvents, TopicLasts DEF Lasting
  <2>2. CASE Pending(event)
    BY <1>2, <2>1, <2>2, PendingLasts
  <2>3. CASE Settled(event)
    BY <2>1, <2>3, SettledLasts
  <2>4. CASE w.until <= Taken(event) + Lateness /\ Taken(event) < w.until
    <3>1. w.until <= Taken(event) + Lateness + StoreLag
      BY <1>2, <2>1, <2>4, OrderAssumption
    <3> QED BY <1>7, <2>1, <2>4, <3>1
  <2>5. CASE w.from <= Taken(event) /\ Taken(event) < w.until
    <3>1. CASE event \in stored
      BY <1>5, <2>5, <3>1 DEF Settled
    <3>2. CASE event \notin stored /\ held
      <4>1. PICK x \in stored : Taken(x) >= w.until
        BY <1>6, <3>2
      <4>2. x \in Events /\ Taken(x) <= Taken(event) + Lateness + StoreLag
        BY <2>1, <3>2 DEF Ordered, Types
      <4>3. Taken(x) \in Nat
        BY <4>2, TimesOfEvents
      <4>4. w.until <= Taken(event) + Lateness + StoreLag
        BY <1>2, <2>1, <4>1, <4>2, <4>3, OrderAssumption
      <4> QED BY <1>7, <2>1, <2>5, <4>4
    <3>3. CASE e.byClock
      BY <1>7, <2>1, <2>5, <3>3
    <3> QED BY <1>4, <3>1, <3>2, <3>3
  <2>6. CASE w.until <= Taken(event)
    BY <2>1, <2>6
  <2> QED BY <1>2, <2>1, <2>2, <2>3, <2>4, <2>5, <2>6 DEF Under, Clear
<1>9. w.until <= e.until
  BY <1>2, <1>3
<1> QED BY <1>3, <1>8, <1>9 DEF Over

LEMMA WorkingStays ==
    ASSUME Types, Places, Apart, Starts, Ordered, Behind, Below, Kept, Working, [Next]_vars
    PROVE  Working'
<1>0. work \subseteq Works
  BY DEF Types
<1>1. CASE Look
  <2>1. noted \in Standing /\ noted \in Notes /\ ~NoteStored /\ rpc' # "read"
    BY <1>1, RunsWithNotes DEF Look, Types, NoteStored
  <2>2. \A v, w \in work' : v = w
    <3>1. \A r, s \in noted.ranges : r.from \in Int /\ r.to \in Int /\ r.from <= r.to
                                   /\ (r = s \/ r.to < s.from \/ s.to < r.from)
      BY <2>1 DEF Apart, Parted, Notes, Ranges
    <3>2. \A r, s \in First(noted) : r = s
      BY <3>1 DEF First
    <3> QED BY <1>1, <3>2 DEF Look
  <2>3. ASSUME NEW w \in work' PROVE Under(w)'
    <3>1. w \in Works /\ Under(w)
      BY <1>1, LookIsUnder
    <3> QED BY <2>1, <3>1, UnderLasts
  <2> QED BY <2>1, <2>2, <2>3 DEF Working
<1>2. CASE Read
  <2>1. work' = work /\ ~NoteStored
    BY <1>2 DEF Read, NoteStored
  <2>2. ASSUME NEW w \in work PROVE Under(w)' /\ Over(w)'
    BY <1>0, <1>2, <2>1, UnderLasts, ReadIsOver DEF Working
  <2> QED BY <2>1, <2>2 DEF Working
<1>3. CASE ~(Look \/ Read)
  <2>1. work' = {} \/ (work' = work /\ (rpc' = "read" => rpc = "read") /\ ~NoteStored)
    <3>1. NoteStored => work' = {}
      BY DEF NoteStored, Places
    <3>2. Observe => work' = {}
      BY DEF Observe, Places
    <3>3. Ask => work' = {}
      BY DEF Ask, Places
    <3>4. CASE ~(NoteStored \/ Observe \/ Ask)
      <4>1. work' = {} \/ (work' = work /\ rpc' = rpc)
        BY <1>3, <3>4 DEF Next, vars, readBack, Tick, Arrive, Store, Open, Receive, Gather,
               Acknowledge, Note, Wait, NoteRead, Crash
      <4> QED BY <3>4, <4>1
    <3> QED BY <3>1, <3>2, <3>3, <3>4
  <2>2. CASE work' = {}
    BY <2>2 DEF Working
  <2>3. CASE work' = work /\ (rpc' = "read" => rpc = "read") /\ ~NoteStored
    <3>1. ASSUME NEW w \in work PROVE Under(w)' /\ (rpc' = "read" => Over(w)')
      BY <1>0, <2>3, UnderLasts, OverLasts DEF Working
    <3> QED BY <2>3, <3>1 DEF Working
  <2> QED BY <2>1, <2>2, <2>3
<1> QED BY <1>1, <1>2, <1>3

-----------------------------------------------------------------------------
(* Conclusions.                                                            *)

LEMMA StepKeepsInvariant == IInv /\ [Next]_vars => IInv'
<1> SUFFICES ASSUME IInv, [Next]_vars PROVE IInv'
  OBVIOUS
<1>1. Types /\ Places /\ Apart /\ Starts /\ Ordered /\ Behind /\ Below /\ Kept /\ Working
  BY DEF IInv
<1>2. Types' /\ Places' /\ Apart' /\ Starts' /\ Ordered'
  BY <1>1, TypesStay, PlacesStay, ApartStays, StartsStay, OrderedStays
<1>3. Behind' /\ Below' /\ Kept' /\ Working'
  BY <1>1, BehindStays, BelowStays, KeptStays, WorkingStays
<1> QED BY <1>2, <1>3 DEF IInv

LEMMA InvariantHolds == Spec => []IInv
BY InitHasInvariant, StepKeepsInvariant, PTL DEF Spec

(* Every variable of the graph role keeps its type, and its two tasks stay  *)
(* in step: only what is gathered is acknowledged, and read_back runs only  *)
(* while derive does.                                                      *)
THEOREM TypesAndPlaces == Spec => [](Types /\ Places)
<1>1. IInv => Types /\ Places
  BY DEF IInv
<1> QED BY <1>1, InvariantHolds, PTL

(* What is safe is accounted for as the run's property says. *)
LEMMA SafeIsAccountedFor ==
    ASSUME IInv, joined, NEW event \in 0..(at - 1)
    PROVE  \/ event \in gathered \/ InHand(event) \/ NearAnEnd(event) \/ OfBefore(event)
           \/ event < joinedAt /\ OthersRun
<1>1. at \in Nat /\ next \in Nat /\ at <= next /\ event \in 0..(next - 1) /\ ~(event \in at..(next - 1))
  <2>1. at \in Nat /\ next \in Nat /\ at <= next
    BY DEF IInv, Types
  <2> QED BY <2>1
<1>2. Safe(event)
  BY <1>1 DEF IInv, Kept, Places
<1>3. InRange(event) => InHand(event)
  BY DEF InRange, InHand, ToBeRead, Standing
<1>4. Pending(event) => InHand(event)
  BY DEF Pending, InHand, ToBeRead, Standing
<1> QED BY <1>2, <1>3, <1>4 DEF Safe, Settled

(* The graph role forgets only what is unsettled: while no other process    *)
(* sends events as this one starts, every event the role will not receive   *)
(* again was gathered, is noted to be read from the store (regraph.rs,      *)
(* Unread), was stored later than DISORDER allows for or than the writer    *)
(* takes to settle, or is older than what is read back.                    *)
THEOREM RegraphForgetsOnlyTheUnsettled ==
    ASSUME OthersRun = FALSE
    PROVE  Spec => []OnlyTheUnsettledIsForgotten
<1>1. IInv => OnlyTheUnsettledIsForgotten
  BY SafeIsAccountedFor DEF OnlyTheUnsettledIsForgotten
<1> QED BY <1>1, InvariantHolds, PTL

(* Whatever other processes do: of the events that were sent after the role *)
(* joined the topic none is forgotten but those stored too late.            *)
NothingLaterIsForgotten ==
    joined => \A event \in joinedAt..(at - 1) :
        event \in gathered \/ InHand(event) \/ NearAnEnd(event)

THEOREM RegraphKeepsWhatFollows == Spec => []NothingLaterIsForgotten
<1>1. ASSUME IInv PROVE NothingLaterIsForgotten
  <2>1. ASSUME joined, NEW event \in joinedAt..(at - 1)
        PROVE  event \in gathered \/ InHand(event) \/ NearAnEnd(event)
    <3>1. event \in 0..(at - 1) /\ ~(event < joinedAt)
      <4>1. at \in Nat /\ joinedAt \in Nat
        BY <1>1 DEF IInv, Types
      <4> QED BY <4>1
    <3> QED BY <1>1, <2>1, <3>1, SafeIsAccountedFor DEF OfBefore
  <2> QED BY <2>1 DEF NothingLaterIsForgotten
<1> QED BY <1>1, InvariantHolds, PTL
=============================================================================
