--------------------------- MODULE Rematch_proofs ---------------------------
(***************************************************************************)
(* What holds of Rematch for any clock, any number of events, feeds and    *)
(* crashes, and any widths: the notes and their file differ only in how far *)
(* the detector came, no two noted ranges touch, no event that was missed  *)
(* is forgotten, and none that was stored is left out of the look backs.   *)
(***************************************************************************)
EXTENDS Rematch, FiniteSetTheorems, WellFoundedInduction, TLAPS

-----------------------------------------------------------------------------
(* Least and greatest of finite sets.                                      *)

(* Numbers have a least one among them. *)
LEMMA LeastOf ==
    ASSUME NEW S \in SUBSET Nat, S # {}
    PROVE  \E x \in S : \A y \in S : x <= y
<1>1. PICK x \in S : \A y \in S : ~(<<y, x>> \in OpToRel(<, Nat))
  BY NatLessThanWellFounded, WFMin
<1>2. \A y \in S : ~(y < x)
  BY <1>1 DEF OpToRel
<1> QED BY <1>2

(* So does a finite set whose elements are measured: a smallest part of it *)
(* with no least one would have one without any of its elements.           *)
LEMMA LeastBy ==
    ASSUME NEW S, IsFiniteSet(S), S # {}, NEW f \in [S -> Int]
    PROVE  \E x \in S : \A y \in S : f[x] <= f[y]
<1> DEFINE Has(T) == \E x \in T : \A y \in T : f[x] <= f[y]
           Bad == {n \in Nat : \E T \in SUBSET S : T # {} /\ Cardinality(T) = n /\ ~Has(T)}
<1>0. \A T \in SUBSET S : IsFiniteSet(T) /\ Cardinality(T) \in Nat
  BY FS_Subset, FS_CardinalityType
<1>1. Bad = {}
  <2> SUFFICES ASSUME Bad # {} PROVE FALSE
    OBVIOUS
  <2>1. PICK n \in Bad : \A m \in Bad : n <= m
    BY LeastOf
  <2>2. PICK T \in SUBSET S : T # {} /\ Cardinality(T) = n /\ ~Has(T)
    BY <2>1
  <2>3. PICK x \in T : TRUE
    BY <2>2
  <2>4. T \ {x} \in SUBSET S /\ Cardinality(T \ {x}) = n - 1 /\ n - 1 \in Nat
    <3>1. IsFiniteSet(T) /\ Cardinality(T) \in Nat /\ Cardinality(T \ {x}) \in Nat
      BY <1>0
    <3>2. Cardinality(T \ {x}) = Cardinality(T) - 1
      BY <2>3, <3>1, FS_RemoveElement
    <3> QED BY <2>2, <3>1, <3>2
  <2>5. T \ {x} = {} \/ Has(T \ {x})
    <3>1. n - 1 \notin Bad
      BY <2>1, <2>4
    <3> QED BY <2>4, <3>1
  <2>6. CASE T \ {x} = {}
    <3>1. \A y \in T : y = x
      BY <2>6
    <3>2. f[x] <= f[x]
      BY <2>3
    <3> QED BY <2>2, <2>3, <3>1, <3>2
  <2>7. CASE Has(T \ {x})
    <3>1. PICK y \in T \ {x} : \A z \in T \ {x} : f[y] <= f[z]
      BY <2>7
    <3>2. f[x] \in Int /\ \A z \in T : f[z] \in Int
      BY <2>3
    <3>3. CASE f[x] <= f[y]
      <4>1. \A z \in T : f[x] <= f[z]
        BY <3>1, <3>2, <3>3
      <4> QED BY <2>2, <2>3, <4>1
    <3>4. CASE ~(f[x] <= f[y])
      <4>1. \A z \in T : f[y] <= f[z]
        BY <3>1, <3>2, <3>4
      <4> QED BY <2>2, <3>1, <4>1
    <3> QED BY <3>3, <3>4
  <2> QED BY <2>5, <2>6, <2>7
<1>2. Cardinality(S) \notin Bad
  BY <1>1
<1> QED BY <1>0, <1>2

(* The smallest of what finitely many are given is given to one of them. *)
LEMMA MinBy ==
    ASSUME NEW S, IsFiniteSet(S), S # {}, NEW f \in [S -> Int]
    PROVE  LET m == Min({f[x] : x \in S})
           IN  m \in Int /\ (\E x \in S : m = f[x]) /\ \A x \in S : m <= f[x]
<1>1. PICK x \in S : \A y \in S : f[x] <= f[y]
  BY LeastBy
<1>2. f[x] \in {f[y] : y \in S} /\ \A v \in {f[y] : y \in S} : f[x] <= v
  BY <1>1
<1>3. /\ Min({f[y] : y \in S}) \in {f[y] : y \in S}
      /\ \A v \in {f[y] : y \in S} : Min({f[y] : y \in S}) <= v
  BY <1>2 DEF Min
<1> QED BY <1>3

(* And so is the largest. *)
LEMMA MaxBy ==
    ASSUME NEW S, IsFiniteSet(S), S # {}, NEW f \in [S -> Int]
    PROVE  LET m == Max({f[x] : x \in S})
           IN  m \in Int /\ (\E x \in S : m = f[x]) /\ \A x \in S : f[x] <= m
<1> DEFINE g == [x \in S |-> 0 - f[x]]
<1>1. PICK x \in S : \A y \in S : g[x] <= g[y]
  <2>1. g \in [S -> Int]
    OBVIOUS
  <2> QED BY <2>1, LeastBy
<1>2. f[x] \in {f[y] : y \in S} /\ \A v \in {f[y] : y \in S} : f[x] >= v
  <2>1. \A y \in S : f[y] \in Int /\ f[x] \in Int /\ 0 - f[x] <= 0 - f[y]
    BY <1>1
  <2>2. \A y \in S : f[x] >= f[y]
    BY <2>1
  <2> QED BY <2>2
<1>3. /\ Max({f[y] : y \in S}) \in {f[y] : y \in S}
      /\ \A v \in {f[y] : y \in S} : Max({f[y] : y \in S}) >= v
  BY <1>2 DEF Max
<1> QED BY <1>3

-----------------------------------------------------------------------------
(* What the methods of Unmatched make of what is noted.                    *)

Ranges == [from : Int, to : Int]
Additions == [since : Nat, until : Nat]
LookBacks == [from : Int, to : Int, since : SUBSET Nat]
Notes == [until : Nat, ranges : SUBSET Ranges, added : SUBSET Additions, late : SUBSET LookBacks]

(* No two of them touch. *)
AreApart(R) ==
    /\ IsFiniteSet(R)
    /\ \A r \in R : r.from < r.to
    /\ \A r, s \in R : r = s \/ r.to < s.from \/ s.to < r.from
Holds(s, r) == s.from <= r.from /\ r.to <= s.to

Touching(R, new) == {new} \union {r \in R : r.from <= new.to /\ new.from <= r.to}
Merged(R, new) == [from |-> Min({r.from : r \in Touching(R, new)}),
                   to |-> Max({r.to : r \in Touching(R, new)})]
MergedInto(R, new) == (R \ Touching(R, new)) \union {Merged(R, new)}

(* The merged range begins and ends as one of those it was made of, and    *)
(* holds them all.                                                         *)
LEMMA MergedHolds ==
    ASSUME NEW R \in SUBSET Ranges, IsFiniteSet(R), NEW new \in Ranges
    PROVE  /\ Merged(R, new) \in Ranges
           /\ \A r \in Touching(R, new) : Holds(Merged(R, new), r)
           /\ \E r \in Touching(R, new) : Merged(R, new).from = r.from
           /\ \E r \in Touching(R, new) : Merged(R, new).to = r.to
<1> DEFINE T == Touching(R, new)
           f == [r \in T |-> r.from]
           g == [r \in T |-> r.to]
<1>1. IsFiniteSet(T) /\ T # {} /\ T \subseteq Ranges
  <2>1. IsFiniteSet({r \in R : r.from <= new.to /\ new.from <= r.to})
    BY FS_Subset
  <2> QED BY <2>1, FS_Singleton, FS_Union DEF Touching
<1>2. f \in [T -> Int] /\ g \in [T -> Int]
  BY <1>1 DEF Ranges
<1>3. {r.from : r \in T} = {f[r] : r \in T} /\ {r.to : r \in T} = {g[r] : r \in T}
  OBVIOUS
<1> HIDE DEF T, f, g
<1>4. LET m == Min({f[r] : r \in T})
      IN  m \in Int /\ (\E r \in T : m = f[r]) /\ \A r \in T : m <= f[r]
  BY <1>1, <1>2, MinBy
<1>5. LET m == Max({g[r] : r \in T})
      IN  m \in Int /\ (\E r \in T : m = g[r]) /\ \A r \in T : g[r] <= m
  BY <1>1, <1>2, MaxBy
<1>6. \A r \in T : f[r] = r.from /\ g[r] = r.to
  BY DEF f, g
<1>7. Merged(R, new) = [from |-> Min({f[r] : r \in T}), to |-> Max({g[r] : r \in T})]
  BY <1>3 DEF Merged, T
<1>8. /\ Merged(R, new).from = Min({f[r] : r \in T})
      /\ Merged(R, new).to = Max({g[r] : r \in T})
  BY <1>7
<1>9. Merged(R, new) \in Ranges
  BY <1>4, <1>5, <1>7 DEF Ranges
<1>10. \A r \in T : Merged(R, new).from <= r.from /\ r.to <= Merged(R, new).to
  BY <1>4, <1>5, <1>6, <1>8
<1>11. (\E r \in T : Merged(R, new).from = r.from) /\ \E r \in T : Merged(R, new).to = r.to
  BY <1>4, <1>5, <1>6, <1>8
<1> QED BY <1>9, <1>10, <1>11 DEF Holds, T

(* What is merged stays apart, with nothing of it lost, and nothing before *)
(* what began a range.                                                     *)
LEMMA MergingKeeps ==
    ASSUME NEW R \in SUBSET Ranges, AreApart(R), NEW new \in Ranges, new.from < new.to
    PROVE  /\ MergedInto(R, new) \in SUBSET Ranges
           /\ AreApart(MergedInto(R, new))
           /\ \A r \in R \union {new} : \E s \in MergedInto(R, new) : Holds(s, r)
           /\ \A s \in MergedInto(R, new) : s.from = new.from \/ \E r \in R : s.from = r.from
<1> DEFINE m == Merged(R, new)
           M == MergedInto(R, new)
<1>1. /\ m \in Ranges
      /\ \A r \in Touching(R, new) : Holds(m, r)
      /\ \E r \in Touching(R, new) : m.from = r.from
      /\ \E r \in Touching(R, new) : m.to = r.to
  BY MergedHolds DEF AreApart
<1>2. M = (R \ Touching(R, new)) \union {m}
  BY DEF MergedInto
<1> HIDE DEF m, M
<1>3. \A r \in R : r.from \in Int /\ r.to \in Int
  BY DEF Ranges
<1>4. new.from \in Int /\ new.to \in Int /\ m.from \in Int /\ m.to \in Int
  BY <1>1 DEF Ranges
<1>5. \A r \in R : Holds(r, r)
  BY <1>3 DEF Holds
<1>6. new \in Touching(R, new) /\ \A r \in Touching(R, new) : r = new \/ r \in R
  BY DEF Touching
<1>7. M \in SUBSET Ranges
  BY <1>1, <1>2
<1>8. ASSUME NEW s \in R \ Touching(R, new)
      PROVE  s.to < m.from \/ m.to < s.from
  <2>1. ~(s.from <= new.to /\ new.from <= s.to)
    BY DEF Touching
  <2>2. PICK a \in Touching(R, new) : m.from = a.from
    BY <1>1
  <2>3. PICK b \in Touching(R, new) : m.to = b.to
    BY <1>1
  <2>4. a = new \/ (a \in R /\ a.from <= new.to /\ new.from <= a.to)
    BY DEF Touching
  <2>5. b = new \/ (b \in R /\ b.from <= new.to /\ new.from <= b.to)
    BY DEF Touching
  <2>6. \A r \in R : s = r \/ s.to < r.from \/ r.to < s.from
    BY DEF AreApart
  <2>7. s.from < s.to /\ a.from < a.to /\ b.from < b.to
    BY <2>4, <2>5 DEF AreApart
  <2>8. s # a /\ s # b
    OBVIOUS
  <2>9. /\ s.from \in Int /\ s.to \in Int /\ a.from \in Int /\ a.to \in Int
        /\ b.from \in Int /\ b.to \in Int
    BY <1>3, <1>4, <2>4, <2>5
  <2>10. a = new \/ s.to < a.from \/ a.to < s.from
    BY <2>4, <2>6, <2>8
  <2>11. b = new \/ s.to < b.from \/ b.to < s.from
    BY <2>5, <2>6, <2>8
  <2> QED BY <1>4, <2>1, <2>2, <2>3, <2>4, <2>5, <2>7, <2>9, <2>10, <2>11
<1>9. AreApart(M)
  <2>1. IsFiniteSet(M)
    <3>1. IsFiniteSet(R \ Touching(R, new))
      BY FS_Subset DEF AreApart
    <3> QED BY <1>2, <3>1, FS_AddElement
  <2>2. m.from < m.to
    BY <1>1, <1>4, <1>6 DEF Holds
  <2>3. \A r \in M : r.from < r.to
    BY <1>2, <2>2 DEF AreApart
  <2>4. ASSUME NEW r \in M, NEW s \in M
        PROVE  r = s \/ r.to < s.from \/ s.to < r.from
    BY <1>2, <1>8 DEF AreApart
  <2> QED BY <2>1, <2>3, <2>4 DEF AreApart
<1>10. \A r \in R \union {new} : \E s \in M : Holds(s, r)
  BY <1>1, <1>2, <1>5, <1>6
<1>11. \A s \in M : s.from = new.from \/ \E r \in R : s.from = r.from
  BY <1>1, <1>2, <1>6
<1> QED BY <1>7, <1>9, <1>10, <1>11 DEF m, M

(* skipped changes the ranges only, and notes the widened one. *)
LEMMA SkippedKeeps ==
    ASSUME NEW n \in Notes, AreApart(n.ranges), NEW resumed \in Nat
    PROVE  /\ Widened(n, resumed) \in Ranges
           /\ Skipped(n, resumed) = [n EXCEPT !.ranges = MergedInto(n.ranges, Widened(n, resumed))]
           /\ Skipped(n, resumed) \in Notes
           /\ AreApart(Skipped(n, resumed).ranges)
           /\ \A r \in n.ranges \union {Widened(n, resumed)} :
                  \E s \in Skipped(n, resumed).ranges : Holds(s, r)
           /\ \A s \in Skipped(n, resumed).ranges :
                  s.from = Widened(n, resumed).from \/ \E r \in n.ranges : s.from = r.from
<1> DEFINE new == Widened(n, resumed)
<1>1. new \in Ranges /\ new.from < new.to
  <2>1. n.until \in Nat /\ DISORDER \in Nat /\ 0 < DISORDER
    BY DisorderAssumption DEF Notes
  <2>2. /\ new.from = Smaller(n.until, resumed) - DISORDER
        /\ new.to = resumed + DISORDER
        /\ new = [from |-> Smaller(n.until, resumed) - DISORDER, to |-> resumed + DISORDER]
    BY DEF Widened
  <2> QED BY <2>1, <2>2 DEF Smaller, Ranges
<1>2. Skipped(n, resumed) = [n EXCEPT !.ranges = MergedInto(n.ranges, new)]
  BY DEF Skipped, MergedInto, Merged, Touching
<1>3. n.ranges \in SUBSET Ranges
  BY DEF Notes
<1> HIDE DEF new
<1>4. /\ MergedInto(n.ranges, new) \in SUBSET Ranges
      /\ AreApart(MergedInto(n.ranges, new))
      /\ \A r \in n.ranges \union {new} : \E s \in MergedInto(n.ranges, new) : Holds(s, r)
      /\ \A s \in MergedInto(n.ranges, new) : s.from = new.from \/ \E r \in n.ranges : s.from = r.from
  BY <1>1, <1>3, MergingKeeps
<1>5. Skipped(n, resumed).ranges = MergedInto(n.ranges, new)
  BY <1>2 DEF Notes
<1>6. Skipped(n, resumed) \in Notes
  BY <1>2, <1>4 DEF Notes
<1> QED BY <1>1, <1>2, <1>4, <1>5, <1>6 DEF new

(* added leaves one addition, which is since the earliest and until now. *)
LEMMA AddedKeeps ==
    ASSUME NEW n \in Notes, IsFiniteSet(n.added), NEW from \in Nat, now \in Nat,
           \A a \in n.added : a.until <= now
    PROVE  \E a \in Additions : /\ Added(n, from) = [n EXCEPT !.added = {a}]
                                /\ a.until = now /\ a.since <= from
                                /\ \A b \in n.added : a.since <= b.since
<1> DEFINE new == [since |-> from, until |-> now]
           all == n.added \union {new}
           f == [b \in all |-> b.since]
           g == [b \in all |-> b.until]
           a == [since |-> Min({f[b] : b \in all}), until |-> Max({g[b] : b \in all})]
<1>1. all \in SUBSET Additions /\ IsFiniteSet(all) /\ all # {}
  <2>1. n.added \in SUBSET Additions /\ new \in Additions
    BY DEF Notes, Additions
  <2> QED BY <2>1, FS_AddElement
<1>2. f \in [all -> Int] /\ g \in [all -> Int]
  BY <1>1 DEF Additions
<1>3. /\ {f[b] : b \in all} = {b.since : b \in all}
      /\ {g[b] : b \in all} = {b.until : b \in all}
  OBVIOUS
<1>4. Added(n, from) = [n EXCEPT !.added = {a}]
  <2>1. Added(n, from) = [n EXCEPT !.added = {[since |-> Min({b.since : b \in all}),
                                               until |-> Max({b.until : b \in all})]}]
    BY DEF Added, Notes
  <2> QED BY <1>3, <2>1
<1>5. \A b \in all : f[b] = b.since /\ g[b] = b.until /\ b.since \in Nat /\ b.until \in Nat
  BY <1>1 DEF Additions
<1>6. new \in all /\ new.since = from /\ new.until = now /\ \A b \in all : b = new \/ b \in n.added
  OBVIOUS
<1> HIDE DEF all, f, g, new
<1>7. LET m == Min({f[b] : b \in all})
      IN  m \in Int /\ (\E b \in all : m = f[b]) /\ \A b \in all : m <= f[b]
  BY <1>1, <1>2, MinBy
<1>8. LET m == Max({g[b] : b \in all})
      IN  m \in Int /\ (\E b \in all : m = g[b]) /\ \A b \in all : g[b] <= m
  BY <1>1, <1>2, MaxBy
<1>9. a.since = Min({f[b] : b \in all}) /\ a.until = Max({g[b] : b \in all})
  OBVIOUS
<1> HIDE DEF a
<1>10. a.since \in Nat /\ a.until \in Nat /\ a \in Additions
  BY <1>5, <1>7, <1>8, <1>9 DEF a, Additions
<1>11. \A b \in all : a.since <= b.since /\ b.until <= a.until
  BY <1>5, <1>7, <1>8, <1>9
<1>12. a.until <= now
  BY <1>5, <1>6, <1>8, <1>9
<1>13. a.until = now
  <2>1. now <= a.until
    BY <1>6, <1>11
  <2> QED BY <1>10, <1>12, <2>1
<1>14. \A b \in n.added : b \in all
  BY DEF all
<1> QED BY <1>4, <1>6, <1>10, <1>11, <1>13, <1>14

-----------------------------------------------------------------------------
(* The invariant.                                                          *)

(* Looked up, or stored too late to be. *)
Settled(event) == event \in unsettled \/ <<event, 0>> \in matched
Ahead == at..(Len(log) - 1)

Works == [from : Int, to : Int, since : SUBSET Nat, until : Int]
Looks == [version : Nat, events : SUBSET Nat, waits : BOOLEAN]

(* The notes and their file differ in how far the detector came only. *)
Types ==
    /\ now \in Nat /\ log \in Seq(Nat) /\ base \in 0..Len(log) /\ stored \in SUBSET Events
    /\ feed \in Seq(Nat)
    /\ at \in Nat /\ next \in at..Len(log) /\ batch \in SUBSET (at..(next - 1))
    /\ readTo \in Int
    /\ noted \in Notes /\ file.until \in Nat /\ file = [noted EXCEPT !.until = file.until]
    /\ work \in SUBSET Works /\ looks \in SUBSET Looks

Places ==
    /\ dpc \in {"receiving", "matching", "sent", "noting"}
    /\ rpc \in {"looking", "reading", "read"}
    /\ batch # {} => dpc = "matching"
    /\ dpc # "receiving" => 0 < next
    /\ dpc = "noting" => at = next
    /\ rpc = "looking" => work = {}
    /\ fpc = "loaded" => feed # <<>>

(* The topic has the events almost in the order they were taken in. *)
Ordered ==
    /\ \A i \in 1..Len(log) : log[i] <= now
    /\ \A i, j \in 1..Len(log) : i < j => log[i] <= log[j] + Lateness

(* What the detector will receive is not much older than what it matched. *)
Behind ==
    /\ file.until <= noted.until /\ noted.until <= now
    /\ \A event \in Ahead : noted.until <= Taken(event) + Lateness

Apart == AreApart(noted.ranges)

(* All that was taken before a time is settled, or will be: what still     *)
(* arrives was taken after it or after what was read.                      *)
Passed(events, time) ==
    /\ \A event \in events : Taken(event) >= time \/ Settled(event)
    /\ time <= now - Lateness \/ time <= readTo

(* A range begins before nothing that is to be received. *)
Below == \A r \in noted.ranges : Passed(Ahead, r.from)

(* What was received, or passed, is settled or lies in a range. *)
Kept == \A event \in 0..(next - 1) : event \in batch \/ Settled(event) \/ Missed(noted, event)

(* All events before the range that is read are settled, and once it was   *)
(* read, all before where the reading ended.                               *)
Working == \A w \in work : w.since = {} =>
    /\ work = {w}
    /\ Passed(Events, w.from)
    /\ rpc = "read" => Passed(Events, w.until)

Pending ==
    /\ \A a \in noted.added : a.until <= now /\ noted.added = {a}
    /\ \A l \in noted.late : l.since # {} /\ noted.late = {l}

(* What a look back found nothing of yet is before it, or before the next. *)
Sought(event, v, l) == (\A s \in l.since : feed[v] >= s) /\ Within(Taken(event), l)
Reach(a) == [from |-> a.until - LookBack, to |-> a.until, since |-> {a.since}]
Looked == \A look \in looks :
    /\ look.version \in 1..Len(feed) /\ look.events \subseteq stored
    /\ \A event \in look.events :
          IF look.waits THEN \E a \in noted.added : Sought(event, look.version, Reach(a))
          ELSE \/ <<event, look.version>> \in matched
               \/ \E l \in noted.late : Sought(event, look.version, l)
Looking == \A w \in work : w.since # {} =>
    /\ work = {w}
    /\ \A l \in noted.late : l.from >= w.from /\ l.since = w.since
    /\ rpc = "read" => \A look \in looks : ~look.waits => \A event \in look.events :
           <<event, look.version>> \in matched \/ Taken(event) >= w.until

RInv == /\ Types /\ Places /\ Ordered /\ Behind /\ Apart /\ Below /\ Kept /\ Working
        /\ Pending /\ Looked /\ Looking

(* Time passes. *)
LEMMA Ticks ==
    ASSUME now \in Nat, Tick
    PROVE  now' \in Nat /\ now < now'
<1> DEFINE f == [t \in Instants |-> t]
           S == {t \in Instants : now < t}
<1>0. Instants # {} /\ IsFiniteSet(Instants) /\ Instants \in SUBSET Nat
  BY BoundsAssumption
<1>1. f \in [Instants -> Int] /\ {f[t] : t \in Instants} = Instants
  <2>1. \A t \in Instants : t \in Int /\ f[t] = t
    BY <1>0
  <2>2. f \in [Instants -> Int]
    BY <2>1
  <2>3. {f[t] : t \in Instants} = Instants
    <3> HIDE DEF f
    <3> QED BY <2>1
  <2> QED BY <2>2, <2>3
<1> HIDE DEF f
<1>2. Max(Instants) \in Instants
  <2>1. LET m == Max({f[t] : t \in Instants})
        IN  m \in Int /\ (\E t \in Instants : m = f[t]) /\ \A t \in Instants : f[t] <= m
    BY <1>0, <1>1, MaxBy
  <2>2. \A t \in Instants : f[t] = t
    BY DEF f
  <2> QED BY <1>1, <2>1, <2>2
<1>3. S \in SUBSET Nat /\ S # {}
  BY <1>2, BoundsAssumption DEF Tick
<1>4. PICK t \in S : \A u \in S : t <= u
  BY <1>3, LeastOf
<1>5. Min(S) \in S
  BY <1>3, <1>4 DEF Min
<1> QED BY <1>3, <1>5, BoundsAssumption DEF Tick

(* A look back begins with what was added, and takes nothing else. *)
LEMMA BeginKeeps ==
    ASSUME NEW n \in Notes
    PROVE  /\ BeginLookBack(n) \in Notes
           /\ BeginLookBack(n).until = n.until /\ BeginLookBack(n).ranges = n.ranges
           /\ \/ BeginLookBack(n) = n
              \/ /\ n.late = {} /\ BeginLookBack(n).added = {}
                 /\ BeginLookBack(n).late = {Reach(a) : a \in n.added}
<1>1. CASE n.late # {} \/ n.added = {}
  BY <1>1 DEF BeginLookBack
<1>2. CASE ~(n.late # {} \/ n.added = {})
  <2>1. BeginLookBack(n) = [n EXCEPT !.added = {}, !.late = {Reach(a) : a \in n.added}]
    BY <1>2 DEF BeginLookBack, Reach
  <2>2. {Reach(a) : a \in n.added} \in SUBSET LookBacks
    <3>1. LookBack \in Nat
      BY TimesAssumption
    <3> QED BY <3>1 DEF Reach, Notes, Additions, LookBacks
  <2> QED BY <1>2, <2>1, <2>2 DEF Notes
<1> QED BY <1>1, <1>2

(* What is first begins before every range; with ranges apart it is one. *)
LEMMA FirstKeeps ==
    ASSUME NEW n \in Notes
    PROVE  /\ First(n) \in SUBSET LookBacks
           /\ \A w \in First(n) : w.since = {} =>
                  w \in n.late \/ \E r \in n.ranges : /\ w.from = r.from
                                                      /\ \A s \in n.ranges : r.from <= s.from
           /\ \A w \in First(n) : w.since # {} => n.ranges = {} /\ w \in n.late
           /\ n.ranges # {} /\ AreApart(n.ranges) => \A v, w \in First(n) : v = w
<1>1. CASE n.ranges = {}
  <2>1. First(n) = n.late
    BY <1>1 DEF First
  <2> QED BY <1>1, <2>1 DEF Notes
<1>2. CASE n.ranges # {}
  <2> DEFINE firsts == {s \in n.ranges : \A t \in n.ranges : s.from <= t.from}
  <2>1. First(n) = {[from |-> r.from, to |-> r.to, since |-> {}] : r \in firsts}
    BY <1>2 DEF First
  <2>2. \A r \in n.ranges : r \in Ranges /\ r.from \in Int /\ r.to \in Int
    BY DEF Notes, Ranges
  <2>3. First(n) \in SUBSET LookBacks
    BY <2>1, <2>2 DEF LookBacks
  <2>4. \A w \in First(n) : w.since = {} /\ \E r \in n.ranges :
            w.from = r.from /\ \A s \in n.ranges : r.from <= s.from
    BY <2>1
  <2>5. ASSUME AreApart(n.ranges), NEW r \in firsts, NEW s \in firsts
        PROVE  r = s
    <3>1. r.from = s.from
      BY <2>2
    <3>2. r.from < r.to /\ s.from < s.to /\ (r = s \/ r.to < s.from \/ s.to < r.from)
      BY <2>5 DEF AreApart
    <3>3. r.from \in Int /\ r.to \in Int /\ s.from \in Int /\ s.to \in Int
      BY <2>2
    <3> QED BY <3>1, <3>2, <3>3
  <2>6. \A w \in First(n) : w.since = {}
    BY <2>4
  <2>7. AreApart(n.ranges) => \A v, w \in First(n) : v = w
    <3> SUFFICES ASSUME AreApart(n.ranges), NEW v \in First(n), NEW w \in First(n) PROVE v = w
      OBVIOUS
    <3> HIDE DEF firsts
    <3>1. PICK r \in firsts : v = [from |-> r.from, to |-> r.to, since |-> {}]
      BY <2>1
    <3>2. PICK s \in firsts : w = [from |-> s.from, to |-> s.to, since |-> {}]
      BY <2>1
    <3>3. r = s
      BY <2>5
    <3> QED BY <3>1, <3>2, <3>3
  <2>8. \A w \in First(n) : w.since = {} =>
            w \in n.late \/ \E r \in n.ranges : /\ w.from = r.from
                                                /\ \A s \in n.ranges : r.from <= s.from
    BY <2>4
  <2> HIDE DEF firsts
  <2>9. \A w \in First(n) : w.since # {} => n.ranges = {} /\ w \in n.late
    BY <2>6
  <2> QED BY <2>3, <2>7, <2>8, <2>9
<1> QED BY <1>1, <1>2

(* What is given up of a range is what ends before until. *)
LEMMA GivenUpKeeps ==
    ASSUME NEW r, r.from \in Int, r.to \in Int, NEW until \in Int,
           r \in Ranges \/ r \in LookBacks
    PROVE  \A s \in GivenUp(r, until) :
               /\ r \in Ranges => s \in Ranges
               /\ r \in LookBacks => s \in LookBacks /\ s.since = r.since
               /\ s = [r EXCEPT !.from = Larger(r.from, until)]
               /\ s.to = r.to /\ s.from = Larger(r.from, until)
               /\ s.from \in Int /\ r.from <= s.from /\ until <= s.from /\ s.from < s.to
<1> TAKE s \in GivenUp(r, until)
<1>1. s = [r EXCEPT !.from = Larger(r.from, until)] /\ s.from < s.to
  BY DEF GivenUp
<1>2. Larger(r.from, until) \in Int /\ r.from <= Larger(r.from, until) /\ until <= Larger(r.from, until)
  BY DEF Larger
<1>3. s.from = Larger(r.from, until) /\ s.to = r.to
  BY <1>1 DEF Ranges, LookBacks
<1>4. r \in Ranges => s \in Ranges
  BY <1>1, <1>2 DEF Ranges
<1>5. r \in LookBacks => s \in LookBacks /\ s.since = r.since
  BY <1>1, <1>2 DEF LookBacks
<1> QED BY <1>1, <1>2, <1>3, <1>4, <1>5

(* Nothing after until is given up. *)
LEMMA GivenUpHolds ==
    ASSUME NEW r, r.from \in Int, r.to \in Int, NEW until \in Int,
           r \in Ranges \/ r \in LookBacks, NEW time \in Int, Within(time, r), until <= time
    PROVE  \E s \in GivenUp(r, until) : Within(time, s)
<1> DEFINE s == [r EXCEPT !.from = Larger(r.from, until)]
<1>1. s.from = Larger(r.from, until) /\ s.to = r.to
  BY DEF Ranges, LookBacks
<1>2. s.from <= time /\ time < s.to
  BY <1>1 DEF Larger, Within
<1>3. s.from < s.to
  BY <1>1, <1>2 DEF Larger
<1>4. s \in GivenUp(r, until)
  BY <1>3 DEF GivenUp
<1> QED BY <1>2, <1>4 DEF Within

(* Rematch gives up a part of the first range, or of the look back. *)
Oldest(R) == {r \in R : \A s \in R : r.from <= s.from}
Left(R, until) == (R \ Oldest(R)) \union UNION {GivenUp(r, until) : r \in Oldest(R)}

(* What is noted after a read: nothing but the ranges the read was of is taken from it. *)
LEMMA MatchedKeeps ==
    ASSUME NEW n \in Notes, NEW w \in Works
    PROVE  LET m == MatchedFromStore(n, w)
           IN  /\ m \in Notes /\ m.until = n.until /\ m.added = n.added
               /\ w.since # {} => /\ m.ranges = n.ranges
                                  /\ m.late = UNION {GivenUp(l, w.until) : l \in n.late}
               /\ w.since = {} => /\ m.late = n.late
                                  /\ m.ranges = Left(n.ranges, w.until)
<1>0. /\ \A r \in n.ranges : r \in Ranges /\ r.from \in Int /\ r.to \in Int
      /\ \A l \in n.late : l \in LookBacks /\ l.from \in Int /\ l.to \in Int
      /\ w.until \in Int
  BY DEF Notes, Ranges, LookBacks, Works
<1>1. CASE w.since # {}
  <2>1. MatchedFromStore(n, w) = [n EXCEPT !.late = UNION {GivenUp(l, w.until) : l \in n.late}]
    BY <1>1 DEF MatchedFromStore, Notes
  <2>2. ASSUME NEW l \in n.late PROVE GivenUp(l, w.until) \in SUBSET LookBacks
    BY <1>0, GivenUpKeeps
  <2>3. UNION {GivenUp(l, w.until) : l \in n.late} \in SUBSET LookBacks
    BY <2>2
  <2> QED BY <1>1, <2>1, <2>3 DEF Notes
<1>2. CASE w.since = {}
  <2> DEFINE left == Left(n.ranges, w.until)
  <2>1. MatchedFromStore(n, w) = [n EXCEPT !.ranges = left]
    BY <1>2 DEF MatchedFromStore, Notes, Oldest, Left
  <2>2. ASSUME NEW r \in n.ranges PROVE GivenUp(r, w.until) \in SUBSET Ranges
    BY <1>0, GivenUpKeeps
  <2>3. ASSUME NEW x \in left PROVE x \in Ranges
    <3>1. CASE x \in n.ranges
      BY <1>0, <3>1
    <3>2. CASE x \notin n.ranges
      <4>1. PICK r \in Oldest(n.ranges) : x \in GivenUp(r, w.until)
        BY <3>2 DEF Left
      <4> QED BY <2>2, <4>1 DEF Oldest
    <3> QED BY <3>1, <3>2
  <2>4. left \in SUBSET Ranges
    BY <2>3
  <2> HIDE DEF left
  <2>5. [n EXCEPT !.ranges = left] \in Notes
    BY <2>4 DEF Notes
  <2> QED BY <1>2, <2>1, <2>5 DEF Notes, left
<1> QED BY <1>1, <1>2

(* Giving up a part of the oldest range leaves ranges that are apart, lie  *)
(* in those there were, and hold every time from until on that they held.  *)
LEMMA LeftKeeps ==
    ASSUME NEW R \in SUBSET Ranges, AreApart(R), NEW until \in Int
    PROVE  /\ AreApart(Left(R, until))
           /\ \A s \in Left(R, until) :
                  \E r \in R : s.from = r.from \/ (r.from <= until /\ s.from = until)
           /\ \A r \in R : \A time \in Int :
                  Within(time, r) => time < until \/ \E s \in Left(R, until) : Within(time, s)
<1> DEFINE L == Left(R, until)
<1>0. \A r \in R : r \in Ranges /\ r.from \in Int /\ r.to \in Int
  BY DEF Ranges
<1>1. ASSUME NEW r \in Oldest(R), NEW s \in Oldest(R)
      PROVE  r = s
  <2>1. r \in R /\ s \in R /\ r.from <= s.from /\ s.from <= r.from
    BY DEF Oldest
  <2>2. r.from < r.to /\ s.from < s.to /\ (r = s \/ r.to < s.from \/ s.to < r.from)
    BY <2>1 DEF AreApart
  <2> QED BY <1>0, <2>1, <2>2
<1>2. ASSUME NEW r \in Oldest(R)
      PROVE  /\ r \in R
             /\ \A s \in GivenUp(r, until) :
                    /\ s \in Ranges /\ s = [r EXCEPT !.from = Larger(r.from, until)]
                    /\ s.to = r.to /\ s.from = Larger(r.from, until) /\ s.from \in Int
                    /\ r.from <= s.from /\ s.from < s.to
  <2>1. r \in R
    BY DEF Oldest
  <2>2. r \in Ranges /\ r.from \in Int /\ r.to \in Int
    BY <1>0, <2>1
  <2> QED BY <2>1, <2>2, GivenUpKeeps
<1>3. ASSUME NEW s \in L
      PROVE  \/ s \in R /\ s \notin Oldest(R)
             \/ \E r \in Oldest(R) : s \in GivenUp(r, until)
  BY DEF Left
<1>4. ASSUME NEW s \in L
      PROVE  /\ s.from \in Int /\ s.to \in Int /\ s.from < s.to
             /\ \E r \in R : /\ s.to = r.to /\ r.from <= s.from
                             /\ s.from = r.from \/ (r.from <= until /\ s.from = until)
                             /\ \/ s = r /\ r \notin Oldest(R)
                                \/ r \in Oldest(R) /\ s \in GivenUp(r, until)
  <2>1. CASE s \in R /\ s \notin Oldest(R)
    <3>1. s.from <= s.from
      BY <1>0, <2>1
    <3> QED BY <1>0, <2>1, <3>1 DEF AreApart
  <2>2. CASE \E r \in Oldest(R) : s \in GivenUp(r, until)
    <3>1. PICK r \in Oldest(R) : s \in GivenUp(r, until)
      BY <2>2
    <3>2. /\ r \in R /\ s.to = r.to /\ s.from = Larger(r.from, until) /\ s.from \in Int
          /\ r.from <= s.from /\ s.from < s.to
      BY <1>2, <3>1
    <3>3. r.from \in Int /\ r.to \in Int
      BY <1>0, <3>2
    <3>4. s.from = r.from \/ (r.from <= until /\ s.from = until)
      BY <3>2, <3>3 DEF Larger
    <3> QED BY <3>1, <3>2, <3>3, <3>4
  <2> QED BY <1>3, <2>1, <2>2
<1>5. IsFiniteSet(L)
  <2>1. IsFiniteSet(R \ Oldest(R))
    BY FS_Subset DEF AreApart
  <2>2. CASE Oldest(R) = {}
    <3>1. L = R \ Oldest(R)
      BY <2>2 DEF Left
    <3> QED BY <2>1, <3>1
  <2>3. CASE Oldest(R) # {}
    <3>1. PICK r \in Oldest(R) : TRUE
      BY <2>3
    <3>2. Oldest(R) = {r}
      BY <1>1
    <3>3. L \subseteq (R \ Oldest(R)) \union {[r EXCEPT !.from = Larger(r.from, until)]}
      BY <1>2, <1>3, <3>2 DEF Left
    <3>4. IsFiniteSet((R \ Oldest(R)) \union {[r EXCEPT !.from = Larger(r.from, until)]})
      BY <2>1, FS_AddElement
    <3> QED BY <3>3, <3>4, FS_Subset
  <2> QED BY <2>2, <2>3
<1>6. ASSUME NEW s \in L, NEW t \in L, s # t
      PROVE  s.to < t.from \/ t.to < s.from
  <2>1. PICK a \in R : /\ s.to = a.to /\ a.from <= s.from
                      /\ \/ s = a /\ a \notin Oldest(R)
                         \/ a \in Oldest(R) /\ s \in GivenUp(a, until)
    BY <1>4
  <2>2. PICK b \in R : /\ t.to = b.to /\ b.from <= t.from
                      /\ \/ t = b /\ b \notin Oldest(R)
                         \/ b \in Oldest(R) /\ t \in GivenUp(b, until)
    BY <1>4
  <2>3. CASE a = b
    <3>1. a \in Oldest(R) /\ s \in GivenUp(a, until) /\ t \in GivenUp(a, until)
      BY <1>6, <2>1, <2>2, <2>3
    <3> QED BY <1>2, <1>6, <3>1
  <2>4. CASE a # b
    <3>1. a.to < b.from \/ b.to < a.from
      BY <2>4 DEF AreApart
    <3>2. a.from \in Int /\ a.to \in Int /\ b.from \in Int /\ b.to \in Int
      BY <1>0
    <3> QED BY <1>4, <2>1, <2>2, <3>1, <3>2
  <2> QED BY <2>3, <2>4
<1>7. AreApart(L)
  BY <1>4, <1>5, <1>6 DEF AreApart
<1>8. ASSUME NEW r \in R, NEW time \in Int, Within(time, r), ~(time < until)
      PROVE  \E s \in L : Within(time, s)
  <2>1. CASE r \in Oldest(R)
    <3>1. \E s \in GivenUp(r, until) : Within(time, s)
      <4>1. until <= time /\ r \in Ranges /\ r.from \in Int /\ r.to \in Int
        BY <1>0, <1>8
      <4> QED BY <1>8, <4>1, GivenUpHolds
    <3> QED BY <2>1, <3>1 DEF Left
  <2>2. CASE r \notin Oldest(R)
    BY <1>8, <2>2 DEF Left
  <2> QED BY <2>1, <2>2
<1> HIDE DEF L
<1>9. \A s \in L : \E r \in R : s.from = r.from \/ (r.from <= until /\ s.from = until)
  BY <1>4
<1> QED BY <1>7, <1>8, <1>9 DEF L

-----------------------------------------------------------------------------
(* What every step keeps, or lets grow.                                    *)

(* The invariant holds at the start. *)
LEMMA InitHasInvariant == Init => RInv
<1> SUFFICES ASSUME Init PROVE RInv
  OBVIOUS
<1> USE DEF Init
<1>1. Types
  <2>1. noted \in Notes /\ file.until \in Nat /\ file = [noted EXCEPT !.until = file.until]
    BY DEF Notes
  <2> QED BY <2>1 DEF Types, Events
<1>2. Places /\ Ordered /\ Kept /\ Working /\ Looked /\ Looking
  BY DEF Places, Ordered, Kept, Working, Looked, Looking
<1>3. Behind
  BY DEF Behind, Ahead
<1>4. Apart /\ Pending
  BY FS_EmptySet DEF Apart, AreApart, Pending
<1>5. Below
  BY DEF Below
<1> QED BY <1>1, <1>2, <1>3, <1>4, <1>5 DEF RInv

(* An event has a time, which has come. *)
LEMMA TimesOfEvents ==
    ASSUME Types, Ordered
    PROVE  \A event \in Events : Taken(event) \in Nat /\ Taken(event) <= now
<1>1. log \in Seq(Nat) /\ \A i \in 1..Len(log) : log[i] \in Nat /\ log[i] <= now
  BY DEF Types, Ordered
<1>2. \A event \in Events : event + 1 \in 1..Len(log)
  BY <1>1 DEF Events
<1> QED BY <1>1, <1>2 DEF Taken

(* An event that arrives comes last, and is not much older than now. *)
LEMMA Arrives ==
    ASSUME Types, Arrive
    PROVE  \E taken \in Nat :
              /\ now - Lateness <= taken /\ taken <= now
              /\ log' = Append(log, taken) /\ Len(log') = Len(log) + 1
              /\ \A i \in 1..Len(log) : log'[i] = log[i]
              /\ log'[Len(log) + 1] = taken
              /\ unsettled' = IF taken < readTo THEN unsettled \union {Len(log)} ELSE unsettled
<1>1. PICK taken \in Instants \intersect ((now - Lateness)..now) :
          /\ log' = Append(log, taken)
          /\ unsettled' = IF taken < readTo THEN unsettled \union {Len(log)} ELSE unsettled
  BY DEF Arrive
<1>2. taken \in Nat /\ now - Lateness <= taken /\ taken <= now
  BY BoundsAssumption, DisorderAssumption DEF Types
<1>3. Len(log') = Len(log) + 1 /\ log'[Len(log) + 1] = taken
      /\ \A i \in 1..Len(log) : log'[i] = log[i]
  BY <1>1, <1>2 DEF Types
<1> QED BY <1>1, <1>2, <1>3

(* The topic: what it has stays, and what comes is late by Lateness at     *)
(* most, and noted as unsettled if its time was read.                      *)
Lasting ==
    /\ \A event \in Events : event \in Events' /\ Taken(event)' = Taken(event)
    /\ \A event \in Events' : \/ event \in Events
                              \/ /\ Taken(event)' \in Nat /\ now - Lateness <= Taken(event)'
                                 /\ Taken(event)' >= readTo \/ event \in unsettled'

(* No step changes what was received, or when. *)
LEMMA TopicLasts ==
    ASSUME Types, [Next]_vars
    PROVE  Lasting
<1>1. CASE Arrive
  <2>1. PICK taken \in Nat :
              /\ now - Lateness <= taken /\ taken <= now
              /\ log' = Append(log, taken) /\ Len(log') = Len(log) + 1
              /\ \A i \in 1..Len(log) : log'[i] = log[i]
              /\ log'[Len(log) + 1] = taken
              /\ unsettled' = IF taken < readTo THEN unsettled \union {Len(log)} ELSE unsettled
    BY <1>1, Arrives
  <2>2. Len(log) \in Nat /\ readTo \in Int /\ Events = 0..(Len(log) - 1) /\ Events' = 0..Len(log)
    BY <2>1 DEF Types, Events
  <2>3. ASSUME NEW event \in Events PROVE event \in Events' /\ Taken(event)' = Taken(event)
    BY <2>1, <2>2 DEF Taken
  <2>4. ASSUME NEW event \in Events', event \notin Events
        PROVE  /\ Taken(event)' \in Nat /\ now - Lateness <= Taken(event)'
               /\ Taken(event)' >= readTo \/ event \in unsettled'
    <3>1. event = Len(log) /\ Taken(event)' = taken
      BY <2>1, <2>2, <2>4 DEF Taken
    <3> QED BY <2>1, <2>2, <3>1
  <2> QED BY <2>3, <2>4 DEF Lasting
<1>2. CASE log' = log
  BY <1>2 DEF Lasting, Events, Taken
<1>3. Arrive \/ log' = log
  BY DEF Next, vars, topic, Tick, Store, DetectReceive, DetectMatch, DetectAcknowledge,
         DetectNote, Load, NoteAdded, RematchLook, RematchRead, RematchNote, Crash
<1> QED BY <1>1, <1>2, <1>3

(* Nothing is taken back: no time, no match, no feed, no event.            *)
Growing ==
    /\ now' \in Nat /\ now <= now' /\ readTo' \in Int /\ readTo <= readTo'
    /\ matched \subseteq matched' /\ unsettled \subseteq unsettled' /\ stored \subseteq stored'
    /\ at' \in Nat /\ at <= at'
    /\ feed' \in Seq(Nat) /\ Len(feed) <= Len(feed')
    /\ \A v \in 1..Len(feed) : feed'[v] = feed[v]

(* No step takes back what was passed, stored or added. *)
LEMMA NothingIsTakenBack ==
    ASSUME Types, [Next]_vars
    PROVE  Growing
<1> DEFINE Rest == UNCHANGED <<now, readTo, matched, unsettled, stored, at, feed>>
<1>0. /\ now \in Nat /\ readTo \in Int /\ at \in Nat /\ next \in Int /\ at <= next
      /\ feed \in Seq(Nat)
  BY DEF Types
<1>1. CASE Tick
  BY <1>0, <1>1, Ticks DEF Tick, Growing, topic, detect, refresh, history
<1>2. CASE Arrive
  <2>1. unsettled \subseteq unsettled' /\ UNCHANGED <<now, readTo, matched, stored, at, feed>>
    BY <1>2 DEF Arrive, detect, refresh
  <2> QED BY <1>0, <2>1 DEF Growing
<1>3. ASSUME NEW event \in Events \ stored, Store(event) PROVE Growing
  <2>1. stored \subseteq stored' /\ UNCHANGED <<now, readTo, matched, unsettled, at, feed>>
    BY <1>3 DEF Store, detect, refresh, history
  <2> QED BY <1>0, <2>1 DEF Growing
<1>4. CASE DetectMatch
  <2>1. matched \subseteq matched' /\ UNCHANGED <<now, readTo, stored, unsettled, at, feed>>
    BY <1>4 DEF DetectMatch, topic, refresh, history
  <2> QED BY <1>0, <2>1 DEF Growing
<1>5. CASE DetectAcknowledge
  <2>1. at' = next /\ UNCHANGED <<now, readTo, stored, unsettled, matched, feed>>
    BY <1>5 DEF DetectAcknowledge, topic, refresh, history
  <2> QED BY <1>0, <2>1 DEF Growing
<1>6. CASE Load
  <2>1. feed' = Append(feed, now) /\ UNCHANGED <<now, readTo, stored, unsettled, matched, at>>
    BY <1>6 DEF Load, topic, detect, history
  <2>2. /\ feed' \in Seq(Nat) /\ Len(feed) <= Len(feed')
        /\ \A v \in 1..Len(feed) : feed'[v] = feed[v]
    BY <1>0, <2>1
  <2> QED BY <1>0, <2>1, <2>2 DEF Growing
<1>7. CASE RematchRead
  <2>1. UNCHANGED <<now, stored, at, feed>>
    BY <1>7 DEF RematchRead, topic, detect, refresh
  <2>2. PICK w \in work :
          \/ /\ matched \subseteq matched' /\ unsettled \subseteq unsettled'
             /\ readTo' = Larger(readTo, w.until)
          \/ UNCHANGED <<matched, unsettled, readTo>>
    BY <1>7 DEF RematchRead, history
  <2>3. w.until \in Int
    BY DEF Types, Works
  <2>4. /\ readTo' \in Int /\ readTo <= readTo'
        /\ matched \subseteq matched' /\ unsettled \subseteq unsettled'
    BY <1>0, <2>2, <2>3 DEF Larger
  <2> QED BY <1>0, <2>1, <2>4 DEF Growing
<1>8. CASE Rest
  BY <1>0, <1>8 DEF Growing
<1>9. CASE DetectReceive \/ DetectNote \/ NoteAdded \/ RematchLook \/ RematchNote \/ Crash \/ UNCHANGED vars
  <2>1. Rest
    BY <1>9 DEF DetectReceive, DetectNote, NoteAdded, RematchLook, RematchNote, Crash,
                vars, topic, detect, refresh, rematch, notes, history
  <2> QED BY <1>8, <2>1
<1> QED BY <1>1, <1>2, <1>3, <1>4, <1>5, <1>6, <1>7, <1>9 DEF Next

-----------------------------------------------------------------------------
(* The notes.                                                              *)

NotesFit ==
    /\ noted \in Notes /\ file.until \in Nat /\ file = [noted EXCEPT !.until = file.until]
    /\ Apart /\ Pending

(* What the detector was moved to: an event, or now. *)
LEMMA MovedTo ==
    ASSUME Types, DetectReceive
    PROVE  \E released \in base..Len(log) :
              LET from == Larger(next, released)
                  to == Smaller(Len(log), from + Batch)
              IN  /\ dpc = "receiving" /\ (next < from \/ from < to)
                  /\ 0..(released - 1) \subseteq stored /\ base' = released
                  /\ next' = to /\ batch' = from..(to - 1)
                  /\ dpc' = IF from < to THEN "matching" ELSE "receiving"
                  /\ IF next < from
                     THEN \E resumed \in Nat :
                             /\ noted' = Skipped(noted, resumed) /\ file' = noted'
                             /\ resumed = IF from < to THEN Taken(from) ELSE now
                     ELSE UNCHANGED notes
                  /\ from \in next..Len(log) /\ to \in from..Len(log)
                  /\ from = to => from = Len(log)
<1>1. PICK released \in {base} \union ((Larger(base, next) + 1)..Len(log)) :
          LET from == Larger(next, released)
              to == Smaller(Len(log), from + Batch)
          IN  /\ dpc = "receiving" /\ (next < from \/ from < to)
              /\ 0..(released - 1) \subseteq stored
              /\ base' = released
              /\ next' = to /\ batch' = from..(to - 1)
              /\ dpc' = IF from < to THEN "matching" ELSE "receiving"
              /\ IF next < from
                 THEN Save(Skipped(noted, IF from < to THEN Taken(from) ELSE now))
                 ELSE UNCHANGED notes
  BY DEF DetectReceive
<1> DEFINE from == Larger(next, released)
           to == Smaller(Len(log), from + Batch)
           resumed == IF from < to THEN Taken(from) ELSE now
<1>2. /\ base \in Nat /\ next \in Nat /\ Len(log) \in Nat /\ base <= Len(log) /\ next <= Len(log)
      /\ Batch \in Nat /\ 0 < Batch /\ now \in Nat
  BY BoundsAssumption DEF Types
<1>3. released \in base..Len(log)
  BY <1>2 DEF Larger
<1>4. /\ from \in next..Len(log) /\ to \in from..Len(log) /\ (from = to => from = Len(log))
  BY <1>2, <1>3 DEF Larger, Smaller
<1>5. resumed \in Nat
  <2>1. CASE from < to
    <3>1. from + 1 \in 1..Len(log)
      BY <1>2, <1>4, <2>1
    <3>2. log[from + 1] \in Nat
      BY <3>1 DEF Types
    <3> QED BY <2>1, <3>2 DEF Taken
  <2> QED BY <1>2, <2>1
<1>6. next < from => noted' = Skipped(noted, resumed) /\ file' = noted'
  BY <1>1 DEF Save
<1> HIDE DEF from, to, resumed
<1>7. IF next < from
      THEN \E r \in Nat : noted' = Skipped(noted, r) /\ file' = noted'
                          /\ r = IF from < to THEN Taken(from) ELSE now
      ELSE UNCHANGED notes
  <2>1. resumed = IF from < to THEN Taken(from) ELSE now
    BY DEF resumed
  <2> QED BY <1>1, <1>5, <1>6, <2>1 DEF from
<1> USE DEF from, to
<1> QED BY <1>1, <1>3, <1>4, <1>7

(* Saved notes that fit are the file's. *)
LEMMA SavedFit ==
    ASSUME NEW n \in Notes, noted' = n, file' = n, AreApart(n.ranges), Pending'
    PROVE  NotesFit'
BY DEF NotesFit, Apart, Notes

(* A step keeps both notes in their type. *)
LEMMA NotesStayFit ==
    ASSUME RInv, [Next]_vars
    PROVE  NotesFit'
<1> USE DEF RInv
<1>0. /\ noted \in Notes /\ AreApart(noted.ranges) /\ now \in Nat /\ now' \in Nat /\ now <= now'
      /\ \A a \in noted.added : a.until \in Nat /\ a.until <= now /\ noted.added = {a}
      /\ \A l \in noted.late : l.since # {} /\ noted.late = {l}
  BY NothingIsTakenBack DEF Growing, Types, Apart, Pending, Notes, Additions
<1>10. IsFiniteSet(noted.added)
  <2>1. noted.added = {} \/ \E a : noted.added = {a}
    BY <1>0
  <2> QED BY <2>1, FS_EmptySet, FS_Singleton
<1>1. CASE UNCHANGED notes
  <2>1. Pending'
    BY <1>0, <1>1 DEF Pending, notes
  <2> QED BY <1>1, <2>1 DEF NotesFit, Types, Apart, notes
<1>2. ASSUME noted'.added = noted.added, noted'.late = noted.late
      PROVE  Pending'
  BY <1>0, <1>2 DEF Pending
<1>3. CASE DetectReceive
  <2>1. CASE UNCHANGED notes
    BY <1>1, <2>1
  <2>2. ASSUME NEW resumed \in Nat, noted' = Skipped(noted, resumed), file' = noted'
        PROVE  NotesFit'
    <3> DEFINE n == Skipped(noted, resumed)
    <3>1. n \in Notes /\ AreApart(n.ranges) /\ n.added = noted.added /\ n.late = noted.late
      BY <1>0, SkippedKeeps DEF Notes
    <3> HIDE DEF n
    <3>2. noted' = n /\ file' = n
      BY <2>2 DEF n
    <3>3. Pending'
      BY <1>2, <3>1, <3>2
    <3> QED BY <3>1, <3>2, <3>3, SavedFit
  <2>3. UNCHANGED notes \/ \E resumed \in Nat : noted' = Skipped(noted, resumed) /\ file' = noted'
    BY <1>3, MovedTo
  <2> QED BY <2>1, <2>2, <2>3
<1>4. CASE DetectNote
  <2> DEFINE n == [noted EXCEPT !.until = Larger(noted.until, Taken(next - 1))]
  <2>1. noted' = n /\ file' \in {file, n}
    BY <1>4 DEF DetectNote
  <2>2. Larger(noted.until, Taken(next - 1)) \in Nat
    <3>1. next \in 1..Len(log)
      BY <1>4 DEF Types, Places, DetectNote
    <3>2. Taken(next - 1) = log[next]
      BY <3>1 DEF Taken, Types
    <3>3. log[next] \in Nat /\ noted.until \in Nat
      BY <3>1 DEF Types, Notes
    <3> QED BY <3>2, <3>3 DEF Larger
  <2>3. n \in Notes /\ n.ranges = noted.ranges /\ n.added = noted.added /\ n.late = noted.late
    BY <1>0, <2>2 DEF Notes
  <2>4. file = [n EXCEPT !.until = file.until] /\ file.until \in Nat
    BY <1>0 DEF Types, Notes
  <2>5. n = [n EXCEPT !.until = n.until] /\ n.until \in Nat
    BY <2>3 DEF Notes
  <2> HIDE DEF n
  <2>6. file'.until \in Nat /\ file' = [noted' EXCEPT !.until = file'.until]
    BY <2>1, <2>4, <2>5
  <2>7. Pending'
    BY <1>2, <2>1, <2>3
  <2> QED BY <1>0, <2>1, <2>3, <2>6, <2>7 DEF NotesFit, Apart
<1>5. CASE NoteAdded
  <2>1. feed[Len(feed)] \in Nat
    BY <1>5 DEF NoteAdded, Types, Places
  <2>2. PICK a \in Additions : /\ Added(noted, feed[Len(feed)]) = [noted EXCEPT !.added = {a}]
                               /\ a.until = now
    <3>1. \A a \in noted.added : a.until <= now
      BY <1>0
    <3>2. PICK m \in Notes, start \in Nat : m = noted /\ start = feed[Len(feed)]
      BY <1>0, <2>1 DEF Types
    <3>3. now \in Nat
      BY <1>0
    <3>4. IsFiniteSet(m.added) /\ \A a \in m.added : a.until <= now
      BY <1>10, <3>1, <3>2
    <3>5. \E a \in Additions : Added(m, start) = [m EXCEPT !.added = {a}] /\ a.until = now
      BY ONLY <3>2, <3>3, <3>4, AddedKeeps
    <3> QED BY <3>2, <3>5
  <2> DEFINE n == [noted EXCEPT !.added = {a}]
  <2>3. noted' = n /\ file' = n /\ now' = now
    BY <1>5, <2>2 DEF NoteAdded, Save
  <2>4. n \in Notes /\ n.ranges = noted.ranges /\ n.added = {a} /\ n.late = noted.late
    BY <1>0 DEF Notes
  <2> HIDE DEF n
  <2>5. Pending'
    BY <1>0, <2>2, <2>3, <2>4, FS_Singleton DEF Pending
  <2> QED BY <1>0, <2>3, <2>4, <2>5, SavedFit
<1>6. CASE RematchLook
  <2>1. CASE UNCHANGED notes
    BY <1>1, <2>1
  <2>2. CASE Save(BeginLookBack(noted))
    <3> DEFINE n == BeginLookBack(noted)
    <3>1. /\ n \in Notes /\ n.ranges = noted.ranges
          /\ \/ n = noted
             \/ n.added = {} /\ n.late = {Reach(a) : a \in noted.added}
      BY <1>0, BeginKeeps
    <3> HIDE DEF n
    <3>2. noted' = n /\ file' = n
      BY <2>2 DEF Save, n
    <3>3. CASE n = noted
      <4>1. Pending'
        BY <1>2, <3>2, <3>3
      <4> QED BY <1>0, <3>1, <3>2, <4>1, SavedFit
    <3>4. CASE n.added = {} /\ n.late = {Reach(a) : a \in noted.added}
      <4>1. \A a \in noted.added : n.late = {Reach(a)} /\ Reach(a).since = {a.since}
        BY <1>0, <3>4 DEF Reach
      <4>2. \A l \in n.late : l.since # {} /\ n.late = {l}
        BY <3>4, <4>1
      <4>3. Pending'
        BY <3>2, <3>4, <4>2 DEF Pending
      <4> QED BY <1>0, <3>1, <3>2, <4>3, SavedFit
    <3> QED BY <3>1, <3>3, <3>4
  <2> QED BY <1>6, <2>1, <2>2 DEF RematchLook, notes, Save
<1>7. CASE RematchNote
  <2>1. PICK w \in work : Save(MatchedFromStore(noted, w))
    BY <1>7 DEF RematchNote
  <2>2. w \in Works
    BY DEF Types
  <2> DEFINE n == MatchedFromStore(noted, w)
  <2>3. /\ n \in Notes /\ n.added = noted.added
        /\ w.since # {} => /\ n.ranges = noted.ranges
                           /\ n.late = UNION {GivenUp(l, w.until) : l \in noted.late}
        /\ w.since = {} => /\ n.late = noted.late
                           /\ n.ranges = Left(noted.ranges, w.until)
    BY <1>0, <2>2, MatchedKeeps
  <2> HIDE DEF n
  <2>4. noted' = n /\ file' = n
    BY <2>1 DEF Save, n
  <2>5. noted.ranges \in SUBSET Ranges /\ w.until \in Int
    BY <1>0, <2>2 DEF Notes, Works
  <2>6. AreApart(n.ranges)
    BY <1>0, <2>3, <2>5, LeftKeeps
  <2>7. \A l \in n.late : l.since # {} /\ n.late = {l}
    <3>1. CASE w.since = {}
      BY <1>0, <2>3, <3>1
    <3>2. ASSUME w.since # {}, NEW l \in n.late
          PROVE  l.since # {} /\ n.late = {l}
      <4>1. PICK m \in noted.late : l \in GivenUp(m, w.until)
        BY <2>3, <3>2
      <4>2. n.late = GivenUp(m, w.until)
        BY <1>0, <2>3, <3>2
      <4>3. m \in LookBacks /\ m.from \in Int /\ m.to \in Int
        BY <1>0 DEF Notes, LookBacks
      <4>4. \A s \in GivenUp(m, w.until) :
                s.since = m.since /\ s = [m EXCEPT !.from = Larger(m.from, w.until)]
        BY <2>5, <4>3, GivenUpKeeps
      <4> QED BY <1>0, <4>1, <4>2, <4>4
    <3> QED BY <3>1, <3>2
  <2>8. Pending'
    <3>1. now' = now
      BY <1>7 DEF RematchNote
    <3> QED BY <1>0, <2>3, <2>4, <2>7, <3>1 DEF Pending
  <2> QED BY <2>3, <2>4, <2>6, <2>8, SavedFit
<1>8. CASE Crash
  <2>1. noted' = file /\ file' = file
    BY <1>8 DEF Crash
  <2>2. /\ file \in Notes /\ file.ranges = noted.ranges
        /\ file.added = noted.added /\ file.late = noted.late
    BY DEF Types, Notes
  <2>3. Pending'
    BY <1>2, <2>1, <2>2
  <2> QED BY <1>0, <2>1, <2>2, <2>3, SavedFit
<1>9. CASE Tick \/ Arrive \/ (\E event \in Events \ stored : Store(event)) \/ DetectMatch
           \/ DetectAcknowledge \/ Load \/ RematchRead \/ UNCHANGED vars
  <2>1. UNCHANGED notes
    BY <1>9 DEF Tick, Arrive, Store, DetectMatch, DetectAcknowledge, Load, RematchRead, vars
  <2> QED BY <1>1, <2>1
<1> QED BY <1>3, <1>4, <1>5, <1>6, <1>7, <1>8, <1>9 DEF Next

-----------------------------------------------------------------------------
(* Types, places and the order of events.                                  *)

TopicFits ==
    /\ log \in Seq(Nat) /\ base \in 0..Len(log) /\ stored \in SUBSET Events
    /\ next \in at..Len(log) /\ batch \in SUBSET (at..(next - 1))

(* A step keeps the topic and the detector in their type. *)
LEMMA TopicStaysFit ==
    ASSUME RInv, [Next]_vars
    PROVE  TopicFits'
<1> USE DEF RInv
<1>0. /\ log \in Seq(Nat) /\ Len(log) \in Nat /\ base \in Nat /\ base <= Len(log)
      /\ stored \in SUBSET Events /\ Events = 0..(Len(log) - 1)
      /\ at \in Nat /\ next \in Nat /\ at <= next /\ next <= Len(log)
      /\ batch \in SUBSET (at..(next - 1))
  BY DEF Types, Events
<1>1. CASE Arrive
  <2>1. PICK taken \in Nat : log' = Append(log, taken) /\ Len(log') = Len(log) + 1
    BY <1>1, Arrives
  <2>2. log' \in Seq(Nat) /\ UNCHANGED <<base, stored, next, at, batch>>
    BY <1>0, <1>1, <2>1 DEF Arrive, detect
  <2>3. Events' = 0..Len(log)
    BY <2>1, <1>0 DEF Events
  <2> QED BY <1>0, <2>1, <2>2, <2>3 DEF TopicFits
<1>2. ASSUME NEW event \in Events \ stored, Store(event)
      PROVE  TopicFits'
  <2>1. stored' = stored \union {event} /\ UNCHANGED <<log, base, next, at, batch>>
    BY <1>2 DEF Store, detect
  <2> QED BY <1>0, <2>1 DEF TopicFits, Events
<1>3. CASE DetectReceive
  <2>1. PICK released \in base..Len(log) :
              LET from == Larger(next, released)
                  to == Smaller(Len(log), from + Batch)
              IN  /\ base' = released
                  /\ next' = to /\ batch' = from..(to - 1)
                  /\ from \in next..Len(log) /\ to \in from..Len(log)
    BY <1>3, MovedTo
  <2> DEFINE from == Larger(next, released)
             to == Smaller(Len(log), from + Batch)
  <2>2. /\ base' = released /\ next' = to /\ batch' = from..(to - 1)
        /\ from \in next..Len(log) /\ to \in from..Len(log)
    BY <2>1
  <2> HIDE DEF from, to
  <2>3. UNCHANGED <<log, stored, at>>
    BY <1>3 DEF DetectReceive
  <2>4. from..(to - 1) \in SUBSET (at..(to - 1)) /\ to \in at..Len(log) /\ released \in 0..Len(log)
    BY <1>0, <2>2
  <2> QED BY <1>0, <2>2, <2>3, <2>4 DEF TopicFits, Events
<1>4. CASE DetectMatch
  BY <1>0, <1>4 DEF DetectMatch, topic, TopicFits, Events
<1>5. CASE DetectAcknowledge
  <2>1. batch = {} /\ at' = next /\ UNCHANGED <<log, base, stored, next, batch>>
    BY <1>5 DEF DetectAcknowledge, topic, Places
  <2> QED BY <1>0, <2>1 DEF TopicFits, Events
<1>6. CASE Crash
  <2>1. next' = at /\ batch' = {} /\ UNCHANGED <<log, base, stored, at>>
    BY <1>6 DEF Crash, topic
  <2> QED BY <1>0, <2>1 DEF TopicFits, Events
<1>7. CASE Tick \/ DetectNote \/ Load \/ NoteAdded \/ RematchLook \/ RematchRead \/ RematchNote
           \/ UNCHANGED vars
  <2>1. UNCHANGED <<log, base, stored, at, next, batch>>
    BY <1>7 DEF Tick, DetectNote, Load, NoteAdded, RematchLook, RematchRead, RematchNote,
                vars, topic, detect
  <2> QED BY <1>0, <2>1 DEF TopicFits, Events
<1> QED BY <1>1, <1>2, <1>3, <1>4, <1>5, <1>6, <1>7 DEF Next

(* What rematch takes. *)
Taking(n) ==
    {[from |-> w.from, to |-> w.to, since |-> w.since,
      until |-> Smaller(w.to, w.from + IF w.since = {} THEN WINDOW ELSE LOOK_BACK_WINDOW)] : w \in First(n)}

(* A look takes the oldest ranges there are, once a look back may begin. *)
LEMMA LookTakes ==
    ASSUME RInv, RematchLook
    PROVE  \E n \in {noted, BeginLookBack(noted)} :
              /\ rpc = "looking" /\ rpc' = "reading" /\ noted' = n /\ work' = Taking(n)
              /\ n \in Notes /\ n.ranges = noted.ranges
              /\ work' \in SUBSET Works
<1>1. PICK n \in {noted, BeginLookBack(noted)} :
          /\ rpc = "looking" /\ rpc' = "reading" /\ work' = Taking(n)
          /\ IF n = noted THEN UNCHANGED <<notes, looks>>
             ELSE Save(n) /\ looks' = {[look EXCEPT !.waits = FALSE] : look \in looks}
  BY DEF RematchLook, Taking
<1>2. n \in Notes /\ n.ranges = noted.ranges
  BY BeginKeeps DEF RInv, Types
<1>3. noted' = n
  BY <1>1 DEF Save, notes
<1>4. \A w \in First(n) : w.from \in Int /\ w.to \in Int /\ w.since \in SUBSET Nat
  BY <1>2, FirstKeeps DEF LookBacks
<1>5. WINDOW \in Int /\ LOOK_BACK_WINDOW \in Int
  BY TimesAssumption
<1>6. \A w \in First(n) :
          Smaller(w.to, w.from + IF w.since = {} THEN WINDOW ELSE LOOK_BACK_WINDOW) \in Int
  BY <1>4, <1>5 DEF Smaller
<1>7. Taking(n) \in SUBSET Works
  BY <1>4, <1>6 DEF Taking, Works
<1> QED BY <1>1, <1>2, <1>3, <1>7

(* A step keeps the work of the task in its type. *)
LEMMA WorkStaysFit ==
    ASSUME RInv, [Next]_vars
    PROVE  work' \in SUBSET Works
<1>1. CASE RematchLook
  BY <1>1, LookTakes
<1>2. work' = work \/ work' = {} \/ RematchLook
  BY DEF Next, Tick, Arrive, Store, DetectReceive, DetectMatch, DetectAcknowledge, DetectNote,
         Load, NoteAdded, RematchRead, RematchNote, Crash, vars, rematch
<1> QED BY <1>1, <1>2 DEF RInv, Types

(* The looks that wait are narrowed, and those there are keep what they    *)
(* look for and never look for more.                                       *)
LEMMA LooksStayFit ==
    ASSUME RInv, [Next]_vars
    PROVE  looks' \in SUBSET Looks
<1>0. looks \in SUBSET Looks /\ stored \in SUBSET Nat
  BY DEF RInv, Types, Events
<1>1. CASE RematchLook
  <2>1. looks' = looks \/ looks' = {[look EXCEPT !.waits = FALSE] : look \in looks}
    BY <1>1 DEF RematchLook
  <2>2. \A look \in looks : [look EXCEPT !.waits = FALSE] \in Looks
    BY <1>0 DEF Looks
  <2> QED BY <1>0, <2>1, <2>2
<1>2. CASE NoteAdded
  <2>1. InReach \in SUBSET Nat /\ Len(feed) \in Nat
    BY <1>0 DEF InReach, RInv, Types
  <2>2. [version |-> Len(feed), events |-> InReach, waits |-> TRUE] \in Looks
    BY <2>1 DEF Looks
  <2>3. \A look \in looks :
            [look EXCEPT !.events = IF look.waits THEN @ \intersect InReach ELSE @] \in Looks
    BY <1>0, <2>1 DEF Looks
  <2>4. looks' = {[look EXCEPT !.events = IF look.waits THEN @ \intersect InReach ELSE @] : look \in looks}
                   \union {[version |-> Len(feed), events |-> InReach, waits |-> TRUE]}
    BY <1>2 DEF NoteAdded
  <2> QED BY <2>2, <2>3, <2>4
<1>3. looks' = looks \/ RematchLook \/ NoteAdded
  BY DEF Next, Tick, Arrive, Store, DetectReceive, DetectMatch, DetectAcknowledge, DetectNote,
         Load, RematchRead, RematchNote, Crash, vars, refresh
<1> QED BY <1>0, <1>1, <1>2, <1>3

(* A step keeps every variable in its type. *)
LEMMA TypesStay ==
    ASSUME RInv, [Next]_vars
    PROVE  Types'
<1>1. Types
  BY DEF RInv
<1>2. Growing
  BY <1>1, NothingIsTakenBack
<1>3. TopicFits' /\ NotesFit' /\ work' \in SUBSET Works /\ looks' \in SUBSET Looks
  BY TopicStaysFit, NotesStayFit, WorkStaysFit, LooksStayFit
<1> QED BY <1>2, <1>3 DEF Growing, TopicFits, NotesFit, Types

(* A step keeps what goes with the places of the tasks. *)
LEMMA PlacesStay ==
    ASSUME RInv, [Next]_vars
    PROVE  Places'
<1> USE DEF RInv, Places
<1>1. CASE DetectReceive
  <2>1. PICK released \in base..Len(log) :
              LET from == Larger(next, released)
                  to == Smaller(Len(log), from + Batch)
              IN  /\ next' = to /\ batch' = from..(to - 1)
                  /\ dpc' = IF from < to THEN "matching" ELSE "receiving"
                  /\ from \in next..Len(log) /\ to \in from..Len(log)
    BY <1>1, MovedTo
  <2> DEFINE from == Larger(next, released)
             to == Smaller(Len(log), from + Batch)
  <2>2. /\ next' = to /\ batch' = from..(to - 1)
        /\ dpc' = IF from < to THEN "matching" ELSE "receiving"
        /\ from \in next..Len(log) /\ to \in from..Len(log)
    BY <2>1
  <2> HIDE DEF from, to
  <2>3. next \in Nat /\ Len(log) \in Nat
    BY DEF Types
  <2>4. UNCHANGED <<rpc, work, fpc, feed>>
    BY <1>1 DEF DetectReceive, rematch, refresh
  <2>5. CASE from < to
    BY <2>2, <2>3, <2>4, <2>5
  <2>6. CASE ~(from < to)
    <3>1. batch' = {} /\ dpc' = "receiving"
      BY <2>2, <2>3, <2>6
    <3> QED BY <2>4, <3>1
  <2> QED BY <2>5, <2>6
<1>2. CASE DetectMatch \/ DetectAcknowledge \/ DetectNote
  BY <1>2 DEF DetectMatch, DetectAcknowledge, DetectNote, rematch, refresh
<1>3. CASE Load
  <2>1. feed' # <<>>
    <3>1. feed \in Seq(Nat) /\ now \in Nat /\ feed' = Append(feed, now)
      BY <1>3 DEF Load, Types
    <3>2. Len(feed') = Len(feed) + 1 /\ Len(feed) \in Nat
      BY <3>1
    <3>3. Len(<<>>) = 0
      OBVIOUS
    <3> QED BY <3>2, <3>3
  <2> QED BY <1>3, <2>1 DEF Load, rematch, detect
<1>4. CASE RematchLook \/ RematchRead \/ RematchNote
  <2>1. UNCHANGED <<dpc, next, batch, at, fpc, feed>>
    BY <1>4 DEF RematchLook, RematchRead, RematchNote, detect, refresh
  <2>2. rpc' \in {"looking", "reading", "read"} /\ (rpc' = "looking" => work' = {})
    BY <1>4 DEF RematchLook, RematchRead, RematchNote
  <2> QED BY <2>1, <2>2
<1>5. CASE Crash \/ NoteAdded
  BY <1>5 DEF Crash, NoteAdded, rematch, detect
<1>6. CASE Tick \/ Arrive \/ (\E event \in Events \ stored : Store(event)) \/ UNCHANGED vars
  <2>1. UNCHANGED <<rpc, work, fpc, feed, dpc, next, batch, at>>
    BY <1>6 DEF Tick, Arrive, Store, vars, rematch, detect, refresh
  <2> QED BY <2>1
<1> QED BY <1>1, <1>2, <1>3, <1>4, <1>5, <1>6 DEF Next

(* A step keeps the times in their order. *)
LEMMA OrderStays ==
    ASSUME RInv, [Next]_vars
    PROVE  Ordered'
<1> USE DEF RInv
<1>0. /\ now \in Nat /\ now' \in Nat /\ now <= now' /\ Lateness \in Nat
      /\ log \in Seq(Nat) /\ \A i \in 1..Len(log) : log[i] \in Nat /\ log[i] <= now
  <2>1. log \in Seq(Nat) /\ now \in Nat /\ Lateness \in Nat
    BY DisorderAssumption DEF Types
  <2>2. \A i \in 1..Len(log) : log[i] \in Nat /\ log[i] <= now
    BY <2>1 DEF Ordered
  <2>3. now' \in Nat /\ now <= now'
    BY NothingIsTakenBack DEF Growing
  <2> QED BY <2>1, <2>2, <2>3
<1>1. CASE Arrive
  <2>1. PICK taken \in Nat :
              /\ now - Lateness <= taken /\ taken <= now
              /\ Len(log') = Len(log) + 1
              /\ \A i \in 1..Len(log) : log'[i] = log[i]
              /\ log'[Len(log) + 1] = taken
    BY <1>1, Arrives
  <2>2. now' = now
    BY <1>1 DEF Arrive
  <2>3. \A i \in 1..Len(log') : (i \in 1..Len(log) /\ log'[i] = log[i])
                                \/ (i = Len(log) + 1 /\ log'[i] = taken)
    BY <1>0, <2>1
  <2>4. \A i \in 1..Len(log') : log'[i] <= now'
    BY <1>0, <2>1, <2>2, <2>3
  <2>5. ASSUME NEW i \in 1..Len(log'), NEW j \in 1..Len(log'), i < j
        PROVE  log'[i] <= log'[j] + Lateness
    <3>1. i \in 1..Len(log) /\ log'[i] = log[i]
      BY <1>0, <2>1, <2>3, <2>5
    <3>2. CASE j \in 1..Len(log)
      BY <2>1, <2>5, <3>1, <3>2 DEF Ordered
    <3>3. CASE log'[j] = taken
      BY <1>0, <2>1, <3>1, <3>3
    <3> QED BY <2>3, <3>2, <3>3
  <2> QED BY <2>4, <2>5 DEF Ordered
<1>2. CASE log' = log
  <2>1. \A i \in 1..Len(log) : log[i] <= now'
    BY <1>0
  <2> QED BY <1>2, <2>1 DEF Ordered
<1>3. Arrive \/ log' = log
  BY DEF Next, vars, topic, Tick, Store, DetectReceive, DetectMatch, DetectAcknowledge,
         DetectNote, Load, NoteAdded, RematchLook, RematchRead, RematchNote, Crash
<1> QED BY <1>1, <1>2, <1>3

-----------------------------------------------------------------------------
(* No event that was missed is forgotten.                                  *)

(* What is to be received was, or has just arrived.                        *)
LEMMA AheadLasts ==
    ASSUME Types, [Next]_vars
    PROVE  /\ Ahead \subseteq Events /\ Ahead' \subseteq Events'
           /\ \A event \in Ahead' : event \in Events => event \in Ahead
<1>1. /\ Growing /\ at \in Nat /\ at' \in Nat /\ at <= at' /\ Len(log) \in Nat
  <2>1. Growing
    BY NothingIsTakenBack
  <2>2. at \in Nat /\ Len(log) \in Nat
    BY DEF Types
  <2>3. at' \in Nat /\ at <= at'
    BY <2>1, <2>2 DEF Growing
  <2> QED BY <2>1, <2>2, <2>3
<1>2. Len(log') \in Nat
  <2>1. log' = log \/ Arrive
    BY DEF Next, vars, topic, Tick, Store, DetectReceive, DetectMatch, DetectAcknowledge,
           DetectNote, Load, NoteAdded, RematchLook, RematchRead, RematchNote, Crash
  <2>2. CASE Arrive
    <3>1. Len(log') = Len(log) + 1
      BY <2>2, Arrives
    <3> QED BY <1>1, <3>1
  <2> QED BY <1>1, <2>1, <2>2
<1>3. Ahead = at..(Len(log) - 1) /\ Events = 0..(Len(log) - 1)
  BY DEF Ahead, Events
<1>4. Ahead' = at'..(Len(log') - 1) /\ Events' = 0..(Len(log') - 1)
  BY DEF Ahead, Events
<1> QED BY <1>1, <1>2, <1>3, <1>4

(* What is settled before a time stays so. *)
LEMMA PassedLasts ==
    ASSUME RInv, [Next]_vars, NEW time \in Int
    PROVE  /\ Passed(Events, time) => Passed(Events, time)'
           /\ Passed(Ahead, time) => Passed(Ahead, time)'
<1>1. /\ Lasting /\ Growing /\ Types /\ Ordered
      /\ Ahead \subseteq Events /\ Ahead' \subseteq Events'
      /\ \A event \in Ahead' : event \in Events => event \in Ahead
  BY TopicLasts, NothingIsTakenBack, AheadLasts DEF RInv
<1>2. /\ now \in Nat /\ now' \in Nat /\ now <= now'
      /\ readTo \in Int /\ readTo' \in Int /\ readTo <= readTo' /\ Lateness \in Nat
      /\ matched \subseteq matched' /\ unsettled \subseteq unsettled'
  BY <1>1, DisorderAssumption DEF Growing, Types
<1>3. ASSUME time <= now - Lateness \/ time <= readTo
      PROVE  (time <= now - Lateness \/ time <= readTo)'
  <2>1. PICK m \in Nat : m = now'
    BY <1>2
  <2>2. PICK r \in Int : r = readTo'
    BY <1>2
  <2>3. now <= m /\ readTo <= r
    BY <1>2, <2>1, <2>2
  <2>4. time <= m - Lateness \/ time <= r
    BY ONLY <1>2, <1>3, <2>3, m \in Nat, r \in Int, time \in Int
  <2>5. (now - Lateness)' = m - Lateness
    BY <2>1
  <2> QED BY <2>2, <2>4, <2>5
<1>4. ASSUME NEW event \in Events, Taken(event) >= time \/ Settled(event)
      PROVE  (Taken(event) >= time \/ Settled(event))'
  BY <1>1, <1>2, <1>4 DEF Lasting, Settled
<1>5. ASSUME NEW event \in Events', event \notin Events,
             time <= now - Lateness \/ time <= readTo
      PROVE  (Taken(event) >= time \/ Settled(event))'
  <2>1. /\ Taken(event)' \in Nat /\ now - Lateness <= Taken(event)'
        /\ Taken(event)' >= readTo \/ event \in unsettled'
    BY <1>1, <1>5 DEF Lasting
  <2>2. PICK t \in Nat : t = Taken(event)'
    BY <2>1
  <2>3. t >= time \/ event \in unsettled'
    BY <1>2, <1>5, <2>1, <2>2
  <2> QED BY <2>2, <2>3 DEF Settled
<1>6. Passed(Events, time) => Passed(Events, time)'
  BY <1>3, <1>4, <1>5 DEF Passed
<1>7. Passed(Ahead, time) => Passed(Ahead, time)'
  BY <1>1, <1>3, <1>4, <1>5 DEF Passed
<1> QED BY <1>6, <1>7

(* How far the notes say the detector came: they change it in DetectNote,  *)
(* and go back to the file's in a crash.                                   *)
LEMMA UntilStays ==
    ASSUME RInv, [Next]_vars
    PROVE  \/ DetectNote
           \/ noted'.until = noted.until /\ file'.until \in {noted.until, file.until}
           \/ noted'.until = file.until /\ file'.until = file.until
<1> USE DEF RInv
<1>0. noted \in Notes /\ AreApart(noted.ranges) /\ now \in Nat
  BY DEF Types, Apart
<1>1. CASE DetectReceive
  <2>1. UNCHANGED notes \/ \E resumed \in Nat : noted' = Skipped(noted, resumed) /\ file' = noted'
    BY <1>1, MovedTo
  <2>2. \A resumed \in Nat : Skipped(noted, resumed).until = noted.until
    BY <1>0, SkippedKeeps DEF Notes
  <2> QED BY <2>1, <2>2 DEF notes
<1>2. CASE NoteAdded
  <2>1. Added(noted, feed[Len(feed)]).until = noted.until
    BY <1>0 DEF Added, Notes
  <2> QED BY <1>2, <2>1 DEF NoteAdded, Save
<1>3. CASE RematchLook
  <2>1. BeginLookBack(noted).until = noted.until
    BY <1>0, BeginKeeps
  <2> QED BY <1>3, <2>1 DEF RematchLook, Save, notes
<1>4. CASE RematchNote
  <2>1. \A w \in work : MatchedFromStore(noted, w).until = noted.until
    BY <1>0, MatchedKeeps DEF Types
  <2> QED BY <1>4, <2>1 DEF RematchNote, Save
<1>5. CASE Crash
  BY <1>5 DEF Crash
<1>6. CASE UNCHANGED notes
  BY <1>6 DEF notes
<1>7. \/ UNCHANGED notes \/ DetectReceive \/ DetectNote \/ NoteAdded \/ RematchLook
      \/ RematchNote \/ Crash
  BY DEF Next, Tick, Arrive, Store, DetectMatch, DetectAcknowledge, Load, RematchRead, vars
<1> QED BY <1>1, <1>2, <1>3, <1>4, <1>5, <1>6, <1>7

(* A step leaves nothing much older than what was matched to be received. *)
LEMMA BehindStays ==
    ASSUME RInv, [Next]_vars
    PROVE  Behind'
<1> USE DEF RInv
<1>0. /\ Lasting /\ Growing /\ Types /\ Ordered /\ Behind
      /\ Ahead \subseteq Events /\ Ahead' \subseteq Events'
      /\ \A event \in Ahead' : event \in Events => event \in Ahead
  BY TopicLasts, NothingIsTakenBack, AheadLasts
<1>1. /\ now \in Nat /\ now' \in Nat /\ now <= now' /\ Lateness \in Nat
      /\ noted.until \in Nat /\ file.until \in Nat
      /\ file.until <= noted.until /\ noted.until <= now
  BY <1>0, DisorderAssumption DEF Growing, Types, Notes, Behind
<1>2. CASE DetectNote
  <2>1. /\ at = next /\ next \in 1..Len(log) /\ log \in Seq(Nat) /\ Len(log) \in Nat
        /\ UNCHANGED <<now, log, at>>
    BY <1>2 DEF DetectNote, Places, Types, topic
  <2>2. log[next] \in Nat /\ log[next] <= now /\ Taken(next - 1) = log[next]
    BY <2>1 DEF Ordered, Taken
  <2> DEFINE until == Larger(noted.until, log[next])
             n == [noted EXCEPT !.until = until]
  <2>3. noted' = n /\ file' \in {file, n}
    BY <1>2, <2>2 DEF DetectNote
  <2>4. /\ until \in Nat /\ noted.until <= until /\ until <= now
        /\ until = noted.until \/ until = log[next]
    BY <1>1, <2>2 DEF Larger
  <2>5. n.until = until
    BY DEF Types, Notes
  <2> HIDE DEF n, until
  <2>6. file'.until <= noted'.until /\ noted'.until <= now'
    BY <1>1, <2>1, <2>3, <2>4, <2>5
  <2>7. ASSUME NEW event \in Ahead
        PROVE  until <= Taken(event) + Lateness
    <3>1. event + 1 \in 1..Len(log) /\ next < event + 1
      BY <2>1 DEF Ahead
    <3>2. log[next] <= log[event + 1] + Lateness
      BY <2>1, <3>1 DEF Ordered
    <3>3. noted.until <= log[event + 1] + Lateness
      BY DEF Behind, Taken
    <3> QED BY <2>4, <3>2, <3>3 DEF Taken
  <2>8. Ahead' = Ahead /\ \A event \in Ahead : Taken(event)' = Taken(event)
    BY <2>1 DEF Ahead, Taken
  <2> QED BY <2>3, <2>5, <2>6, <2>7, <2>8 DEF Behind
<1>3. ASSUME noted'.until \in Nat, noted'.until <= noted.until, file'.until <= noted'.until
      PROVE  Behind'
  <2> DEFINE until == noted'.until
  <2> HIDE DEF until
  <2>1. until \in Nat /\ until <= noted.until
    BY <1>3 DEF until
  <2>2. ASSUME NEW event \in Ahead'
        PROVE  until <= Taken(event)' + Lateness
    <3>1. CASE event \in Events
      <4>1. event \in Ahead /\ Taken(event)' = Taken(event)
        BY <1>0, <3>1 DEF Lasting
      <4>2. noted.until <= Taken(event) + Lateness /\ Taken(event) \in Nat
        BY <1>0, <4>1, TimesOfEvents DEF Behind
      <4> QED BY <1>1, <2>1, <4>1, <4>2
    <3>2. CASE event \notin Events
      <4>1. Taken(event)' \in Nat /\ now - Lateness <= Taken(event)'
        BY <1>0, <3>2 DEF Lasting
      <4>2. PICK t \in Nat : t = Taken(event)'
        BY <4>1
      <4>3. until <= t + Lateness
        BY <1>1, <2>1, <4>1, <4>2
      <4> QED BY <4>2, <4>3
    <3> QED BY <3>1, <3>2
  <2>3. until <= now'
    BY <1>1, <2>1
  <2> QED BY <1>3, <2>2, <2>3 DEF Behind, until
<1>4. CASE noted'.until = noted.until /\ file'.until \in {noted.until, file.until}
  BY <1>1, <1>3, <1>4
<1>5. CASE noted'.until = file.until /\ file'.until = file.until
  BY <1>1, <1>3, <1>5
<1> QED BY <1>2, <1>4, <1>5, UntilStays

(* The ranges change when the detector is moved past events, and when a    *)
(* range was read.                                                         *)
LEMMA RangesStay ==
    ASSUME RInv, [Next]_vars
    PROVE  \/ noted'.ranges = noted.ranges
           \/ \E resumed \in Nat : resumed <= now /\ noted'.ranges = Skipped(noted, resumed).ranges
           \/ /\ rpc = "read"
              /\ \E w \in work : w.since = {} /\ noted'.ranges = Left(noted.ranges, w.until)
<1> USE DEF RInv
<1>0. noted \in Notes /\ AreApart(noted.ranges) /\ now \in Nat
  BY DEF Types, Apart
<1>1. CASE DetectReceive
  <2>1. PICK released \in base..Len(log) :
              LET from == Larger(next, released)
                  to == Smaller(Len(log), from + Batch)
              IN  /\ IF next < from
                     THEN \E resumed \in Nat :
                             /\ noted' = Skipped(noted, resumed)
                             /\ resumed = IF from < to THEN Taken(from) ELSE now
                     ELSE UNCHANGED notes
                  /\ from \in next..Len(log) /\ to \in from..Len(log)
    BY <1>1, MovedTo
  <2> DEFINE from == Larger(next, released)
             to == Smaller(Len(log), from + Batch)
  <2>2. /\ IF next < from
           THEN \E resumed \in Nat :
                   /\ noted' = Skipped(noted, resumed)
                   /\ resumed = IF from < to THEN Taken(from) ELSE now
           ELSE UNCHANGED notes
        /\ from \in next..Len(log) /\ to \in from..Len(log)
    BY <2>1
  <2> HIDE DEF from, to
  <2>3. next \in Nat /\ Len(log) \in Nat
    BY DEF Types
  <2>4. from < to => Taken(from) <= now
    <3> SUFFICES ASSUME from < to PROVE Taken(from) <= now
      OBVIOUS
    <3>1. from \in Events
      BY <2>2, <2>3 DEF Events
    <3> QED BY <3>1, TimesOfEvents
  <2>5. CASE next < from
    <3>1. PICK resumed \in Nat : /\ noted' = Skipped(noted, resumed)
                                 /\ resumed = IF from < to THEN Taken(from) ELSE now
      BY <2>2, <2>5
    <3>2. resumed <= now
      BY <1>0, <2>4, <3>1
    <3> QED BY <3>1, <3>2
  <2> QED BY <2>2, <2>5 DEF notes
<1>2. CASE NoteAdded
  <2>1. Added(noted, feed[Len(feed)]).ranges = noted.ranges
    BY <1>0 DEF Added, Notes
  <2> QED BY <1>2, <2>1 DEF NoteAdded, Save
<1>3. CASE RematchLook
  <2>1. BeginLookBack(noted).ranges = noted.ranges
    BY <1>0, BeginKeeps
  <2> QED BY <1>3, <2>1 DEF RematchLook, Save, notes
<1>4. CASE RematchNote
  <2>1. PICK w \in work : noted' = MatchedFromStore(noted, w)
    BY <1>4 DEF RematchNote, Save
  <2>2. w \in Works
    BY DEF Types
  <2>3. IF w.since = {} THEN noted'.ranges = Left(noted.ranges, w.until)
        ELSE noted'.ranges = noted.ranges
    BY <1>0, <2>1, <2>2, MatchedKeeps
  <2> QED BY <1>4, <2>3 DEF RematchNote
<1>5. CASE Crash \/ DetectNote
  <2>1. noted' = file \/ \E u : noted' = [noted EXCEPT !.until = u]
    BY <1>5 DEF Crash, DetectNote
  <2> QED BY <1>0, <2>1 DEF Types, Notes
<1>6. CASE UNCHANGED notes
  BY <1>6 DEF notes
<1>7. \/ UNCHANGED notes \/ DetectReceive \/ DetectNote \/ NoteAdded \/ RematchLook
      \/ RematchNote \/ Crash
  BY DEF Next, Tick, Arrive, Store, DetectMatch, DetectAcknowledge, Load, RematchRead, vars
<1> QED BY <1>1, <1>2, <1>3, <1>4, <1>5, <1>6, <1>7

(* A range that is noted begins before all that is to be received, by more *)
(* than events are out of order.                                           *)
LEMMA WidenedIsBelow ==
    ASSUME RInv, NEW resumed \in Nat, resumed <= now
    PROVE  Passed(Ahead, Widened(noted, resumed).from)
<1>1. /\ noted.until \in Nat /\ DISORDER \in Nat /\ Lateness \in Nat /\ Lateness < DISORDER
      /\ now \in Nat
  BY DisorderAssumption DEF RInv, Types, Notes
<1> DEFINE time == Smaller(noted.until, resumed) - DISORDER
<1>2. time \in Int /\ time <= noted.until - DISORDER /\ time <= resumed - DISORDER
  BY <1>1 DEF Smaller
<1>3. Widened(noted, resumed).from = time
  BY DEF Widened
<1> HIDE DEF time
<1>4. ASSUME NEW event \in Ahead
      PROVE  Taken(event) >= time
  <2>1. event \in Events
    BY DEF Ahead, Events, RInv, Types
  <2>2. Taken(event) \in Nat /\ noted.until <= Taken(event) + Lateness
    BY <2>1, TimesOfEvents DEF RInv, Behind
  <2> QED BY <1>1, <1>2, <2>2
<1>5. time <= now - Lateness
  BY <1>1, <1>2
<1> QED BY <1>3, <1>4, <1>5 DEF Passed

(* A step keeps the ranges beginning before nothing that is to be received. *)
LEMMA BelowStays ==
    ASSUME RInv, [Next]_vars
    PROVE  Below'
<1> USE DEF RInv
<1>0. /\ noted \in Notes /\ AreApart(noted.ranges) /\ noted.ranges \in SUBSET Ranges
      /\ \A r \in noted.ranges : r.from \in Int
  BY DEF Types, Apart, Notes, Ranges
<1>1. \A r \in noted.ranges : Passed(Ahead, r.from)'
  BY <1>0, PassedLasts DEF Below
<1>2. CASE noted'.ranges = noted.ranges
  BY <1>1, <1>2 DEF Below
<1>3. ASSUME NEW resumed \in Nat, resumed <= now, noted'.ranges = Skipped(noted, resumed).ranges
      PROVE  Below'
  <2>1. PICK time \in Int : time = Widened(noted, resumed).from
    BY <1>0, SkippedKeeps DEF Ranges
  <2>2. Passed(Ahead, time)'
    BY <1>3, <2>1, WidenedIsBelow, PassedLasts
  <2>3. \A s \in noted'.ranges : s.from = time \/ \E r \in noted.ranges : s.from = r.from
    BY <1>0, <1>3, <2>1, SkippedKeeps
  <2> QED BY <1>1, <2>2, <2>3 DEF Below
<1>4. ASSUME rpc = "read", NEW w \in work, w.since = {},
             noted'.ranges = Left(noted.ranges, w.until)
      PROVE  Below'
  <2>1. w.until \in Int
    BY DEF Types, Works
  <2>2. Passed(Events, w.until)
    BY <1>4 DEF Working
  <2>3. Passed(Ahead, w.until)
    <3>1. Ahead \subseteq Events
      BY AheadLasts
    <3> QED BY <2>2, <3>1 DEF Passed
  <2>4. Passed(Ahead, w.until)'
    BY <2>1, <2>3, PassedLasts
  <2>5. \A s \in noted'.ranges : s.from = w.until \/ \E r \in noted.ranges : s.from = r.from
    BY <1>0, <1>4, <2>1, LeftKeeps
  <2> QED BY <1>1, <2>4, <2>5 DEF Below
<1> QED BY <1>2, <1>3, <1>4, RangesStay

(* An event in a range stays in one, until it is settled.                  *)
LEMMA MissedLasts ==
    ASSUME RInv, [Next]_vars, NEW event \in Events, Missed(noted, event)
    PROVE  Missed(noted, event)' \/ Settled(event)'
<1> USE DEF RInv
<1>0. /\ noted \in Notes /\ AreApart(noted.ranges) /\ noted.ranges \in SUBSET Ranges
      /\ Taken(event) \in Nat /\ Taken(event)' = Taken(event)
      /\ \A r \in noted.ranges : r.from \in Int /\ r.to \in Int
  BY TimesOfEvents, TopicLasts DEF Types, Apart, Notes, Ranges, Lasting
<1>1. PICK r \in noted.ranges : Within(Taken(event), r)
  BY DEF Missed
<1>2. CASE noted'.ranges = noted.ranges
  BY <1>0, <1>1, <1>2 DEF Missed
<1>3. ASSUME NEW resumed \in Nat, noted'.ranges = Skipped(noted, resumed).ranges
      PROVE  Missed(noted, event)'
  <2>1. PICK s \in noted'.ranges : Holds(s, r)
    BY <1>0, <1>3, SkippedKeeps
  <2>2. s.from \in Int /\ s.to \in Int
    BY <1>0, <1>3, <2>1, SkippedKeeps DEF Notes, Ranges
  <2>3. Within(Taken(event), s)
    BY <1>0, <1>1, <2>1, <2>2 DEF Within, Holds
  <2> QED BY <1>0, <2>1, <2>3 DEF Missed
<1>4. ASSUME rpc = "read", NEW w \in work, w.since = {},
             noted'.ranges = Left(noted.ranges, w.until)
      PROVE  Missed(noted, event)' \/ Settled(event)'
  <2>1. w.until \in Int
    BY DEF Types, Works
  <2>2. Taken(event) >= w.until \/ Settled(event)
    BY <1>4 DEF Working, Passed
  <2>3. CASE Settled(event)
    BY <2>3, NothingIsTakenBack DEF Settled, Growing
  <2>4. CASE Taken(event) >= w.until
    <3>1. ~(Taken(event) < w.until) /\ Taken(event) \in Int
      BY <1>0, <2>1, <2>4
    <3>2. \E s \in Left(noted.ranges, w.until) : Within(Taken(event), s)
      BY <1>0, <1>1, <2>1, <3>1, LeftKeeps
    <3> QED BY <1>0, <1>4, <3>2 DEF Missed
  <2> QED BY <2>2, <2>3, <2>4
<1> QED BY <1>2, <1>3, <1>4, RangesStay

(* A step keeps what was received, or passed, settled or in a range. *)
LEMMA KeptStays ==
    ASSUME RInv, [Next]_vars
    PROVE  Kept'
<1> USE DEF RInv
<1>0. /\ Lasting /\ Growing /\ Types
      /\ at \in Nat /\ next \in Nat /\ at <= next /\ next <= Len(log) /\ Len(log) \in Nat
      /\ Events = 0..(Len(log) - 1)
      /\ matched \subseteq matched' /\ unsettled \subseteq unsettled'
  <2>1. Lasting /\ Growing
    BY TopicLasts, NothingIsTakenBack
  <2>2. /\ at \in Nat /\ next \in Nat /\ at <= next /\ next <= Len(log) /\ Len(log) \in Nat
        /\ Events = 0..(Len(log) - 1)
    BY DEF Types, Events
  <2> QED BY <2>1, <2>2 DEF Growing
<1>1. ASSUME NEW event \in 0..(next - 1), Settled(event) \/ Missed(noted, event)
      PROVE  Settled(event)' \/ Missed(noted, event)'
  <2>1. event \in Events
    BY <1>0
  <2>2. CASE Settled(event)
    BY <1>0, <2>2 DEF Settled
  <2> QED BY <1>1, <2>1, <2>2, MissedLasts
<1>2. \A event \in 0..(next - 1) : event \in batch \/ Settled(event)' \/ Missed(noted, event)'
  BY <1>1 DEF Kept
<1>3. CASE next' = next /\ batch' = batch
  BY <1>2, <1>3 DEF Kept
<1>4. CASE DetectReceive
  <2>1. PICK released \in base..Len(log) :
              LET from == Larger(next, released)
                  to == Smaller(Len(log), from + Batch)
              IN  /\ dpc = "receiving" /\ next' = to /\ batch' = from..(to - 1)
                  /\ IF next < from
                     THEN \E resumed \in Nat :
                             /\ noted' = Skipped(noted, resumed)
                             /\ resumed = IF from < to THEN Taken(from) ELSE now
                     ELSE UNCHANGED notes
                  /\ from \in next..Len(log) /\ to \in from..Len(log)
                  /\ from = to => from = Len(log)
    BY <1>4, MovedTo
  <2> DEFINE from == Larger(next, released)
             to == Smaller(Len(log), from + Batch)
  <2>2. /\ dpc = "receiving" /\ next' = to /\ batch' = from..(to - 1)
        /\ IF next < from
           THEN \E resumed \in Nat :
                   /\ noted' = Skipped(noted, resumed)
                   /\ resumed = IF from < to THEN Taken(from) ELSE now
           ELSE UNCHANGED notes
        /\ from \in next..Len(log) /\ to \in from..Len(log)
    BY <2>1
  <2> HIDE DEF from, to
  <2>3. batch = {}
    BY <2>2 DEF Places
  <2>4. ASSUME NEW event \in next..(from - 1)
        PROVE  Missed(noted, event)'
    <3>1. PICK resumed \in Nat : /\ noted' = Skipped(noted, resumed)
                                 /\ resumed = IF from < to THEN Taken(from) ELSE now
      BY <1>0, <2>2, <2>4
    <3>2. event \in Events /\ event \in Ahead
      BY <1>0, <2>2, <2>4 DEF Ahead
    <3>3. Taken(event) \in Nat /\ Taken(event) <= now
      BY <3>2, TimesOfEvents
    <3>4. DISORDER \in Nat /\ Lateness \in Nat /\ Lateness < DISORDER /\ now \in Nat
      BY DisorderAssumption DEF Types
    <3>5. Taken(event) < resumed + DISORDER
      <4>1. CASE from < to
        <5>1. event + 1 \in 1..Len(log) /\ from + 1 \in 1..Len(log) /\ event + 1 < from + 1
          BY <1>0, <2>2, <2>4, <4>1
        <5>2. log[event + 1] <= log[from + 1] + Lateness
          BY <5>1 DEF Ordered
        <5>3. Taken(event) <= resumed + Lateness
          BY <3>1, <4>1, <5>2 DEF Taken
        <5> QED BY <3>3, <3>4, <5>3
      <4>2. CASE ~(from < to)
        BY <3>1, <3>3, <3>4, <4>2
      <4> QED BY <4>1, <4>2
    <3>6. Widened(noted, resumed).from <= Taken(event)
      <4>1. noted.until \in Nat /\ noted.until <= Taken(event) + Lateness
        BY <3>2 DEF Behind, Types, Notes
      <4>2. Smaller(noted.until, resumed) \in Nat /\ Smaller(noted.until, resumed) <= noted.until
        BY <4>1 DEF Smaller
      <4>3. Widened(noted, resumed).from = Smaller(noted.until, resumed) - DISORDER
        BY DEF Widened
      <4> QED BY <3>3, <3>4, <4>1, <4>2, <4>3
    <3>7. Widened(noted, resumed).to = resumed + DISORDER
      BY DEF Widened
    <3>8. /\ noted \in Notes /\ AreApart(noted.ranges)
      BY DEF Types, Apart
    <3>9. PICK s \in noted'.ranges : Holds(s, Widened(noted, resumed))
      BY <3>1, <3>8, SkippedKeeps
    <3>10. /\ Widened(noted, resumed).from \in Int /\ Widened(noted, resumed).to \in Int
           /\ s.from \in Int /\ s.to \in Int
      BY <3>1, <3>8, <3>9, SkippedKeeps DEF Notes, Ranges
    <3>11. Within(Taken(event), s)
      BY <3>3, <3>5, <3>6, <3>7, <3>9, <3>10 DEF Holds, Within
    <3>12. Taken(event)' = Taken(event)
      BY <1>0, <3>2 DEF Lasting
    <3> QED BY <3>9, <3>11, <3>12 DEF Missed
  <2>5. \A event \in 0..(to - 1) : \/ event \in 0..(next - 1)
                                   \/ event \in next..(from - 1)
                                   \/ event \in batch'
    BY <1>0, <2>2
  <2> QED BY <1>2, <2>2, <2>3, <2>4, <2>5 DEF Kept
<1>5. CASE DetectMatch
  <2>1. \A event \in batch : <<event, 0>> \in matched'
    <3>1. 0 \in 0..Len(feed)
      BY DEF Types
    <3>2. matched' = matched \union (batch \X (0..Len(feed)))
      BY <1>5 DEF DetectMatch
    <3> QED BY <3>1, <3>2
  <2>2. next' = next
    BY <1>5 DEF DetectMatch
  <2> QED BY <1>2, <2>1, <2>2 DEF Kept, Settled
<1>6. CASE Crash
  <2>1. next' = at /\ batch \in SUBSET (at..(next - 1))
    BY <1>6 DEF Crash, Types
  <2>2. \A event \in 0..(at - 1) : event \in 0..(next - 1) /\ event \notin batch
    BY <1>0, <2>1
  <2> QED BY <1>2, <2>1, <2>2 DEF Kept
<1>7. (next' = next /\ batch' = batch) \/ DetectReceive \/ DetectMatch \/ Crash
  BY DEF Next, Tick, Arrive, Store, DetectAcknowledge, DetectNote, Load, NoteAdded, RematchLook,
         RematchRead, RematchNote, vars, detect
<1> QED BY <1>3, <1>4, <1>5, <1>6, <1>7

(* Before the oldest range, all is settled or still to be received.        *)
LEMMA OldestIsPassed ==
    ASSUME RInv, NEW r \in noted.ranges, \A s \in noted.ranges : r.from <= s.from
    PROVE  Passed(Events, r.from)
<1> USE DEF RInv
<1>0. /\ at \in Nat /\ next \in Nat /\ at <= next /\ next <= Len(log) /\ Len(log) \in Nat
      /\ Events = 0..(Len(log) - 1) /\ Ahead = at..(Len(log) - 1)
      /\ batch \in SUBSET (at..(next - 1))
      /\ \A s \in noted.ranges : s.from \in Int
  <2>1. /\ at \in Nat /\ next \in Nat /\ at <= next /\ next <= Len(log) /\ Len(log) \in Nat
        /\ batch \in SUBSET (at..(next - 1))
    BY DEF Types
  <2>2. noted.ranges \subseteq Ranges
    BY DEF Types, Notes
  <2>3. \A s \in noted.ranges : s.from \in Int
    BY <2>2 DEF Ranges
  <2> QED BY <2>1, <2>3 DEF Events, Ahead
<1>1. Passed(Ahead, r.from)
  BY DEF Below
<1>2. ASSUME NEW event \in Events
      PROVE  Taken(event) >= r.from \/ Settled(event)
  <2>1. CASE event \in Ahead
    BY <1>1, <2>1 DEF Passed
  <2>2. CASE event \notin Ahead
    <3>1. event \in 0..(next - 1) /\ event \notin batch
      BY <1>0, <2>2
    <3>2. Settled(event) \/ Missed(noted, event)
      BY <3>1 DEF Kept
    <3>3. CASE Missed(noted, event)
      <4>1. PICK s \in noted.ranges : Within(Taken(event), s)
        BY <3>3 DEF Missed
      <4>2. Taken(event) \in Nat
        BY TimesOfEvents
      <4> QED BY <1>0, <4>1, <4>2 DEF Within
    <3> QED BY <3>2, <3>3
  <2> QED BY <2>1, <2>2
<1> QED BY <1>1, <1>2 DEF Passed

(* A step keeps what lies before the range that is read settled. *)
LEMMA WorkingStays ==
    ASSUME RInv, [Next]_vars
    PROVE  Working'
<1> USE DEF RInv
<1>0. \A w \in work : w.from \in Int /\ w.to \in Int /\ w.until \in Int
  BY DEF Types, Works
<1>1. CASE RematchLook
  <2>1. PICK n \in Notes : /\ rpc' = "reading" /\ work' = Taking(n) /\ noted' = n
                           /\ n.ranges = noted.ranges
    BY <1>1, LookTakes
  <2>2. Pending' /\ Apart'
    BY NotesStayFit DEF NotesFit
  <2>3. ASSUME NEW w \in work', w.since = {}
        PROVE  work' = {w} /\ Passed(Events, w.from)'
    <3>1. PICK f \in First(n) : f.from = w.from /\ f.since = w.since
      BY <2>1 DEF Taking
    <3>2. f \notin n.late
      BY <2>1, <2>2, <2>3, <3>1 DEF Pending
    <3>3. PICK r \in n.ranges : /\ f.from = r.from
                                /\ \A s \in n.ranges : r.from <= s.from
      BY <2>3, <3>1, <3>2, FirstKeeps
    <3>4. Passed(Events, r.from)
      BY <2>1, <3>3, OldestIsPassed
    <3>5. r.from \in Int
      BY <2>1, <3>3 DEF Notes, Ranges
    <3>6. Passed(Events, r.from)'
      BY <3>4, <3>5, PassedLasts
    <3>7. \A v, u \in First(n) : v = u
      BY <2>1, <2>2, <3>3, FirstKeeps DEF Apart
    <3>8. \A v, u \in Taking(n) : v = u
      BY <3>7 DEF Taking
    <3>9. work' = {w}
      BY <2>1, <2>3, <3>8
    <3> QED BY <3>1, <3>3, <3>6, <3>9
  <2> QED BY <2>1, <2>3 DEF Working
<1>2. CASE RematchRead
  <2>1. PICK v \in work :
          \/ /\ matched' = matched \union
                    {event \in stored : Within(Taken(event), [from |-> v.from, to |-> v.until])}
                        \X {u \in 0..Len(feed) : Reported(u, v)}
             /\ readTo' = Larger(readTo, v.until)
             /\ unsettled' = unsettled \union {event \in Events \ stored : Taken(event) < v.until}
             /\ UNCHANGED work
          \/ work' = {}
    BY <1>2 DEF RematchRead
  <2>2. UNCHANGED <<now, log>>
    BY <1>2 DEF RematchRead, topic
  <2>3. CASE work' = {}
    BY <2>3 DEF Working
  <2>4. CASE work' # {}
    <3>1. work' = work
      BY <2>1, <2>4
    <3>2. ASSUME NEW w \in work, w.since = {}
          PROVE  work' = {w} /\ Passed(Events, w.from)' /\ Passed(Events, w.until)'
      <4>1. work = {w} /\ Passed(Events, w.from)
        BY <3>2 DEF Working
      <4>2. v = w
        BY <4>1
      <4>3. Passed(Events, w.from)'
        BY <1>0, <4>1, PassedLasts
      <4>4. Reported(0, w) /\ 0 \in 0..Len(feed)
        BY <3>2 DEF Reported, Types
      <4>5. ASSUME NEW event \in Events
            PROVE  Taken(event) >= w.until \/ event \in unsettled' \/ <<event, 0>> \in matched'
        <5>1. Taken(event) \in Nat /\ w.from \in Int /\ w.until \in Int
          BY <1>0, TimesOfEvents
        <5>2. SUFFICES ASSUME Taken(event) < w.until, event \notin unsettled'
                       PROVE  <<event, 0>> \in matched'
          BY <5>1
        <5>3. event \in stored /\ event \notin unsettled
          BY <2>1, <2>4, <4>2, <5>2
        <5>4. CASE Taken(event) >= w.from
          <6>1. Within(Taken(event), [from |-> w.from, to |-> w.until])
            BY <5>1, <5>2, <5>4 DEF Within
          <6> QED BY <2>1, <2>4, <4>2, <4>4, <5>3, <6>1
        <5>5. CASE ~(Taken(event) >= w.from)
          <6>1. Settled(event)
            BY <4>1, <5>5 DEF Passed
          <6> QED BY <2>1, <2>4, <5>3, <6>1 DEF Settled
        <5> QED BY <5>4, <5>5
      <4>6. w.until <= readTo'
        <5>1. readTo \in Int /\ w.until \in Int
          BY <1>0 DEF Types
        <5>2. readTo' = Larger(readTo, w.until)
          BY <2>1, <2>4, <4>2
        <5> QED BY <5>1, <5>2 DEF Larger
      <4>7. Events' = Events /\ \A event \in Events : Taken(event)' = Taken(event)
        BY <2>2 DEF Events, Taken
      <4>8. Passed(Events, w.until)'
        BY <4>5, <4>6, <4>7 DEF Passed, Settled
      <4> QED BY <3>1, <4>1, <4>3, <4>8
    <3> QED BY <3>1, <3>2 DEF Working
  <2> QED BY <2>3, <2>4
<1>3. CASE work' = work /\ rpc' = rpc
  <2>1. ASSUME NEW w \in work, w.since = {}
        PROVE  /\ work = {w} /\ Passed(Events, w.from)'
               /\ rpc = "read" => Passed(Events, w.until)'
    BY <1>0, <2>1, PassedLasts DEF Working
  <2> QED BY <1>3, <2>1 DEF Working
<1>4. CASE work' = {}
  BY <1>4 DEF Working
<1>5. (work' = work /\ rpc' = rpc) \/ work' = {} \/ RematchLook \/ RematchRead
  BY DEF Next, Tick, Arrive, Store, DetectReceive, DetectMatch, DetectAcknowledge, DetectNote,
         Load, NoteAdded, RematchNote, Crash, vars, rematch
<1> QED BY <1>1, <1>2, <1>3, <1>4, <1>5

-----------------------------------------------------------------------------
(* What was stored is looked back at.                                      *)

(* What was looked for stays looked for. *)
LEMMA SoughtLasts ==
    ASSUME Types, [Next]_vars, NEW event \in Events, NEW v \in 1..Len(feed), NEW l
    PROVE  Sought(event, v, l) => Sought(event, v, l)'
<1>1. Taken(event)' = Taken(event) /\ feed'[v] = feed[v]
  BY TopicLasts, NothingIsTakenBack DEF Lasting, Growing
<1> QED BY <1>1 DEF Sought

Begun == {[look EXCEPT !.waits = FALSE] : look \in looks}

(* What was added and is looked back at changes when a feed grew, when a    *)
(* look back begins, and when a part of one was read.                      *)
LEMMA AddedStays ==
    ASSUME RInv, [Next]_vars
    PROVE  \/ noted'.added = noted.added /\ noted'.late = noted.late /\ looks' = looks
           \/ NoteAdded
           \/ /\ RematchLook /\ noted.late = {} /\ looks' = Begun
              /\ noted'.added = {} /\ noted'.late = {Reach(a) : a \in noted.added}
           \/ /\ RematchNote /\ rpc = "read" /\ noted'.added = noted.added /\ looks' = looks
              /\ \E w \in work : /\ w.since # {}
                                 /\ noted'.late = UNION {GivenUp(l, w.until) : l \in noted.late}
<1> USE DEF RInv
<1>0. noted \in Notes /\ AreApart(noted.ranges)
  BY DEF Types, Apart
<1>1. CASE DetectReceive
  <2>1. UNCHANGED notes \/ \E resumed \in Nat : noted' = Skipped(noted, resumed)
    BY <1>1, MovedTo
  <2>2. \A resumed \in Nat : /\ Skipped(noted, resumed).added = noted.added
                             /\ Skipped(noted, resumed).late = noted.late
    BY <1>0, SkippedKeeps DEF Notes
  <2>3. looks' = looks
    BY <1>1 DEF DetectReceive, refresh
  <2> QED BY <2>1, <2>2, <2>3 DEF notes
<1>2. CASE RematchLook
  <2>1. PICK n \in {noted, BeginLookBack(noted)} :
            IF n = noted THEN UNCHANGED <<notes, looks>>
            ELSE Save(n) /\ looks' = Begun
    BY <1>2 DEF RematchLook, Begun
  <2>2. CASE n = noted
    BY <2>1, <2>2 DEF notes
  <2>3. CASE n # noted
    <3>1. n = BeginLookBack(noted) /\ noted' = n /\ looks' = Begun
      BY <2>1, <2>3 DEF Save
    <3>2. /\ noted.late = {} /\ n.added = {}
          /\ n.late = {Reach(a) : a \in noted.added}
      BY <1>0, <2>3, <3>1, BeginKeeps
    <3> QED BY <1>2, <3>1, <3>2
  <2> QED BY <2>2, <2>3
<1>3. CASE RematchNote
  <2>1. PICK w \in work : noted' = MatchedFromStore(noted, w)
    BY <1>3 DEF RematchNote, Save
  <2>2. w \in Works /\ rpc = "read" /\ looks' = looks
    BY <1>3 DEF Types, RematchNote, refresh
  <2>3. /\ noted'.added = noted.added
        /\ IF w.since = {} THEN noted'.late = noted.late
           ELSE noted'.late = UNION {GivenUp(l, w.until) : l \in noted.late}
    BY <1>0, <2>1, <2>2, MatchedKeeps
  <2> QED BY <1>3, <2>2, <2>3
<1>4. CASE Crash \/ DetectNote
  <2>1. noted' = file \/ \E u : noted' = [noted EXCEPT !.until = u]
    BY <1>4 DEF Crash, DetectNote
  <2>2. looks' = looks
    BY <1>4 DEF Crash, DetectNote, refresh
  <2> QED BY <1>0, <2>1, <2>2 DEF Types, Notes
<1>5. CASE UNCHANGED <<notes, looks>>
  BY <1>5 DEF notes
<1>6. \/ UNCHANGED <<notes, looks>> \/ DetectReceive \/ DetectNote \/ NoteAdded \/ RematchLook
      \/ RematchNote \/ Crash
  BY DEF Next, Tick, Arrive, Store, DetectMatch, DetectAcknowledge, Load, RematchRead, vars, refresh
<1> QED BY <1>1, <1>2, <1>3, <1>4, <1>5, <1>6

(* A step keeps what was stored looked back at, or before a look back that is noted. *)
LEMMA LookedStays ==
    ASSUME RInv, [Next]_vars
    PROVE  Looked'
<1> USE DEF RInv
<1>0. /\ Types /\ Growing
      /\ stored \in SUBSET Events /\ stored \subseteq stored'
      /\ matched \subseteq matched'
      /\ feed \in Seq(Nat) /\ Len(feed) \in Nat
      /\ \A v \in 1..Len(feed) : v \in 1..Len(feed') /\ feed'[v] = feed[v]
  <2>1. feed \in Seq(Nat) /\ Len(feed) \in Nat /\ feed' \in Seq(Nat) /\ Len(feed) <= Len(feed')
    BY NothingIsTakenBack, SMTT(30) DEF Growing, Types
  <2>2. Len(feed') \in Nat
    BY <2>1
  <2>3. \A v \in 1..Len(feed) : v \in 1..Len(feed')
    BY <2>1, <2>2
  <2> QED BY <2>1, <2>3, NothingIsTakenBack DEF Growing, Types
<1>1. \A look \in looks : /\ look.version \in 1..Len(feed) /\ look.version \in 1..Len(feed')
                          /\ look.events \subseteq stored /\ look.events \subseteq stored'
                          /\ look.events \subseteq Events
  BY <1>0 DEF Looked
<1>2. ASSUME NEW look \in looks, NEW event \in look.events, NEW l,
             Sought(event, look.version, l)
      PROVE  Sought(event, look.version, l)'
  BY <1>0, <1>1, <1>2, SoughtLasts
<1>3. CASE noted'.added = noted.added /\ noted'.late = noted.late /\ looks' = looks
  <2>1. ASSUME NEW look \in looks, NEW event \in look.events
        PROVE  IF look.waits
               THEN \E a \in noted'.added : Sought(event, look.version, Reach(a))'
               ELSE \/ <<event, look.version>> \in matched'
                    \/ \E l \in noted'.late : Sought(event, look.version, l)'
    <3>1. CASE look.waits
      <4>1. PICK a \in noted.added : Sought(event, look.version, Reach(a))
        BY <3>1 DEF Looked
      <4>2. PICK l : l = Reach(a)
        OBVIOUS
      <4>3. Sought(event, look.version, l)'
        BY <1>2, <4>1, <4>2
      <4>4. Reach(a)' = Reach(a)
        BY DEF Reach
      <4> QED BY <1>3, <3>1, <4>2, <4>3
    <3>2. CASE ~look.waits
      <4>1. \/ <<event, look.version>> \in matched
            \/ \E l \in noted.late : Sought(event, look.version, l)
        BY <3>2 DEF Looked
      <4> QED BY <1>0, <1>2, <1>3, <3>2, <4>1
    <3> QED BY <3>1, <3>2
  <2> QED BY <1>1, <1>3, <2>1 DEF Looked
<1>4. CASE NoteAdded
  <2>1. /\ feed # <<>> /\ UNCHANGED <<now, log, feed, stored, matched>>
        /\ noted' = Added(noted, feed[Len(feed)])
        /\ looks' = {[look EXCEPT !.events = IF look.waits THEN @ \intersect InReach ELSE @] : look \in looks}
                       \union {[version |-> Len(feed), events |-> InReach, waits |-> TRUE]}
    BY <1>4 DEF NoteAdded, Save, Places, topic
  <2>2. now \in Nat /\ feed[Len(feed)] \in Nat /\ noted \in Notes /\ Len(feed) \in 1..Len(feed)
    BY <1>0, <2>1 DEF Types
  <2>3. IsFiniteSet(noted.added) /\ \A a \in noted.added : a.until <= now /\ a.since \in Nat
    <3>1. noted.added = {} \/ \E a : noted.added = {a}
      BY DEF Pending
    <3>2. IsFiniteSet(noted.added)
      BY <3>1, FS_EmptySet, FS_Singleton
    <3> QED BY <3>2 DEF Pending, Types, Notes, Additions
  <2>4. PICK a \in Additions : /\ Added(noted, feed[Len(feed)]) = [noted EXCEPT !.added = {a}]
                               /\ a.until = now /\ a.since <= feed[Len(feed)]
                               /\ \A b \in noted.added : a.since <= b.since
    <3>1. \A b \in noted.added : b.until <= now
      BY <2>3
    <3> QED BY ONLY <2>2, <2>3, <3>1, AddedKeeps
  <2>5. noted'.added = {a} /\ noted'.late = noted.late
    BY <2>1, <2>2, <2>4 DEF Notes
  <2>6. \A event \in InReach :
            event \in stored /\ Within(Taken(event), [from |-> a.until - LookBack, to |-> a.until])
    BY <2>4 DEF InReach
  <2>7. ASSUME NEW event \in InReach, NEW v \in 1..Len(feed), feed[v] >= a.since
        PROVE  Sought(event, v, Reach(a))
    BY <2>6, <2>7 DEF Sought, Reach, Within
  <2>8. ASSUME NEW event \in Events, NEW v, NEW l
        PROVE  Sought(event, v, l)' = Sought(event, v, l)
    BY <2>1 DEF Sought, Taken
  <2>9. ASSUME NEW look \in looks'
        PROVE  /\ look.version \in 1..Len(feed') /\ look.events \subseteq stored'
               /\ \A event \in look.events :
                     IF look.waits
                     THEN \E b \in noted'.added : Sought(event, look.version, Reach(b))'
                     ELSE \/ <<event, look.version>> \in matched'
                          \/ \E l \in noted'.late : Sought(event, look.version, l)'
    <3>1. CASE look = [version |-> Len(feed), events |-> InReach, waits |-> TRUE]
      <4>1. look.version = Len(feed) /\ look.events = InReach /\ look.waits
        BY <3>1
      <4>2. \A event \in InReach : Sought(event, Len(feed), Reach(a))
        BY <2>2, <2>4, <2>7, <1>0
      <4>3. Reach(a)' = Reach(a)
        BY DEF Reach
      <4>4. \A event \in InReach : Sought(event, Len(feed), Reach(a))'
        BY <1>0, <2>1, <2>6, <4>2 DEF Sought, Taken, Reach
      <4> QED BY <1>0, <2>1, <2>2, <2>5, <2>6, <4>1, <4>4
    <3>2. ASSUME NEW old \in looks,
                 look = [old EXCEPT !.events = IF old.waits THEN @ \intersect InReach ELSE @]
          PROVE  /\ look.version \in 1..Len(feed') /\ look.events \subseteq stored'
                 /\ \A event \in look.events :
                       IF look.waits
                       THEN \E b \in noted'.added : Sought(event, look.version, Reach(b))'
                       ELSE \/ <<event, look.version>> \in matched'
                            \/ \E l \in noted'.late : Sought(event, look.version, l)'
      <4>1. /\ look.version = old.version /\ look.waits = old.waits
            /\ look.events = IF old.waits THEN old.events \intersect InReach ELSE old.events
        BY <1>0, <3>2 DEF Types, Looks
      <4>2. look.version \in 1..Len(feed') /\ look.events \subseteq stored'
        BY <1>1, <4>1
      <4>3. ASSUME old.waits, NEW event \in look.events
            PROVE  Sought(event, look.version, Reach(a))'
        <5>1. PICK b \in noted.added : Sought(event, old.version, Reach(b))
          BY <4>1, <4>3 DEF Looked
        <5>2. feed[old.version] >= b.since
          BY <5>1 DEF Sought, Reach
        <5>3. feed[old.version] \in Nat /\ b.since \in Nat /\ a.since \in Nat /\ a.since <= b.since
          BY <1>0, <1>1, <2>3, <2>4 DEF Additions
        <5>4. feed[old.version] >= a.since
          BY <5>2, <5>3
        <5>5. Sought(event, old.version, Reach(a))
          BY <1>1, <2>7, <4>1, <4>3, <5>4
        <5> QED BY <2>1, <4>1, <5>5 DEF Sought, Taken, Reach
      <4>4. ASSUME ~old.waits, NEW event \in look.events
            PROVE  \/ <<event, look.version>> \in matched'
                   \/ \E l \in noted'.late : Sought(event, look.version, l)'
        <5>1. event \in old.events
          BY <4>1, <4>4
        <5>2. \/ <<event, old.version>> \in matched
              \/ \E l \in noted.late : Sought(event, old.version, l)
          BY <4>4, <5>1 DEF Looked
        <5> QED BY <1>0, <1>2, <2>5, <4>1, <5>1, <5>2
      <4> QED BY <2>5, <4>1, <4>2, <4>3, <4>4
    <3> QED BY <2>1, <3>1, <3>2
  <2> QED BY <2>9 DEF Looked
<1>5. CASE /\ RematchLook /\ noted.late = {} /\ looks' = Begun
           /\ noted'.added = {} /\ noted'.late = {Reach(a) : a \in noted.added}
  <2>1. ASSUME NEW look \in looks'
        PROVE  /\ look.version \in 1..Len(feed') /\ look.events \subseteq stored'
               /\ ~look.waits
               /\ \A event \in look.events :
                     \/ <<event, look.version>> \in matched'
                     \/ \E l \in noted'.late : Sought(event, look.version, l)'
    <3>1. PICK old \in looks : look = [old EXCEPT !.waits = FALSE]
      BY <1>5 DEF Begun
    <3>2. look.version = old.version /\ look.events = old.events /\ look.waits = FALSE
      BY <3>1 DEF Types, Looks
    <3>3. ASSUME NEW event \in old.events
          PROVE  \/ <<event, old.version>> \in matched'
                 \/ \E l \in noted'.late : Sought(event, old.version, l)'
      <4>1. CASE old.waits
        <5>1. PICK a \in noted.added : Sought(event, old.version, Reach(a))
          BY <4>1 DEF Looked
        <5>2. PICK l : l = Reach(a)
          OBVIOUS
        <5>3. Sought(event, old.version, l)'
          BY <1>2, <5>1, <5>2
        <5> QED BY <1>5, <5>2, <5>3
      <4>2. CASE ~old.waits
        <5>1. <<event, old.version>> \in matched
          BY <1>5, <4>2 DEF Looked
        <5> QED BY <1>0, <5>1
      <4> QED BY <4>1, <4>2
    <3> QED BY <1>1, <3>2, <3>3
  <2> QED BY <2>1 DEF Looked
<1>6. ASSUME rpc = "read", noted'.added = noted.added, looks' = looks,
             NEW w \in work, w.since # {},
             noted'.late = UNION {GivenUp(l, w.until) : l \in noted.late}
      PROVE  Looked'
  <2>1. ASSUME NEW look \in looks, NEW event \in look.events
        PROVE  IF look.waits
               THEN \E a \in noted'.added : Sought(event, look.version, Reach(a))'
               ELSE \/ <<event, look.version>> \in matched'
                    \/ \E l \in noted'.late : Sought(event, look.version, l)'
    <3>1. CASE look.waits
      <4>1. PICK a \in noted.added : Sought(event, look.version, Reach(a))
        BY <3>1 DEF Looked
      <4>2. PICK l : l = Reach(a)
        OBVIOUS
      <4>3. Sought(event, look.version, l)'
        BY <1>2, <4>1, <4>2
      <4>4. Reach(a)' = Reach(a)
        BY DEF Reach
      <4> QED BY <1>6, <3>1, <4>2, <4>3
    <3>2. CASE ~look.waits /\ <<event, look.version>> \notin matched
      <4>1. PICK l \in noted.late : Sought(event, look.version, l)
        BY <3>2 DEF Looked
      <4>2. Taken(event) >= w.until
        BY <1>6, <3>2 DEF Looking
      <4>3. /\ l \in LookBacks /\ l.from \in Int /\ l.to \in Int /\ w.until \in Int
            /\ Taken(event) \in Int
        <5>1. Taken(event) \in Nat
          BY <1>1, TimesOfEvents
        <5>2. l \in LookBacks
          BY DEF Types, Notes
        <5>3. w \in Works
          BY DEF Types
        <5> QED BY <5>1, <5>2, <5>3 DEF LookBacks, Works
      <4>4. w.until <= Taken(event) /\ Within(Taken(event), l)
        BY <4>1, <4>2, <4>3 DEF Sought
      <4>5. PICK s \in GivenUp(l, w.until) : Within(Taken(event), s)
        BY <4>3, <4>4, GivenUpHolds
      <4>6. s.since = l.since
        BY <4>3, <4>5, GivenUpKeeps
      <4>7. Sought(event, look.version, s)
        BY <4>1, <4>5, <4>6 DEF Sought
      <4>8. Sought(event, look.version, s)' /\ s \in noted'.late
        BY <1>2, <1>6, <4>5, <4>7
      <4> QED BY <3>2, <4>8
    <3>3. CASE ~look.waits /\ <<event, look.version>> \in matched
      BY <1>0, <3>3
    <3> QED BY <3>1, <3>2, <3>3
  <2> QED BY <1>1, <1>6, <2>1 DEF Looked
<1> QED BY <1>3, <1>4, <1>5, <1>6, AddedStays

(* A step keeps it so while the task works. *)
LEMMA LookingStays ==
    ASSUME RInv, [Next]_vars
    PROVE  Looking'
<1> USE DEF RInv
<1>0. \A w \in work : w.from \in Int /\ w.to \in Int /\ w.until \in Int
  BY DEF Types, Works
<1>1. CASE RematchLook
  <2>1. PICK n \in Notes : /\ rpc' = "reading" /\ work' = Taking(n) /\ noted' = n
    BY <1>1, LookTakes
  <2>2. Pending'
    BY NotesStayFit DEF NotesFit
  <2>3. ASSUME NEW w \in work', w.since # {}
        PROVE  work' = {w} /\ \A l \in noted'.late : l.from >= w.from /\ l.since = w.since
    <3>1. PICK f \in First(n) : f.from = w.from /\ f.since = w.since
      BY <2>1 DEF Taking
    <3>2. n.ranges = {} /\ f \in n.late
      BY <2>3, <3>1, FirstKeeps
    <3>3. First(n) = n.late /\ n.late = {f} /\ f.from \in Int
      BY <2>1, <2>2, <3>2 DEF First, Pending, Notes, LookBacks
    <3>4. \A v, u \in Taking(n) : v = u
      BY <3>3 DEF Taking
    <3>5. work' = {w}
      BY <2>1, <2>3, <3>4
    <3>6. w.from >= w.from
      BY <3>1, <3>3
    <3> QED BY <2>1, <3>1, <3>3, <3>5, <3>6
  <2> QED BY <2>1, <2>3 DEF Looking
<1>2. CASE RematchRead
  <2>1. PICK v \in work :
          \/ /\ matched' = matched \union
                    {event \in stored : Within(Taken(event), [from |-> v.from, to |-> v.until])}
                        \X {u \in 0..Len(feed) : Reported(u, v)}
             /\ UNCHANGED work
          \/ work' = {}
    BY <1>2 DEF RematchRead
  <2>2. UNCHANGED <<log, noted, looks>>
    BY <1>2 DEF RematchRead, topic, notes, refresh
  <2>3. CASE work' = {}
    BY <2>3 DEF Looking
  <2>4. ASSUME work' # {}, NEW w \in work, w.since # {}
        PROVE  /\ work = {w}
               /\ \A l \in noted.late : l.from >= w.from /\ l.since = w.since
               /\ \A look \in looks : ~look.waits => \A event \in look.events :
                      <<event, look.version>> \in matched' \/ Taken(event) >= w.until
    <3>1. work = {w} /\ \A l \in noted.late : l.from >= w.from /\ l.since = w.since
      BY <2>4 DEF Looking
    <3>2. v = w
      BY <3>1
    <3>3. ASSUME NEW look \in looks, ~look.waits, NEW event \in look.events,
                 ~(Taken(event) >= w.until)
          PROVE  <<event, look.version>> \in matched'
      <4>1. /\ event \in stored /\ event \in Events /\ look.version \in 1..Len(feed)
            /\ Len(feed) \in Nat
        BY DEF Looked, Types
      <4>2. Taken(event) \in Nat
        BY <4>1, TimesOfEvents
      <4>3. CASE <<event, look.version>> \in matched
        BY <2>1, <2>4, <4>3
      <4>4. CASE <<event, look.version>> \notin matched
        <5>1. PICK l \in noted.late : Sought(event, look.version, l)
          BY <3>3, <4>4 DEF Looked
        <5>2. l.from \in Int /\ l.from >= w.from /\ l.since = w.since
          BY <3>1 DEF Types, Notes, LookBacks
        <5>3. Within(Taken(event), [from |-> w.from, to |-> w.until])
          BY <1>0, <3>3, <4>2, <5>1, <5>2 DEF Sought, Within
        <5>4. look.version \in {u \in 0..Len(feed) : Reported(u, w)}
          BY <4>1, <5>1, <5>2 DEF Sought, Reported
        <5> QED BY <2>1, <2>4, <3>2, <4>1, <5>3, <5>4
      <4> QED BY <4>3, <4>4
    <3> QED BY <3>1, <3>3
  <2>5. CASE work' # {}
    <3>1. work' = work
      BY <2>1, <2>5
    <3>2. \A look \in looks : \A event \in look.events : Taken(event)' = Taken(event)
      BY <2>2 DEF Taken
    <3> QED BY <2>2, <2>4, <2>5, <3>1, <3>2 DEF Looking
  <2> QED BY <2>3, <2>5
<1>3. CASE work' = work /\ rpc' = rpc /\ ~RematchLook
  <2>1. Growing /\ Lasting
    BY TopicLasts, NothingIsTakenBack
  <2>2. ASSUME NEW w \in work, w.since # {},
               noted'.late = noted.late,
               \A look \in looks' : ~look.waits => look \in looks
        PROVE  /\ work = {w} /\ \A l \in noted'.late : l.from >= w.from /\ l.since = w.since
               /\ rpc = "read" => \A look \in looks' : ~look.waits => \A event \in look.events :
                      <<event, look.version>> \in matched' \/ Taken(event)' >= w.until
    <3>1. /\ work = {w} /\ \A l \in noted.late : l.from >= w.from /\ l.since = w.since
          /\ rpc = "read" => \A look \in looks : ~look.waits => \A event \in look.events :
                 <<event, look.version>> \in matched \/ Taken(event) >= w.until
      BY <2>2 DEF Looking
    <3>2. \A look \in looks : \A event \in look.events : Taken(event)' = Taken(event)
      BY <2>1 DEF Lasting, Looked, Types
    <3> QED BY <2>1, <2>2, <3>1, <3>2 DEF Growing
  <2>3. CASE noted'.late = noted.late /\ looks' = looks
    BY <1>3, <2>2, <2>3 DEF Looking
  <2>4. CASE NoteAdded
    <3>1. /\ noted' = Added(noted, feed[Len(feed)])
          /\ looks' = {[look EXCEPT !.events = IF look.waits THEN @ \intersect InReach ELSE @] : look \in looks}
                         \union {[version |-> Len(feed), events |-> InReach, waits |-> TRUE]}
      BY <2>4 DEF NoteAdded, Save
    <3>2. noted'.late = noted.late
      BY <3>1 DEF Added, Types, Notes
    <3>3. ASSUME NEW look \in looks', ~look.waits
          PROVE  look \in looks
      <4>1. PICK old \in looks :
                look = [old EXCEPT !.events = IF old.waits THEN @ \intersect InReach ELSE @]
        BY <3>1, <3>3
      <4>2. look.waits = old.waits /\ ~old.waits
        BY <3>3, <4>1 DEF Types, Looks
      <4>3. look = old
        BY <4>1, <4>2 DEF Types, Looks
      <4> QED BY <4>3
    <3> QED BY <1>3, <2>2, <3>2, <3>3 DEF Looking
  <2>5. RematchNote => rpc' # rpc
    BY DEF RematchNote
  <2>6. (noted'.late = noted.late /\ looks' = looks) \/ NoteAdded \/ RematchNote
    BY <1>3, AddedStays
  <2> QED BY <1>3, <2>3, <2>4, <2>5, <2>6
<1>4. CASE work' = {}
  BY <1>4 DEF Looking
<1>5. (work' = work /\ rpc' = rpc) \/ work' = {} \/ RematchLook \/ RematchRead
  BY DEF Next, Tick, Arrive, Store, DetectReceive, DetectMatch, DetectAcknowledge, DetectNote,
         Load, NoteAdded, RematchNote, Crash, vars, rematch
<1> QED BY <1>1, <1>2, <1>3, <1>4, <1>5

-----------------------------------------------------------------------------
(* Every step keeps the invariant. *)
LEMMA StepKeepsInvariant == RInv /\ [Next]_vars => RInv'
<1> SUFFICES ASSUME RInv, [Next]_vars PROVE RInv'
  OBVIOUS
<1>1. Types' /\ Places' /\ Ordered' /\ Behind'
  BY TypesStay, PlacesStay, OrderStays, BehindStays
<1>2. Apart' /\ Pending'
  BY NotesStayFit DEF NotesFit
<1>3. Below' /\ Kept' /\ Working' /\ Looked' /\ Looking'
  BY BelowStays, KeptStays, WorkingStays, LookedStays, LookingStays
<1> QED BY <1>1, <1>2, <1>3 DEF RInv

(* So it always holds. *)
LEMMA InvariantHolds == Spec => []RInv
<1>1. Init => RInv
  BY InitHasInvariant
<1>2. RInv /\ [Next]_vars => RInv'
  BY StepKeepsInvariant
<1> QED BY <1>1, <1>2, PTL DEF Spec

(* For any widths with DISORDER beyond what events may be out of order, any *)
(* feeds, crashes and order of the tasks: an event the detector will not   *)
(* receive again was looked up, or lies in a noted range, in memory and in *)
(* the file, or was stored after its time was read (rematch.rs).           *)
THEOREM NothingSettledIsForgotten == Spec => []SettledIsNotForgotten
<1>1. RInv => SettledIsNotForgotten
  <2> SUFFICES ASSUME RInv, NEW event \in 0..(at - 1), event \notin unsettled
               PROVE  NotForgotten(event)
    BY DEF SettledIsNotForgotten
  <2>1. event \in 0..(next - 1) /\ event \notin batch
    BY DEF RInv, Types
  <2>2. <<event, 0>> \in matched \/ Missed(noted, event)
    BY <2>1 DEF RInv, Kept, Settled
  <2>3. file.ranges = noted.ranges
    BY DEF RInv, Types, Notes
  <2> QED BY <2>2, <2>3 DEF NotForgotten, Missed
<1> QED BY <1>1, InvariantHolds, PTL

(* However feeds grow, look backs begin and end in parts, and crashes      *)
(* meet them: what was stored when a feed was noted to have grown is       *)
(* looked up among its indicators, or a look back has it before it, in     *)
(* memory and in the file (Unmatched::added, begin_look_back, first).      *)
THEOREM NothingStoredIsLeftOut == Spec => []StoredIsLookedBackAt
<1>1. RInv => StoredIsLookedBackAt
  <2> SUFFICES ASSUME RInv, NEW look \in looks, NEW event \in look.events,
                      <<event, look.version>> \notin matched
               PROVE  WillBeLookedUp(noted, event, look.version)
                      /\ WillBeLookedUp(file, event, look.version)
    BY DEF StoredIsLookedBackAt, Covered
  <2>1. file.added = noted.added /\ file.late = noted.late
    BY DEF RInv, Types, Notes
  <2>2. CASE look.waits
    <3>1. PICK a \in noted.added : Sought(event, look.version, Reach(a))
      BY <2>2 DEF RInv, Looked
    <3>2. feed[look.version] >= a.since
          /\ Within(Taken(event), [from |-> a.until - LookBack, to |-> a.until])
      BY <3>1 DEF Sought, Reach, Within
    <3> QED BY <2>1, <3>2 DEF WillBeLookedUp
  <2>3. CASE ~look.waits
    <3>1. PICK l \in noted.late : Sought(event, look.version, l)
      BY <2>3 DEF RInv, Looked
    <3> QED BY <2>1, <3>1 DEF WillBeLookedUp, Sought
  <2> QED BY <2>2, <2>3
<1> QED BY <1>1, InvariantHolds, PTL
=============================================================================
