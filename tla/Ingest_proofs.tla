--------------------------- MODULE Ingest_proofs ---------------------------
(***************************************************************************)
(* Proofs about Ingest, for any sources, files and limits: what the writer *)
(* acknowledged is stored, what was collected is not lost, the writer      *)
(* holds a bounded number of records, and only a restart repeats work.     *)
(***************************************************************************)
EXTENDS Ingest, Integers, NaturalsInduction, WellFoundedInduction, SequenceTheorems, TLAPS

(* A set of numbers that is not empty has a least one. *)
LEMMA LeastOf ==
    ASSUME NEW S \in SUBSET Nat, S # {}
    PROVE  \E x \in S : \A y \in S : x <= y
<1>1. PICK x \in S : \A y \in S : ~(<<y, x>> \in OpToRel(<, Nat))
  BY NatLessThanWellFounded, WFMin
<1>2. \A y \in S : ~(y < x)
  BY <1>1 DEF OpToRel
<1> QED BY <1>2

(* The function FlattenSeq is defined by exists, up to any length, and      *)
(* gains what comes next.                                                  *)
LEMMA FlattenedBy ==
    ASSUME NEW S, NEW seqs \in Seq(Seq(S)), Len(seqs) # 0
    PROVE  \E g : /\ FlattenSeq(seqs) = g[Len(seqs)]
                  /\ g[1] = seqs[1]
                  /\ \A i \in 2..Len(seqs) : g[i] = g[i-1] \o seqs[i]
<1> DEFINE n == Len(seqs)
           Step(g, i) == IF i = 1 THEN seqs[i] ELSE g[i-1] \o seqs[i]
           Solves(g, k) == g = [i \in 1..k |-> Step(g, i)]
           flatten == CHOOSE g : Solves(g, n)
<1>2. n # 0
  OBVIOUS
<1>3. QED
  <2>1. FlattenSeq(seqs) = flatten[n]
    BY <1>2 DEF FlattenSeq
  <2>2. \A k \in 1..n : \E g : Solves(g, k)
    <3> DEFINE Without == {k \in 1..n : ~\E g : Solves(g, k)}
    <3>1. SUFFICES ASSUME Without # {} PROVE FALSE
      OBVIOUS
    <3>2. PICK k \in Without : \A m \in Without : k <= m
      <4> HIDE DEF Without
      <4>1. Without \subseteq Nat
        <5> HIDE DEF Solves
        <5> QED BY DEF Without
      <4> QED BY <3>1, <4>1, LeastOf
    <3>3. CASE k = 1
      <4>1. Solves([i \in 1..1 |-> seqs[1]], 1)
        OBVIOUS
      <4> QED BY <3>3, <4>1
    <3>4. CASE k # 1
      <4>1. k \in 1..n
        <5> HIDE DEF Solves
        <5> QED BY DEF Without
      <4>2. PICK g : Solves(g, k - 1)
        <5>1. k - 1 \in 1..n /\ k - 1 \notin Without
          <6> HIDE DEF Without
          <6> QED BY <3>2, <3>4, <4>1
        <5> HIDE DEF Solves
        <5> QED BY <5>1
      <4> DEFINE h == [i \in 1..k |-> IF i = k THEN g[k-1] \o seqs[k] ELSE g[i]]
      <4>3. \A i \in 1..k : h[i] = Step(h, i)
        <5>1. TAKE i \in 1..k
        <5>2. CASE i = k
          <6>1. k \in 1..k /\ k - 1 \in 1..k /\ k - 1 # k
            BY <3>4, <4>1
          <6>2. h[k] = g[k-1] \o seqs[k] /\ h[k-1] = g[k-1]
            <7> HIDE DEF Step, Without, n
            <7>1. h[k] = g[k-1] \o seqs[k]
              BY <6>1
            <7>2. h[k-1] = g[k-1]
              BY <6>1
            <7> QED BY <7>1, <7>2
          <6>3. Step(h, k) = h[k-1] \o seqs[k]
            <7> HIDE DEF h
            <7> QED BY <3>4
          <6> HIDE DEF h, Step
          <6> QED BY <5>2, <6>2, <6>3
        <5>3. CASE i # k
          <6>1. i \in 1..(k-1) /\ h[i] = g[i] /\ (i # 1 => h[i-1] = g[i-1])
            BY <5>3, <4>1
          <6>2. g[i] = Step(g, i)
            <7> HIDE DEF Step
            <7> QED BY <4>2, <6>1
          <6> QED BY <6>1, <6>2
        <5> QED BY <5>2, <5>3
      <4>4. Solves(h, k)
        <5> HIDE DEF Step
        <5>1. h = [i \in 1..k |-> h[i]]
          OBVIOUS
        <5>2. [i \in 1..k |-> h[i]] = [i \in 1..k |-> Step(h, i)]
          <6> HIDE DEF h
          <6> QED BY <4>3
        <5> QED BY <5>1, <5>2
      <4> QED BY <4>4
    <3> QED BY <3>3, <3>4
  <2>3. Solves(flatten, n)
    <3>1. n \in 1..n
      BY <1>2
    <3>2. \E g : Solves(g, n)
      <4> HIDE DEF n, Solves
      <4> QED BY <2>2, <3>1
    <3> HIDE DEF n, Solves
    <3> QED BY <3>2
  <2> HIDE DEF flatten
  <2>4. \A i \in 1..n : flatten[i] = Step(flatten, i)
    <3> HIDE DEF Step
    <3> QED BY <2>3
  <2>5. 1 \in 1..n /\ \A i \in 2..n : i \in 1..n /\ i # 1
    BY <1>2
  <2>6. flatten[1] = seqs[1]
    BY <2>4, <2>5
  <2>7. \A i \in 2..n : flatten[i] = flatten[i-1] \o seqs[i]
    BY <2>4, <2>5
  <2> QED BY <2>1, <2>6, <2>7

(* FlattenSeq leaves out nothing of what it puts together. *)
LEMMA Flattened ==
    ASSUME NEW S, NEW seqs \in Seq(Seq(S))
    PROVE  /\ FlattenSeq(seqs) \in Seq(S)
           /\ \A i \in 1..Len(seqs) : Range(seqs[i]) \subseteq Range(FlattenSeq(seqs))
           /\ \A x \in Range(FlattenSeq(seqs)) : \E i \in 1..Len(seqs) : x \in Range(seqs[i])
<1> DEFINE n == Len(seqs)
<1>1. CASE n = 0
  BY <1>1 DEF FlattenSeq, Range
<1>2. CASE n # 0
  <2>1. PICK flatten : /\ FlattenSeq(seqs) = flatten[n] /\ flatten[1] = seqs[1]
                       /\ \A i \in 2..n : flatten[i] = flatten[i-1] \o seqs[i]
    BY <1>2, FlattenedBy
  <2>5. \A k \in 1..n : /\ flatten[k] \in Seq(S)
                        /\ \A i \in 1..k : Range(seqs[i]) \subseteq Range(flatten[k])
                        /\ \A x \in Range(flatten[k]) : \E i \in 1..k : x \in Range(seqs[i])
    <3> DEFINE Good(k) == /\ flatten[k] \in Seq(S)
                          /\ \A i \in 1..k : Range(seqs[i]) \subseteq Range(flatten[k])
                          /\ \A x \in Range(flatten[k]) : \E i \in 1..k : x \in Range(seqs[i])
               Bad == {k \in 1..n : ~Good(k)}
    <3>1. SUFFICES ASSUME Bad # {} PROVE FALSE
      OBVIOUS
    <3>2. PICK k \in Bad : \A m \in Bad : k <= m
      <4> HIDE DEF Bad
      <4>1. Bad \subseteq Nat
        BY DEF Bad
      <4> QED BY <3>1, <4>1, LeastOf
    <3>3. CASE k = 1
      <4>1. flatten[1] = seqs[1] /\ 1 \in 1..n
        BY <2>1, <3>3
      <4>2. Good(1)
        BY <4>1
      <4> QED BY <3>3, <4>2
    <3>4. CASE k # 1
      <4>1. k - 1 \in 1..n /\ Good(k - 1) /\ k \in 2..n
        <5>1. k \in 1..n /\ k - 1 \notin Bad
          <6>1. k \in 1..n
            <7> HIDE DEF Good
            <7> QED BY DEF Bad
          <6> HIDE DEF Bad
          <6> QED BY <3>2, <6>1
        <5> HIDE DEF Good
        <5> QED BY <5>1, <3>4
      <4>2. flatten[k] = flatten[k-1] \o seqs[k]
        <5> HIDE DEF Good, Bad
        <5> QED BY <2>1, <4>1
      <4>3. seqs[k] \in Seq(S) /\ flatten[k-1] \in Seq(S)
        BY <4>1
      <4>4. flatten[k] \in Seq(S)
        BY <4>2, <4>3
      <4>5. Range(flatten[k]) = Range(flatten[k-1]) \union Range(seqs[k])
        BY <4>2, <4>3, RangeConcatenation
      <4>6. \A i \in 1..k : Range(seqs[i]) \subseteq Range(flatten[k])
        <5>1. \A i \in 1..k : i \in 1..(k-1) \/ i = k
          BY <4>1
        <5> QED BY <5>1, <4>1, <4>5
      <4>7. \A x \in Range(flatten[k]) : \E i \in 1..k : x \in Range(seqs[i])
        <5>1. \A i \in 1..(k-1) : i \in 1..k
          BY <4>1
        <5>2. k \in 1..k
          BY <4>1
        <5> QED BY <5>1, <5>2, <4>1, <4>5
      <4>8. Good(k)
        BY <4>4, <4>6, <4>7
      <4> QED BY <4>8
    <3> QED BY <3>3, <3>4
  <2>6. n \in 1..n
    BY <1>2
  <2> QED BY <2>1, <2>5, <2>6
<1> QED BY <1>1, <1>2

(* A sequence has nothing twice. *)
Once(seq) == \A i, j \in 1..Len(seq) : seq[i] = seq[j] => i = j

(* Two such, with nothing in common, have nothing twice together. *)
LEMMA ConcatOnce ==
    ASSUME NEW S, NEW one \in Seq(S), NEW other \in Seq(S), Once(one), Once(other),
           \A x \in Range(one) : x \notin Range(other)
    PROVE  Once(one \o other)
<1> DEFINE n == Len(one)
           m == Len(other)
           both == one \o other
<1>1. n \in Nat /\ m \in Nat
  OBVIOUS
<1>2. /\ Len(both) = n + m
      /\ \A i \in 1..n : both[i] = one[i]
      /\ \A i \in 1..m : both[n + i] = other[i]
  OBVIOUS
<1>3. \A i \in 1..n, j \in 1..m : one[i] # other[j]
  <2>1. \A i \in 1..n : one[i] \in Range(one)
    BY DEF Range
  <2>2. \A j \in 1..m : other[j] \in Range(other)
    BY DEF Range
  <2> QED BY <2>1, <2>2
<1>4. (\A i, j \in 1..n : one[i] = one[j] => i = j) /\ (\A i, j \in 1..m : other[i] = other[j] => i = j)
  BY DEF Once
<1> HIDE DEF n, m, both
<1>5. SUFFICES ASSUME NEW i \in 1..(n + m), NEW j \in 1..(n + m), both[i] = both[j] PROVE i = j
  BY <1>2 DEF Once, both
<1>6. \A k \in 1..(n + m) : k \in 1..n \/ \E l \in 1..m : k = n + l
  <2> SUFFICES ASSUME NEW k \in 1..(n + m), k \notin 1..n PROVE \E l \in 1..m : k = n + l
    OBVIOUS
  <2>1. k - n \in 1..m /\ k = n + (k - n)
    BY <1>1
  <2> QED BY <2>1
<1>7. CASE i \in 1..n /\ j \in 1..n
  BY <1>2, <1>4, <1>5, <1>7
<1>8. ASSUME i \notin 1..n, j \notin 1..n PROVE i = j
  <2>1. PICK k \in 1..m, l \in 1..m : i = n + k /\ j = n + l
    BY <1>6, <1>8
  <2>2. other[k] = other[l]
    BY <1>2, <1>5, <2>1
  <2>3. k = l
    BY <1>4, <2>2
  <2> QED BY <2>1, <2>3
<1>9. ASSUME i \in 1..n, j \notin 1..n PROVE FALSE
  <2>1. PICK l \in 1..m : j = n + l
    BY <1>6, <1>9
  <2>2. one[i] = other[l]
    BY <1>2, <1>5, <1>9, <2>1
  <2> QED BY <1>3, <1>9, <2>2
<1>10. ASSUME i \notin 1..n, j \in 1..n PROVE FALSE
  <2>1. PICK l \in 1..m : i = n + l
    BY <1>6, <1>10
  <2>2. one[j] = other[l]
    BY <1>2, <1>5, <1>10, <2>1
  <2> QED BY <1>3, <1>10, <2>2
<1> QED BY <1>7, <1>8, <1>9, <1>10

(* So do any number of them. *)
LEMMA FlattenedOnce ==
    ASSUME NEW S, NEW seqs \in Seq(Seq(S)),
           \A i \in 1..Len(seqs) : Once(seqs[i]),
           \A i, j \in 1..Len(seqs) : i # j => \A x \in Range(seqs[i]) : x \notin Range(seqs[j])
    PROVE  Once(FlattenSeq(seqs))
<1> DEFINE n == Len(seqs)
<1>1. CASE n = 0
  BY <1>1 DEF FlattenSeq, Once
<1>2. CASE n # 0
  <2>1. PICK flatten : /\ FlattenSeq(seqs) = flatten[n] /\ flatten[1] = seqs[1]
                       /\ \A i \in 2..n : flatten[i] = flatten[i-1] \o seqs[i]
    BY <1>2, FlattenedBy
  <2> DEFINE Good(k) == /\ flatten[k] \in Seq(S)
                        /\ \A x \in Range(flatten[k]) : \E i \in 1..k : x \in Range(seqs[i])
                        /\ Once(flatten[k])
             Bad == {k \in 1..n : ~Good(k)}
  <2>2. SUFFICES ASSUME Bad # {} PROVE FALSE
    <3>1. n \in 1..n
      BY <1>2
    <3> QED BY <2>1, <3>1
  <2>3. PICK k \in Bad : \A m \in Bad : k <= m
    <3> HIDE DEF Bad
    <3>1. Bad \subseteq Nat
      BY DEF Bad
    <3> QED BY <2>2, <3>1, LeastOf
  <2>4. CASE k = 1
    <3>1. flatten[1] = seqs[1] /\ 1 \in 1..n
      BY <2>1, <2>4
    <3>2. Good(1)
      BY <3>1
    <3> QED BY <2>4, <3>2
  <2>5. CASE k # 1
    <3>1. k - 1 \in 1..n /\ Good(k - 1) /\ k \in 2..n
      <4>1. k \in 1..n /\ k - 1 \notin Bad
        <5>1. k \in 1..n
          <6> HIDE DEF Good
          <6> QED BY DEF Bad
        <5> HIDE DEF Bad
        <5> QED BY <2>3, <5>1
      <4> HIDE DEF Good
      <4> QED BY <4>1, <2>5
    <3>2. flatten[k] = flatten[k-1] \o seqs[k]
      <4> HIDE DEF Good, Bad
      <4> QED BY <2>1, <3>1
    <3>3. seqs[k] \in Seq(S) /\ flatten[k-1] \in Seq(S)
      BY <3>1
    <3>4. flatten[k] \in Seq(S)
      BY <3>2, <3>3
    <3>5. Range(flatten[k]) = Range(flatten[k-1]) \union Range(seqs[k])
      BY <3>2, <3>3, RangeConcatenation
    <3>6. \A i \in 1..(k-1) : i \in 1..k /\ i \in 1..n /\ i # k
      BY <3>1
    <3>7. \A x \in Range(flatten[k]) : \E i \in 1..k : x \in Range(seqs[i])
      <4>1. k \in 1..k
        BY <3>1
      <4> QED BY <4>1, <3>1, <3>5, <3>6
    <3>8. \A x \in Range(flatten[k-1]) : x \notin Range(seqs[k])
      BY <3>1, <3>6
    <3>9. Once(flatten[k])
      BY <3>1, <3>2, <3>3, <3>8, ConcatOnce
    <3>10. Good(k)
      BY <3>4, <3>7, <3>9
    <3> QED BY <3>10
  <2> QED BY <2>4, <2>5
<1> QED BY <1>1, <1>2

-----------------------------------------------------------------------------
(* The parts of the type. *)
FilesTyped ==
    /\ place \in [Files -> {"nowhere", "inbox", "rejected", "done"}]
    /\ cpc \in [Sources -> {"looking", "taking", "moving", "ended"}]
    /\ listed \in [Sources -> SUBSET Files]
TopicsTyped ==
    /\ raw \in [Sources -> Seq(Files)] /\ norm \in Seq(Outcomes)
    /\ rawAt \in [Sources -> Nat] /\ normAt \in Nat
NormalizersTyped ==
    /\ npc \in [Sources -> {"receiving", "sending", "sent", "ended"}]
    /\ batch \in [Sources -> Seq(Outcomes)] /\ through \in [Sources -> Nat]
Insert == [from : Nat, to : Nat, left : SUBSET Outcomes, failed : BOOLEAN]
WriterTyped ==
    /\ wpc \in {"turning", "acknowledging", "ended"} /\ wstopping \in BOOLEAN
    /\ from \in Nat /\ next \in Nat
    /\ inserts \in Seq(Insert)
ProcessTyped ==
    /\ stored \subseteq Outcomes
    /\ process \in {"down", "running", "stopping"} /\ starts \in 1..MaxStarts
    /\ process # "running" => starts < MaxStarts
Typed == FilesTyped /\ TopicsTyped /\ NormalizersTyped /\ WriterTyped /\ ProcessTyped

(* A normalizer receives what is in its topic, and acknowledges no more. *)
Received ==
    \A s \in Sources :
        /\ rawAt[s] <= Len(raw[s])
        /\ npc[s] \in {"sending", "sent"} => rawAt[s] <= through[s] /\ through[s] <= Len(raw[s])

(* Inserts follow each other from what is acknowledged to what is held. *)
Chained ==
    /\ normAt <= from /\ from <= next /\ next <= Len(norm)
    /\ \A i \in 1..Len(inserts) : inserts[i].from <= inserts[i].to /\ inserts[i].to <= from
    /\ \A i \in 1..(Len(inserts) - 1) : inserts[i].to = inserts[i + 1].from
    /\ inserts = <<>> => normAt = from
    /\ inserts # <<>> => inserts[1].from = normAt /\ inserts[Len(inserts)].to = from

(* A longer topic has what it had. *)
Extends(one, other) == Len(one) <= Len(other) /\ \A o \in 1..Len(one) : other[o] = one[o]

(* Topics that are added to extend what they were. *)
LEMMA ConcatExtends ==
    ASSUME NEW S, NEW one \in Seq(S), NEW other \in Seq(S)
    PROVE  one \o other \in Seq(S) /\ Extends(one, one \o other)
BY ConcatProperties DEF Extends

(* So does one more record, which comes last. *)
LEMMA AppendExtends ==
    ASSUME NEW S, NEW one \in Seq(S), NEW x \in S
    PROVE  /\ Append(one, x) \in Seq(S) /\ Extends(one, Append(one, x))
           /\ Len(Append(one, x)) = Len(one) + 1 /\ Append(one, x)[Len(one) + 1] = x
BY AppendProperties DEF Extends

-----------------------------------------------------------------------------
(* The oldest file listed is one of them. *)
LEMMA OldestIsListed ==
    ASSUME FilesTyped, NEW s \in Sources, listed[s] # {}
    PROVE  Oldest(s) \in listed[s]
<1>1. listed[s] \in SUBSET Nat
  BY FilesAssumption DEF FilesTyped
<1>2. \E x \in listed[s] : \A y \in listed[s] : x <= y
  BY <1>1, LeastOf
<1> QED
  BY <1>2 DEF Oldest, Min

(* The outcomes of a file are outcomes. *)
LEMMA OutcomesOfFile ==
    ASSUME NEW f \in Files
    PROVE  OutcomesOf(f) \in Seq(Outcomes)
<1>1. OutcomesOf(f) \in Seq(Range(OutcomesOf(f)))
  BY FilesAssumption DEF OutcomesOf, Range
<1>2. Range(OutcomesOf(f)) \subseteq Outcomes
  BY DEF Outcomes
<1> QED
  BY <1>1, <1>2

(* Each is an outcome of that file alone, and there once. *)
LEMMA OutcomesAreOfTheirFile ==
    ASSUME NEW f \in Files
    PROVE  Once(OutcomesOf(f)) /\ \A x \in Range(OutcomesOf(f)) : x[1] = f
<1>1. Lines[f] \in Nat
  BY FilesAssumption
<1>2. Len(OutcomesOf(f)) = Lines[f] /\ DOMAIN OutcomesOf(f) = 1..Lines[f]
  BY <1>1 DEF OutcomesOf
<1>3. \A i \in 1..Lines[f] : OutcomesOf(f)[i] = <<f, i>>
  BY DEF OutcomesOf
<1> QED
  BY <1>2, <1>3 DEF Once, Range

(* What a normalizer sends is all the outcomes of the records it received, *)
(* and nothing else; and each once, if each record came once.              *)
LEMMA NormalizedWhole ==
    ASSUME Typed, Received, NEW s \in Sources, Normalize(s), npc'[s] = "sending"
    PROVE  /\ batch'[s] \in Seq(Outcomes)
           /\ through'[s] \in Nat /\ rawAt[s] <= through'[s] /\ through'[s] <= Len(raw[s])
           /\ \A o \in (rawAt[s] + 1)..through'[s] :
                 Range(OutcomesOf(raw[s][o])) \subseteq Range(batch'[s])
           /\ \A x \in Range(batch'[s]) : \E o \in (rawAt[s] + 1)..through'[s] : raw[s][o] = x[1]
           /\ Once(raw[s]) => Once(batch'[s])
<1> DEFINE to == Smaller(Len(raw[s]), rawAt[s] + ReadBatch)
           records == SubSeq(raw[s], rawAt[s] + 1, to)
           outs == [i \in DOMAIN records |-> OutcomesOf(records[i])]
<1>1. raw[s] \in Seq(Files) /\ rawAt[s] \in Nat /\ rawAt[s] <= Len(raw[s])
  BY DEF Typed, TopicsTyped, Received
<1>2. to \in Nat /\ rawAt[s] < to /\ to <= Len(raw[s])
  <2> HIDE DEF records, outs
  <2>1. rawAt[s] < to
    BY DEF Normalize, Typed, NormalizersTyped
  <2> QED BY <2>1, <1>1, LimitsAssumption DEF Smaller
<1>3. batch'[s] = FlattenSeq(outs) /\ through'[s] = to
  BY DEF Normalize, Typed, NormalizersTyped
<1>4. /\ records \in Seq(Files) /\ Len(records) = to - rawAt[s]
      /\ \A i \in 1..(to - rawAt[s]) : records[i] = raw[s][rawAt[s] + i]
  <2> HIDE DEF to
  <2>1. records \in Seq(Files)
    <3>1. \A i \in (rawAt[s] + 1)..to : i \in 1..Len(raw[s])
      BY <1>1, <1>2
    <3> QED BY <1>1, <1>2, <3>1, SubSeqProperties
  <2>2. Len(records) = to - rawAt[s]
    BY <1>1, <1>2, SubSeqProperties
  <2>3. \A i \in 1..(to - rawAt[s]) : records[i] = raw[s][rawAt[s] + i]
    BY <1>1, <1>2, SubSeqProperties, SMTT(30)
  <2> QED BY <2>1, <2>2, <2>3
<1>5. outs \in Seq(Seq(Outcomes)) /\ Len(outs) = to - rawAt[s]
  <2>1. \A i \in 1..Len(records) : OutcomesOf(records[i]) \in Seq(Outcomes)
    <3> HIDE DEF records
    <3> QED BY <1>4, OutcomesOfFile
  <2>2. DOMAIN records = 1..Len(records)
    BY <1>4
  <2> HIDE DEF records
  <2> QED BY <2>1, <2>2, <1>4
<1>6. \A o \in (rawAt[s] + 1)..to : Range(OutcomesOf(raw[s][o])) \subseteq Range(FlattenSeq(outs))
  <2>1. TAKE o \in (rawAt[s] + 1)..to
  <2> DEFINE i == o - rawAt[s]
  <2>2. i \in 1..(to - rawAt[s]) /\ rawAt[s] + i = o
    BY <1>1, <1>2
  <2>3. outs[i] = OutcomesOf(raw[s][o])
    <3>1. i \in DOMAIN records
      <4> HIDE DEF records, to
      <4> QED BY <2>2, <1>4
    <3>2. records[i] = raw[s][o]
      <4> HIDE DEF records, to
      <4> QED BY <2>2, <1>4
    <3> HIDE DEF records, i
    <3> QED BY <3>1, <3>2
  <2> HIDE DEF outs, to, i
  <2> QED BY <1>5, <2>2, <2>3, Flattened
<1>7. \A i \in 1..Len(outs) :
         \E o \in (rawAt[s] + 1)..to :
            /\ o = rawAt[s] + i /\ raw[s][o] \in Files /\ outs[i] = OutcomesOf(raw[s][o])
  <2>1. TAKE i \in 1..Len(outs)
  <2> DEFINE o == rawAt[s] + i
  <2>2. i \in 1..(to - rawAt[s])
    <3> HIDE DEF to, outs
    <3> QED BY <1>5
  <2>3. o \in (rawAt[s] + 1)..to /\ o \in 1..Len(raw[s])
    <3> HIDE DEF to, outs
    <3> QED BY <1>1, <1>2, <2>2
  <2>4. raw[s][o] \in Files
    BY <1>1, <2>3
  <2>5. i \in DOMAIN records /\ records[i] = raw[s][o]
    <3> HIDE DEF to, outs, records
    <3> QED BY <1>4, <2>2
  <2>6. outs[i] = OutcomesOf(raw[s][o])
    <3> HIDE DEF to, records, o
    <3> QED BY <2>5
  <2> HIDE DEF o, to, outs
  <2> QED BY <2>3, <2>4, <2>6 DEF o
<1>8. \A x \in Range(FlattenSeq(outs)) : \E o \in (rawAt[s] + 1)..to : raw[s][o] = x[1]
  <2> HIDE DEF outs, to
  <2>1. TAKE x \in Range(FlattenSeq(outs))
  <2>2. PICK i \in 1..Len(outs) : x \in Range(outs[i])
    BY <1>5, Flattened
  <2>3. PICK o \in (rawAt[s] + 1)..to : raw[s][o] \in Files /\ outs[i] = OutcomesOf(raw[s][o])
    BY <1>7
  <2> QED BY <2>2, <2>3, OutcomesAreOfTheirFile
<1>9. ASSUME Once(raw[s]) PROVE Once(FlattenSeq(outs))
  <2> HIDE DEF outs, to
  <2>1. \A i \in 1..Len(outs) : Once(outs[i])
    BY <1>7, OutcomesAreOfTheirFile
  <2>2. ASSUME NEW i \in 1..Len(outs), NEW j \in 1..Len(outs), i # j, NEW x \in Range(outs[i])
        PROVE  x \notin Range(outs[j])
    <3>1. PICK o \in (rawAt[s] + 1)..to : o = rawAt[s] + i /\ raw[s][o] \in Files /\ outs[i] = OutcomesOf(raw[s][o])
      BY <1>7
    <3>2. PICK q \in (rawAt[s] + 1)..to : q = rawAt[s] + j /\ raw[s][q] \in Files /\ outs[j] = OutcomesOf(raw[s][q])
      BY <1>7
    <3>3. o # q /\ o \in 1..Len(raw[s]) /\ q \in 1..Len(raw[s])
      BY <1>1, <1>2, <2>2, <3>1, <3>2, SMTT(30)
    <3>4. raw[s][o] # raw[s][q]
      BY <1>9, <3>3 DEF Once
    <3> QED BY <2>2, <3>1, <3>2, <3>4, OutcomesAreOfTheirFile
  <2> QED BY <1>5, <2>1, <2>2, FlattenedOnce
<1> QED
  <2> HIDE DEF outs, to
  <2>1. FlattenSeq(outs) \in Seq(Outcomes)
    BY <1>5, Flattened
  <2>2. batch'[s] \in Seq(Outcomes)
    BY <1>3, <2>1
  <2>3. through'[s] \in Nat /\ rawAt[s] <= through'[s] /\ through'[s] <= Len(raw[s])
    BY <1>1, <1>2, <1>3
  <2>4. \A o \in (rawAt[s] + 1)..through'[s] :
           Range(OutcomesOf(raw[s][o])) \subseteq Range(batch'[s])
    BY <1>3, <1>6
  <2>5. \A x \in Range(batch'[s]) : \E o \in (rawAt[s] + 1)..through'[s] : raw[s][o] = x[1]
    BY <1>3, <1>8
  <2>6. Once(raw[s]) => Once(batch'[s])
    BY <1>3, <1>9
  <2> QED BY <2>2, <2>3, <2>4, <2>5, <2>6

(* The oldest insert comes first, and the others stay in order without it. *)
LEMMA OldestInsert ==
    ASSUME WriterTyped, inserts # <<>>
    PROVE  /\ Head(inserts) = inserts[1] /\ Head(inserts) \in Insert
           /\ Tail(inserts) \in Seq(Insert) /\ Len(Tail(inserts)) = Len(inserts) - 1
           /\ \A i \in 1..(Len(inserts) - 1) : Tail(inserts)[i] = inserts[i + 1]
<1>1. inserts \in Seq(Insert)
  BY DEF WriterTyped
<1> HIDE DEF Insert
<1> QED
  BY <1>1, HeadTailProperties

(* Every file and collector keeps its type. *)
LEMMA FilesStayTyped ==
    ASSUME FilesTyped, [Next]_vars
    PROVE  FilesTyped'
<1>1. ASSUME NEW f \in Files, Drop(f) PROVE FilesTyped'
  BY <1>1 DEF FilesTyped, Drop, collectors
<1>2. ASSUME NEW s \in Sources, Look(s) PROVE FilesTyped'
  <2> DEFINE ready == {f \in Files : SourceOf[f] = s /\ place[f] = "inbox"}
  <2>1. ready \in SUBSET Files
    OBVIOUS
  <2> HIDE DEF ready
  <2> QED BY <1>2, <2>1 DEF FilesTyped, Look
<1>3. ASSUME NEW s \in Sources, Collect(s) PROVE FilesTyped'
  BY <1>3 DEF FilesTyped, Collect
<1>4. ASSUME NEW s \in Sources, Move(s) PROVE FilesTyped'
  BY <1>4 DEF FilesTyped, Move
<1>5. ASSUME NEW s \in Sources, LookAgain(s) \/ CollectorFails(s) PROVE FilesTyped'
  BY <1>5 DEF FilesTyped, LookAgain, CollectorFails
<1>6. ASSUME Exit \/ Crash PROVE FilesTyped'
  BY <1>6 DEF FilesTyped, Exit, Crash, RolesAnew
<1>7. ASSUME UNCHANGED <<place, collectors>> PROVE FilesTyped'
  BY <1>7 DEF FilesTyped, collectors
<1> QED
  BY <1>1, <1>2, <1>3, <1>4, <1>5, <1>6, <1>7
     DEF Next, CollectorStep, NormalizerStep, WriterStep, Normalize, Hand, AcknowledgeRaw,
         AcknowledgeOldest, EndTurn, Turn, StoreBatch, StoreRefuses, NormalizerFails,
         WriterFails, Stop, Start, vars

(* Topics are only added to. *)
LEMMA TopicsGrow ==
    ASSUME Typed, [Next]_vars
    PROVE  /\ TopicsTyped'
           /\ \A s \in Sources : Extends(raw[s], raw'[s])
           /\ Extends(norm, norm')
<1> DEFINE Grow == /\ TopicsTyped'
                   /\ \A s \in Sources : Extends(raw[s], raw'[s])
                   /\ Extends(norm, norm')
<1>1. /\ \A s \in Sources : Len(raw[s]) \in Nat /\ Extends(raw[s], raw[s])
      /\ Extends(norm, norm)
  BY DEF Typed, TopicsTyped, Extends
<1>2. ASSUME NEW s \in Sources, Collect(s) \/ CollectorFails(s) PROVE Grow
  <2>1. CASE UNCHANGED raw
    BY <1>1, <1>2, <2>1 DEF Collect, CollectorFails, Typed, TopicsTyped
  <2>2. CASE raw' # raw
    <3>1. /\ listed[s] # {} /\ raw' = [raw EXCEPT ![s] = Append(@, Oldest(s))]
          /\ UNCHANGED <<rawAt, norm, normAt>>
      BY <1>2, <2>2 DEF Collect, CollectorFails
    <3>2. Oldest(s) \in Files
      BY <3>1, OldestIsListed DEF Typed, FilesTyped
    <3>3. raw[s] \in Seq(Files)
      BY DEF Typed, TopicsTyped
    <3>4. Append(raw[s], Oldest(s)) \in Seq(Files) /\ Extends(raw[s], Append(raw[s], Oldest(s)))
      BY <3>2, <3>3, AppendExtends
    <3> QED
      BY <1>1, <3>1, <3>4 DEF Typed, TopicsTyped
  <2> QED
    BY <2>1, <2>2
<1>3. ASSUME NEW s \in Sources, Hand(s) \/ NormalizerFails(s) PROVE Grow
  <2>1. norm \in Seq(Outcomes) /\ batch[s] \in Seq(Outcomes)
    BY DEF Typed, TopicsTyped, NormalizersTyped
  <2>2. norm' \in {norm, norm \o batch[s]} /\ UNCHANGED <<raw, rawAt, normAt>>
    BY <1>3 DEF Hand, NormalizerFails
  <2> QED
    BY <1>1, <2>1, <2>2, ConcatExtends DEF Typed, TopicsTyped
<1>4. CASE Crash
  <2>1. PICK part \in Parts : norm' = norm \o part
    BY <1>4 DEF Crash
  <2>2. part \in Seq(Outcomes)
    <3>1. CASE part = <<>>
      BY <3>1
    <3>2. CASE part # <<>>
      <4> DEFINE From(s) == {SubSeq(batch[s], 1, n) : n \in 0..Len(batch[s])}
                 Sending == {s \in Sources : npc[s] = "sending" /\ Fits(norm, normAt, Len(batch[s]))}
      <4>0. PICK some \in {From(s) : s \in Sending} : part \in some
        BY <3>2 DEF Parts
      <4>1. PICK s \in Sources : part \in From(s)
        BY <4>0
      <4>2. batch[s] \in Seq(Outcomes)
        BY DEF Typed, NormalizersTyped
      <4>3. PICK n \in 0..Len(batch[s]) : part = SubSeq(batch[s], 1, n)
        BY <4>1
      <4> QED
        BY <4>2, <4>3, SubSeqProperties
    <3> QED
      BY <3>1, <3>2
  <2>3. norm \in Seq(Outcomes)
    BY DEF Typed, TopicsTyped
  <2> QED
    BY <1>1, <1>4, <2>1, <2>2, <2>3, ConcatExtends DEF Crash, Typed, TopicsTyped
<1>5. ASSUME NEW s \in Sources, AcknowledgeRaw(s) PROVE Grow
  BY <1>1, <1>5 DEF AcknowledgeRaw, Typed, TopicsTyped, NormalizersTyped
<1>6. CASE AcknowledgeOldest
  <2>1. Head(inserts).to \in Nat
    BY <1>6, OldestInsert DEF AcknowledgeOldest, Typed, Insert
  <2>2. normAt' \in Nat /\ UNCHANGED <<raw, rawAt, norm>>
    BY <1>6, <2>1 DEF AcknowledgeOldest, Typed, TopicsTyped
  <2> QED
    BY <1>1, <2>2 DEF Typed, TopicsTyped
<1>7. CASE UNCHANGED topics
  BY <1>1, <1>7 DEF topics, Typed, TopicsTyped
<1> QED
  BY <1>2, <1>3, <1>4, <1>5, <1>6, <1>7
     DEF Next, CollectorStep, NormalizerStep, WriterStep, Drop, Look, Move, LookAgain, Normalize,
         EndTurn, Turn, StoreBatch, StoreRefuses, WriterFails, Stop, Exit, Start, topics, vars

(* Every normalizer keeps its type. *)
LEMMA NormalizersStayTyped ==
    ASSUME Typed, Received, [Next]_vars
    PROVE  NormalizersTyped'
<1>1. ASSUME NEW s \in Sources, Normalize(s) PROVE NormalizersTyped'
  <2>1. CASE npc'[s] = "sending"
    BY <1>1, <2>1, NormalizedWhole DEF Normalize, Typed, NormalizersTyped
  <2>2. CASE npc'[s] # "sending"
    BY <1>1, <2>2 DEF Normalize, Typed, NormalizersTyped
  <2> QED
    BY <2>1, <2>2
<1> DEFINE nothing == <<>>
<1>0. nothing \in Seq(Outcomes)
  OBVIOUS
<1>2. ASSUME NEW s \in Sources, Hand(s) \/ AcknowledgeRaw(s) \/ NormalizerFails(s)
      PROVE  NormalizersTyped'
  <2>1. batch' \in {batch, [batch EXCEPT ![s] = nothing]} /\ UNCHANGED through
    BY <1>2 DEF Hand, AcknowledgeRaw, NormalizerFails
  <2>2. \E where \in {"receiving", "sent", "ended"} : npc' = [npc EXCEPT ![s] = where]
    BY <1>2 DEF Hand, AcknowledgeRaw, NormalizerFails
  <2> HIDE DEF nothing
  <2> QED
    BY <1>0, <2>1, <2>2 DEF Typed, NormalizersTyped
<1>3. ASSUME Exit \/ Crash PROVE NormalizersTyped'
  <2>1. /\ npc' = [s \in Sources |-> "receiving"] /\ through' = [s \in Sources |-> 0]
        /\ batch' = [s \in Sources |-> nothing]
    BY <1>3 DEF Exit, Crash, RolesAnew
  <2> HIDE DEF nothing
  <2> QED
    BY <1>0, <2>1 DEF NormalizersTyped
<1>4. ASSUME UNCHANGED normalizers PROVE NormalizersTyped'
  BY <1>4 DEF normalizers, Typed, NormalizersTyped
<1> QED
  BY <1>1, <1>2, <1>3, <1>4
     DEF Next, CollectorStep, NormalizerStep, WriterStep, Drop, Look, Collect, Move, LookAgain,
         AcknowledgeOldest, EndTurn, Turn, StoreBatch, StoreRefuses, CollectorFails, WriterFails,
         Stop, Start, vars

(* What a turn of the writer starts and holds. *)
LEMMA TurnOfTheWriter ==
    ASSUME Typed, Chained, NEW due \in BOOLEAN, Turn(due)
    PROVE  /\ next' \in Nat /\ next <= next' /\ next' <= Len(norm) /\ next' < next + WriteBatch + 1
           /\ process = "stopping" \/ ~MayStart => next' = next
           /\ \/ /\ UNCHANGED <<from, inserts>>
                 /\ process = "stopping" => next' <= from
                 /\ process # "stopping" /\ MayStart => next' < from + MaxRows
              \/ /\ from' = next' /\ from < next'
                 /\ inserts' = Append(inserts, Started(next'))
                 /\ process = "stopping" \/ MayStart
<1> DEFINE to == IF process # "stopping" /\ MayStart
                 THEN Smaller(Len(norm), next + WriteBatch) ELSE next
<1>1. next' = to
  BY DEF Turn
<1>2. /\ next \in Nat /\ from \in Nat /\ Len(norm) \in Nat /\ from <= next /\ next <= Len(norm)
      /\ WriteBatch \in Nat \ {0} /\ MaxRows \in Nat \ {0}
  BY LimitsAssumption DEF Typed, TopicsTyped, WriterTyped, Chained
<1>3. to \in Nat /\ next <= to /\ to <= Len(norm) /\ to <= next + WriteBatch
  BY <1>2 DEF Smaller
<1>4. CASE UNCHANGED <<from, inserts>>
  <2> HIDE DEF Started
  <2> QED
    BY <1>1, <1>2, <1>3, <1>4 DEF Turn
<1>5. CASE ~UNCHANGED <<from, inserts>>
  BY <1>1, <1>2, <1>3, <1>5 DEF Turn
<1> QED
  BY <1>4, <1>5

(* The insert that a turn starts is one. *)
LEMMA StartedInsert ==
    ASSUME Typed, NEW to \in Nat, to <= Len(norm)
    PROVE  Started(to) \in Insert
<1>1. \A o \in (from + 1)..to : norm[o] \in Outcomes
  BY DEF Typed, TopicsTyped, WriterTyped
<1> QED
  BY <1>1 DEF Started, Insert, Typed, WriterTyped

(* What the store took of an insert, or refused, changes what is left of it *)
(* and whether it failed, and nothing left out is not stored.               *)
LEMMA InsertGoesOn ==
    ASSUME WriterTyped, NEW i \in DOMAIN inserts, NEW s \in Sources,
           StoreBatch(i, s) \/ StoreRefuses(i, s)
    PROVE  /\ inserts' \in Seq(Insert) /\ Len(inserts') = Len(inserts)
           /\ \A j \in 1..Len(inserts) :
                 /\ inserts'[j].from = inserts[j].from /\ inserts'[j].to = inserts[j].to
                 /\ inserts[j].left \subseteq inserts'[j].left \union stored'
<1>1. inserts \in Seq(Insert) /\ i \in 1..Len(inserts) /\ inserts[i] \in Insert
  BY DEF WriterTyped
<1>2. PICK new \in Insert :
         /\ inserts' = [inserts EXCEPT ![i] = new]
         /\ new.from = inserts[i].from /\ new.to = inserts[i].to
         /\ inserts[i].left \subseteq new.left \union stored'
  <2>1. CASE StoreBatch(i, s)
    <3> DEFINE new == [inserts[i] EXCEPT !.left = @ \ RowsOf(i, s)]
    <3>1. /\ new \in Insert /\ new.from = inserts[i].from /\ new.to = inserts[i].to
          /\ new.left = inserts[i].left \ RowsOf(i, s)
      BY <1>1 DEF Insert
    <3>2. inserts' = [inserts EXCEPT ![i] = new] /\ stored' = stored \union RowsOf(i, s)
      BY <1>1, <2>1 DEF StoreBatch
    <3> HIDE DEF new
    <3> QED
      BY <3>1, <3>2
  <2>2. CASE StoreRefuses(i, s)
    <3> DEFINE new == [inserts[i] EXCEPT !.failed = process = "stopping"]
    <3>1. /\ new \in Insert /\ new.from = inserts[i].from /\ new.to = inserts[i].to
          /\ new.left = inserts[i].left
      BY <1>1 DEF Insert
    <3>2. inserts' = [inserts EXCEPT ![i] = new]
      BY <1>1, <2>2 DEF StoreRefuses
    <3> HIDE DEF new
    <3> QED
      BY <3>1, <3>2
  <2> QED
    BY <2>1, <2>2
<1>3. /\ inserts' \in Seq(Insert) /\ Len(inserts') = Len(inserts)
      /\ \A j \in 1..Len(inserts) : inserts'[j] = IF j = i THEN new ELSE inserts[j]
  BY <1>1, <1>2
<1> QED
  BY <1>2, <1>3

(* The writer keeps its type. *)
LEMMA WriterStaysTyped ==
    ASSUME Typed, Chained, [Next]_vars
    PROVE  WriterTyped'
<1>1. inserts \in Seq(Insert) /\ from \in Nat /\ next \in Nat /\ normAt \in Nat
  BY DEF Typed, WriterTyped, TopicsTyped
<1>2. ASSUME NEW due \in BOOLEAN, Turn(due) PROVE WriterTyped'
  <2>1. next' \in Nat /\ from' \in {from, next'} /\ inserts' \in {inserts, Append(inserts, Started(next'))}
    BY <1>2, TurnOfTheWriter
  <2>2. Started(next') \in Insert
    BY <1>2, TurnOfTheWriter, StartedInsert
  <2>3. Append(inserts, Started(next')) \in Seq(Insert)
    BY <1>1, <2>2, AppendProperties
  <2>4. wpc' = "acknowledging" /\ wstopping' \in BOOLEAN
    BY <1>2 DEF Turn
  <2> QED
    BY <1>1, <2>1, <2>3, <2>4 DEF WriterTyped
<1>3. CASE AcknowledgeOldest
  <2>1. inserts' \in {inserts, Tail(inserts)} /\ inserts # <<>> /\ wpc' \in {wpc, "ended"}
        /\ UNCHANGED <<wstopping, from, next>>
    BY <1>3 DEF AcknowledgeOldest
  <2> QED
    BY <1>1, <2>1, OldestInsert DEF Typed, WriterTyped
<1>4. CASE EndTurn \/ WriterFails
  BY <1>4 DEF EndTurn, WriterFails, Typed, WriterTyped
<1>5. ASSUME NEW i \in DOMAIN inserts, NEW s \in Sources, StoreBatch(i, s) \/ StoreRefuses(i, s)
      PROVE  WriterTyped'
  <2>4. UNCHANGED <<wpc, wstopping, from, next>>
    BY <1>5 DEF StoreBatch, StoreRefuses
  <2> QED
    BY <1>5, <2>4, InsertGoesOn DEF Typed, WriterTyped
<1>6. CASE Exit \/ Crash
  <2> DEFINE nothing == <<>>
  <2>1. nothing \in Seq(Insert)
    OBVIOUS
  <2>2. wpc' = "turning" /\ wstopping' = FALSE /\ from' = normAt /\ next' = normAt /\ inserts' = nothing
    BY <1>6 DEF Exit, Crash, RolesAnew
  <2> HIDE DEF nothing
  <2> QED
    BY <1>1, <2>1, <2>2 DEF WriterTyped
<1>7. CASE UNCHANGED writer
  BY <1>7 DEF writer, Typed, WriterTyped
<1> QED
  BY <1>2, <1>3, <1>4, <1>5, <1>6, <1>7
     DEF Next, CollectorStep, NormalizerStep, WriterStep, Drop, Look, Collect, Move, LookAgain,
         Normalize, Hand, AcknowledgeRaw, CollectorFails, NormalizerFails, Stop, Start, vars

(* The process keeps its type, and the store has outcomes. *)
LEMMA ProcessStaysTyped ==
    ASSUME Typed, [Next]_vars
    PROVE  ProcessTyped' /\ stored \subseteq stored'
<1>1. ASSUME NEW i \in DOMAIN inserts, NEW s \in Sources, StoreBatch(i, s) \/ StoreRefuses(i, s)
      PROVE  ProcessTyped' /\ stored \subseteq stored'
  <2>1. inserts[i] \in Insert
    BY DEF Typed, WriterTyped
  <2>2. RowsOf(i, s) \subseteq Outcomes
    BY <2>1 DEF Insert, RowsOf
  <2>3. \E kept \in SUBSET RowsOf(i, s) : stored' = stored \union kept
    BY <1>1 DEF StoreBatch, StoreRefuses
  <2>4. UNCHANGED <<process, starts>>
    BY <1>1 DEF StoreBatch, StoreRefuses
  <2> QED
    BY <2>2, <2>3, <2>4 DEF Typed, ProcessTyped
<1>2. CASE Stop \/ Exit \/ Crash \/ Start
  BY <1>2, LimitsAssumption DEF Stop, Exit, Crash, Start, Typed, ProcessTyped
<1>3. CASE UNCHANGED <<stored, process, starts>>
  BY <1>3 DEF Typed, ProcessTyped
<1> QED
  BY <1>1, <1>2, <1>3
     DEF Next, CollectorStep, NormalizerStep, WriterStep, Drop, Look, Collect, Move, LookAgain,
         Normalize, Hand, AcknowledgeRaw, AcknowledgeOldest, EndTurn, Turn, CollectorFails,
         NormalizerFails, WriterFails, vars

(* A normalizer holds records of its topic, which only grows. *)
LEMMA ReceivedStays ==
    ASSUME Typed, Received, [Next]_vars
    PROVE  Received'
<1>1. \A s \in Sources : /\ Len(raw[s]) \in Nat /\ Len(raw'[s]) \in Nat /\ Len(raw[s]) <= Len(raw'[s])
                         /\ rawAt[s] \in Nat /\ through[s] \in Nat
  BY TopicsGrow DEF Extends, Typed, TopicsTyped, NormalizersTyped
<1>2. ASSUME NEW s \in Sources, Normalize(s) PROVE Received'
  <2>1. npc'[s] = "sending" =>
           /\ through'[s] \in Nat /\ rawAt[s] <= through'[s] /\ through'[s] <= Len(raw[s])
    BY <1>2, NormalizedWhole
  <2>2. npc'[s] # "sent" /\ UNCHANGED <<raw, rawAt>>
        /\ \A r \in Sources \ {s} : npc'[r] = npc[r] /\ through'[r] = through[r]
    BY <1>2 DEF Normalize, Typed, NormalizersTyped, topics
  <2> QED
    BY <1>1, <2>1, <2>2 DEF Received
<1>3. ASSUME NEW s \in Sources, AcknowledgeRaw(s) PROVE Received'
  BY <1>1, <1>3 DEF AcknowledgeRaw, Received, Typed, NormalizersTyped, TopicsTyped
<1>4. CASE Exit \/ Crash
  <2>1. UNCHANGED rawAt /\ \A s \in Sources : npc'[s] = "receiving"
    BY <1>4 DEF Exit, Crash, RolesAnew, topics
  <2> QED
    BY <1>1, <2>1 DEF Received
<1>5. ASSUME rawAt' = rawAt, through' = through,
             \A s \in Sources : npc'[s] \in {"sending", "sent"} => npc[s] \in {"sending", "sent"}
      PROVE  Received'
  BY <1>1, <1>5 DEF Received
<1>6. ASSUME NEW s \in Sources, Hand(s) \/ NormalizerFails(s) PROVE Received'
  <2>1. rawAt' = rawAt /\ through' = through
    BY <1>6 DEF Hand, NormalizerFails
  <2>2. \A r \in Sources : npc'[r] \in {"sending", "sent"} => npc[r] \in {"sending", "sent"}
    BY <1>6 DEF Hand, NormalizerFails, Typed, NormalizersTyped
  <2> QED
    BY <1>5, <2>1, <2>2
<1>7. CASE UNCHANGED <<rawAt, normalizers>>
  <2>1. rawAt' = rawAt /\ npc' = npc /\ through' = through
    BY <1>7 DEF normalizers
  <2> QED
    BY <1>5, <2>1
<1> QED
  BY <1>2, <1>3, <1>4, <1>6, <1>7
     DEF Next, CollectorStep, NormalizerStep, WriterStep, Drop, Look, Collect, Move, LookAgain,
         AcknowledgeOldest, EndTurn, Turn, StoreBatch, StoreRefuses, CollectorFails, WriterFails,
         Stop, Start, topics, vars

(* Inserts stay a chain. *)
LEMMA ChainStays ==
    ASSUME Typed, Chained, [Next]_vars
    PROVE  Chained'
<1>1. /\ Len(norm) \in Nat /\ Len(norm') \in Nat /\ Len(norm) <= Len(norm')
      /\ inserts \in Seq(Insert) /\ Len(inserts) \in Nat
      /\ from \in Nat /\ next \in Nat /\ normAt \in Nat
      /\ \A i \in 1..Len(inserts) : inserts[i].from \in Nat /\ inserts[i].to \in Nat
  <2>1. norm \in Seq(Outcomes) /\ norm' \in Seq(Outcomes) /\ Len(norm) <= Len(norm')
    BY TopicsGrow DEF Extends, Typed, TopicsTyped
  <2>2. inserts \in Seq(Insert) /\ from \in Nat /\ next \in Nat /\ normAt \in Nat
    BY DEF Typed, TopicsTyped, WriterTyped
  <2>3. \A i \in 1..Len(inserts) : inserts[i] \in Insert
    BY <2>2
  <2> QED
    BY <2>1, <2>2, <2>3 DEF Insert
<1>2. ASSUME NEW due \in BOOLEAN, Turn(due) PROVE Chained'
  <2>1. next' \in Nat /\ next <= next' /\ next' <= Len(norm) /\ UNCHANGED <<norm, normAt>>
    BY <1>2, TurnOfTheWriter DEF Turn, topics
  <2>2. CASE UNCHANGED <<from, inserts>>
    BY <1>1, <2>1, <2>2 DEF Chained
  <2>3. CASE from' = next' /\ from < next' /\ inserts' = Append(inserts, Started(next'))
    <3>1. Started(next') \in Insert /\ Started(next').from = from /\ Started(next').to = next'
      BY <2>1, StartedInsert DEF Started
    <3>2. /\ Len(inserts') = Len(inserts) + 1 /\ inserts'[Len(inserts) + 1] = Started(next')
          /\ \A i \in 1..Len(inserts) : inserts'[i] = inserts[i]
      <4> HIDE DEF Insert
      <4> QED
        BY <1>1, <2>3, <3>1, AppendProperties
    <3>3. inserts = <<>> <=> Len(inserts) = 0
      BY <1>1
    <3>4. inserts' # <<>>
      BY <1>1, <2>3, <3>2
    <3> HIDE DEF Insert
    <3>5. normAt <= from' /\ from' <= next' /\ next' <= Len(norm)
      BY <1>1, <2>1, <2>3 DEF Chained
    <3>6. \A i \in 1..Len(inserts') : inserts'[i].from <= inserts'[i].to /\ inserts'[i].to <= from'
      <4>1. TAKE i \in 1..Len(inserts')
      <4>2. CASE i \in 1..Len(inserts)
        BY <1>1, <2>1, <2>3, <3>2, <4>2 DEF Chained
      <4>3. CASE i \notin 1..Len(inserts)
        <5>1. i = Len(inserts) + 1
          BY <1>1, <3>2, <4>1, <4>3
        <5> QED
          BY <1>1, <2>1, <2>3, <3>1, <3>2, <5>1
      <4> QED
        BY <4>2, <4>3
    <3>7. \A i \in 1..(Len(inserts') - 1) : inserts'[i].to = inserts'[i + 1].from
      <4>1. TAKE i \in 1..(Len(inserts') - 1)
      <4>2. CASE i \in 1..(Len(inserts) - 1)
        <5>1. i \in 1..Len(inserts) /\ i + 1 \in 1..Len(inserts)
          BY <1>1, <4>2
        <5> QED
          BY <3>2, <4>2, <5>1 DEF Chained
      <4>3. CASE i \notin 1..(Len(inserts) - 1)
        <5>1. i = Len(inserts) /\ i \in 1..Len(inserts)
          BY <1>1, <3>2, <4>1, <4>3
        <5>2. inserts # <<>>
          BY <1>1, <5>1
        <5> QED
          BY <3>1, <3>2, <5>1, <5>2 DEF Chained
      <4> QED
        BY <4>2, <4>3
    <3>8. inserts'[1].from = normAt
      <4>1. CASE Len(inserts) = 0
        BY <3>1, <3>2, <3>3, <4>1 DEF Chained
      <4>2. CASE Len(inserts) # 0
        <5>1. 1 \in 1..Len(inserts) /\ inserts # <<>>
          BY <1>1, <4>2
        <5> QED
          BY <3>2, <5>1 DEF Chained
      <4> QED
        BY <4>1, <4>2
    <3>9. inserts'[Len(inserts')].to = from'
      BY <2>3, <3>1, <3>2
    <3> QED
      BY <2>1, <3>4, <3>5, <3>6, <3>7, <3>8, <3>9 DEF Chained
  <2> QED
    BY <1>2, <2>2, <2>3, TurnOfTheWriter
<1>3. CASE AcknowledgeOldest
  <2>1. CASE UNCHANGED <<normAt, inserts>>
    BY <1>1, <1>3, <2>1 DEF AcknowledgeOldest, Chained
  <2>2. CASE normAt' = Head(inserts).to /\ inserts' = Tail(inserts)
    <3>1. /\ inserts # <<>> /\ Len(inserts) >= 1 /\ UNCHANGED <<norm, from, next>>
      BY <1>1, <1>3 DEF AcknowledgeOldest
    <3>2. /\ normAt' = inserts[1].to /\ Len(inserts') = Len(inserts) - 1
          /\ \A i \in 1..(Len(inserts) - 1) : inserts'[i] = inserts[i + 1]
          /\ inserts' = <<>> <=> Len(inserts) = 1
      BY <2>2, <3>1, OldestInsert DEF Typed
    <3>3. inserts[1].from <= inserts[1].to /\ inserts[1].to <= from
      BY <1>1, <3>1 DEF Chained
    <3>4. CASE Len(inserts) = 1
      <4>1. inserts[1].to = from
        BY <3>1, <3>4 DEF Chained
      <4> QED
        BY <1>1, <3>1, <3>2, <3>3, <3>4, <4>1 DEF Chained
    <3>5. CASE Len(inserts) # 1
      <4>1. 1 \in 1..(Len(inserts) - 1) /\ Len(inserts) - 1 \in 1..(Len(inserts) - 1)
        BY <1>1, <3>1, <3>5
      <4>2. inserts[1].to = inserts[2].from /\ inserts[Len(inserts)].to = from
        BY <3>1, <4>1 DEF Chained
      <4>3. inserts'[1] = inserts[2] /\ inserts'[Len(inserts')] = inserts[Len(inserts)]
        BY <1>1, <3>2, <4>1
      <4>4. \A i \in 1..Len(inserts') : inserts'[i].from <= inserts'[i].to /\ inserts'[i].to <= from
        BY <1>1, <3>2, SMTT(30) DEF Chained
      <4>5. \A i \in 1..(Len(inserts') - 1) : inserts'[i].to = inserts'[i + 1].from
        <5>1. TAKE i \in 1..(Len(inserts') - 1)
        <5>2. i \in 1..(Len(inserts) - 1) /\ i + 1 \in 1..(Len(inserts) - 1)
          BY <1>1, <3>2
        <5>3. inserts'[i] = inserts[i + 1] /\ inserts'[i + 1] = inserts[(i + 1) + 1]
          BY <3>2, <5>2
        <5> QED
          BY <5>2, <5>3 DEF Chained
      <4> QED
        BY <1>1, <3>1, <3>2, <3>3, <3>5, <4>2, <4>3, <4>4, <4>5 DEF Chained
    <3> QED
      BY <3>4, <3>5
  <2> QED
    BY <1>3, <2>1, <2>2 DEF AcknowledgeOldest
<1>4. ASSUME NEW i \in DOMAIN inserts, NEW s \in Sources, StoreBatch(i, s) \/ StoreRefuses(i, s)
      PROVE  Chained'
  <2>1. UNCHANGED <<normAt, norm, from, next>>
    BY <1>4 DEF StoreBatch, StoreRefuses, topics
  <2>2. inserts' \in Seq(Insert) /\ Len(inserts') = Len(inserts)
    BY <1>4, InsertGoesOn DEF Typed
  <2>3. \A j \in 1..Len(inserts) : inserts'[j].from = inserts[j].from /\ inserts'[j].to = inserts[j].to
    BY <1>4, InsertGoesOn DEF Typed
  <2>4. /\ inserts' = <<>> <=> inserts = <<>>
        /\ inserts # <<>> => 1 \in 1..Len(inserts) /\ Len(inserts) \in 1..Len(inserts)
    BY <1>1, <2>2
  <2> HIDE DEF Insert
  <2>5. normAt <= from /\ from <= next /\ next <= Len(norm')
    BY <1>1, <2>1 DEF Chained
  <2>6. \A j \in 1..Len(inserts) : inserts'[j].from <= inserts'[j].to /\ inserts'[j].to <= from
    BY <2>3 DEF Chained
  <2>7. \A j \in 1..(Len(inserts) - 1) : inserts'[j].to = inserts'[j + 1].from
    <3>1. TAKE j \in 1..(Len(inserts) - 1)
    <3>2. j \in 1..Len(inserts) /\ j + 1 \in 1..Len(inserts)
      BY <1>1
    <3> QED
      BY <2>3, <3>1, <3>2 DEF Chained
  <2>8. inserts # <<>> => inserts'[1].from = normAt /\ inserts'[Len(inserts)].to = from
    BY <2>3, <2>4 DEF Chained
  <2> QED
    BY <2>1, <2>2, <2>4, <2>5, <2>6, <2>7, <2>8 DEF Chained
<1>5. CASE Exit \/ Crash
  BY <1>1, <1>5 DEF Exit, Crash, RolesAnew, Chained, topics
<1>6. CASE UNCHANGED <<normAt, from, next, inserts>>
  BY <1>1, <1>6 DEF Chained
<1> QED
  BY <1>2, <1>3, <1>4, <1>5, <1>6
     DEF Next, CollectorStep, NormalizerStep, WriterStep, Drop, Look, Collect, Move, LookAgain,
         Normalize, Hand, AcknowledgeRaw, EndTurn, CollectorFails, NormalizerFails, WriterFails,
         Stop, Start, topics, writer, vars

-----------------------------------------------------------------------------
(* What an insert is of is stored, but for what is left of it. *)
Covered ==
    \A i \in 1..Len(inserts) :
        \A o \in (inserts[i].from + 1)..inserts[i].to :
            norm[o] \in stored \union inserts[i].left

(* A turn begins where another insert may be started. *)
Bounded == WriterIsBounded /\ (wpc = "turning" => MayStart)

(* Nothing that was stored or is ahead of the writer ceases to be, and the  *)
(* writer passes what is stored.                                           *)
LEMMA WriterPassesStored ==
    ASSUME Typed, Chained, Covered, [Next]_vars
    PROVE  /\ normAt <= normAt' /\ normAt' <= Len(norm)
           /\ \A o \in (normAt + 1)..normAt' : norm[o] \in stored'
<1>1. normAt \in Nat /\ from \in Nat /\ next \in Nat /\ normAt <= from /\ from <= Len(norm) /\ Len(norm) \in Nat
  BY DEF Typed, TopicsTyped, WriterTyped, Chained
<1>2. CASE AcknowledgeOldest /\ normAt' # normAt
  <2>1. /\ inserts # <<>> /\ Finished(Head(inserts)) /\ ~Head(inserts).failed
        /\ normAt' = Head(inserts).to /\ stored' = stored
    BY <1>2 DEF AcknowledgeOldest
  <2>2. Head(inserts) = inserts[1] /\ 1 \in 1..Len(inserts) /\ inserts[1] \in Insert
    BY <2>1, OldestInsert DEF Typed, WriterTyped
  <2>3. /\ inserts[1].left = {} /\ inserts[1].from = normAt
        /\ inserts[1].from <= inserts[1].to /\ inserts[1].to <= from
    BY <2>1, <2>2 DEF Finished, Chained
  <2> QED
    BY <1>1, <2>1, <2>2, <2>3 DEF Covered, Insert
<1>3. CASE normAt' = normAt
  BY <1>1, <1>3
<1> QED
  BY <1>2, <1>3
     DEF Next, CollectorStep, NormalizerStep, WriterStep, Drop, Look, Collect, Move, LookAgain,
         Normalize, Hand, AcknowledgeRaw, EndTurn, Turn, StoreBatch, StoreRefuses, CollectorFails,
         NormalizerFails, WriterFails, Stop, Exit, Crash, Start, topics, vars

(* What is acknowledged was stored before. *)
LEMMA AcknowledgedStaysStored ==
    ASSUME Typed, Chained, Covered, AcknowledgedIsStored, [Next]_vars
    PROVE  AcknowledgedIsStored'
<1>1. /\ normAt \in Nat /\ normAt' \in Nat /\ normAt' <= Len(norm) /\ stored \subseteq stored'
      /\ \A o \in (normAt + 1)..normAt' : norm[o] \in stored'
      /\ \A o \in 1..Len(norm) : norm'[o] = norm[o]
  BY TopicsGrow, WriterPassesStored, ProcessStaysTyped DEF Extends, Typed, TopicsTyped
<1>2. \A o \in 1..normAt : norm[o] \in stored
  BY DEF AcknowledgedIsStored
<1> SUFFICES ASSUME NEW o \in 1..normAt' PROVE norm'[o] \in stored'
  BY DEF AcknowledgedIsStored
<1>3. o \in 1..Len(norm) /\ (o \in 1..normAt \/ o \in (normAt + 1)..normAt')
  BY <1>1 DEF Typed, TopicsTyped
<1> QED
  BY <1>1, <1>2, <1>3

(* An insert goes on being of what is stored and what is left. *)
LEMMA CoverStays ==
    ASSUME Typed, Chained, Covered, [Next]_vars
    PROVE  Covered'
<1>1. /\ inserts \in Seq(Insert) /\ Len(inserts) \in Nat /\ from \in Nat
      /\ \A i \in 1..Len(inserts) : inserts[i] \in Insert
  BY DEF Typed, WriterTyped
<1>2. /\ stored \subseteq stored'
      /\ \A i \in 1..Len(inserts) : \A o \in (inserts[i].from + 1)..inserts[i].to :
            norm'[o] = norm[o]
  <2>1. \A i \in 1..Len(inserts) : /\ inserts[i].from \in Nat /\ inserts[i].to \in Nat
                                   /\ inserts[i].to <= from
    BY <1>1 DEF Insert, Chained
  <2>2. from \in Nat /\ next \in Nat /\ Len(norm) \in Nat /\ from <= next /\ next <= Len(norm)
    BY DEF Typed, WriterTyped, TopicsTyped, Chained
  <2>3. \A o \in 1..Len(norm) : norm'[o] = norm[o]
    BY TopicsGrow DEF Extends
  <2> QED
    BY <2>1, <2>2, <2>3, ProcessStaysTyped
<1>3. ASSUME NEW due \in BOOLEAN, Turn(due) PROVE Covered'
  <2>1. CASE inserts' = inserts
    BY <1>2, <2>1 DEF Covered
  <2>2. CASE inserts' # inserts
    <3>1. /\ inserts' = Append(inserts, Started(next')) /\ Started(next') \in Insert
          /\ UNCHANGED <<norm, stored>>
      BY <1>3, <2>2, TurnOfTheWriter, StartedInsert DEF Turn, topics
    <3>2. /\ Len(inserts') = Len(inserts) + 1 /\ inserts'[Len(inserts) + 1] = Started(next')
          /\ \A i \in 1..Len(inserts) : inserts'[i] = inserts[i]
      <4> HIDE DEF Insert
      <4> QED
        BY <1>1, <3>1, AppendProperties
    <3>3. \A o \in (Started(next').from + 1)..Started(next').to : norm[o] \in Started(next').left
      BY DEF Started
    <3> QED
      BY <1>1, <3>1, <3>2, <3>3 DEF Covered
  <2> QED
    BY <2>1, <2>2
<1>4. CASE AcknowledgeOldest
  <2>1. inserts # <<>> /\ inserts' \in {inserts, Tail(inserts)}
    BY <1>4 DEF AcknowledgeOldest
  <2>2. CASE inserts' = inserts
    BY <1>2, <2>2 DEF Covered
  <2>3. CASE inserts' = Tail(inserts)
    <3>1. /\ Len(inserts') = Len(inserts) - 1
          /\ \A i \in 1..(Len(inserts) - 1) : inserts'[i] = inserts[i + 1]
      BY <2>1, <2>3, OldestInsert DEF Typed
    <3> QED
      BY <1>1, <1>2, <3>1 DEF Covered
  <2> QED
    BY <2>1, <2>2, <2>3
<1>5. ASSUME NEW i \in DOMAIN inserts, NEW s \in Sources, StoreBatch(i, s) \/ StoreRefuses(i, s)
      PROVE  Covered'
  <2>1. /\ Len(inserts') = Len(inserts)
        /\ \A j \in 1..Len(inserts) :
              /\ inserts'[j].from = inserts[j].from /\ inserts'[j].to = inserts[j].to
              /\ inserts[j].left \subseteq inserts'[j].left \union stored'
    BY <1>5, InsertGoesOn DEF Typed
  <2> QED
    BY <1>2, <2>1 DEF Covered
<1>6. CASE Exit \/ Crash
  BY <1>6 DEF Exit, Crash, RolesAnew, Covered
<1>7. CASE inserts' = inserts
  BY <1>2, <1>7 DEF Covered
<1> QED
  BY <1>3, <1>4, <1>5, <1>6, <1>7
     DEF Next, CollectorStep, NormalizerStep, WriterStep, Drop, Look, Collect, Move, LookAgain,
         Normalize, Hand, AcknowledgeRaw, EndTurn, CollectorFails, NormalizerFails, WriterFails,
         Stop, Start, writer, vars

(* The writer holds a bounded number of records: it receives only where it  *)
(* may start another insert, and hands over what fills one.                *)
LEMMA BoundStays ==
    ASSUME Typed, Chained, Bounded, [Next]_vars
    PROVE  Bounded'
<1>1. /\ inserts \in Seq(Insert) /\ Len(inserts) \in Nat /\ from \in Nat /\ next \in Nat
      /\ \A i \in 1..Len(inserts) : inserts[i] \in Insert
      /\ MaxRows \in Nat \ {0} /\ WriteBatch \in Nat \ {0} /\ Inserts \in Nat \ {0}
  BY LimitsAssumption DEF Typed, WriterTyped
<1>2. ASSUME NEW due \in BOOLEAN, Turn(due) PROVE Bounded'
  <2> DEFINE to == next'
  <2>1. /\ to \in Nat /\ to < next + WriteBatch + 1 /\ next - from < MaxRows
        /\ process = "stopping" \/ ~MayStart => to = next
    BY <1>2, TurnOfTheWriter DEF Bounded, WriterIsBounded
  <2>2. wpc = "turning" /\ wpc' = "acknowledging" /\ MayStart
    BY <1>2 DEF Turn, Bounded
  <2>3. CASE /\ UNCHANGED <<from, inserts>>
             /\ process # "stopping" /\ MayStart => to < from + MaxRows
    <3>1. to - from < MaxRows
      <4>1. to = next \/ to < from + MaxRows
        BY <2>1, <2>3
      <4> HIDE DEF to
      <4> QED
        BY <1>1, <2>1, <4>1
    <3> QED
      BY <2>2, <2>3, <3>1 DEF Bounded, WriterIsBounded
  <2>4. CASE from' = next' /\ from < next' /\ inserts' = Append(inserts, Started(to))
    <3>1. Started(to) \in Insert /\ Started(to).to - Started(to).from < MaxRows + WriteBatch
      <4>1. Started(to) \in Insert
        BY <1>2, <2>1, TurnOfTheWriter, StartedInsert
      <4> HIDE DEF to
      <4>2. Started(to).from = from /\ Started(to).to = to
        BY DEF Started
      <4>3. to - from < MaxRows + WriteBatch
        BY <1>1, <2>1
      <4> QED
        BY <4>1, <4>2, <4>3
    <3>2. /\ Len(inserts') = Len(inserts) + 1 /\ inserts'[Len(inserts) + 1] = Started(next')
          /\ \A i \in 1..Len(inserts) : inserts'[i] = inserts[i]
      <4> HIDE DEF Insert
      <4> QED
        BY <1>1, <2>4, <3>1, AppendProperties
    <3>3. Len(inserts') <= Inserts
      BY <1>1, <2>2, <3>2 DEF MayStart
    <3>4. \A i \in 1..Len(inserts') : inserts'[i].to - inserts'[i].from < MaxRows + WriteBatch
      <4>1. TAKE i \in 1..Len(inserts')
      <4>2. CASE i \in 1..Len(inserts)
        BY <3>2, <4>2 DEF Bounded, WriterIsBounded
      <4>3. CASE i \notin 1..Len(inserts)
        <5>1. i = Len(inserts) + 1
          BY <1>1, <3>2, <4>1, <4>3
        <5> QED
          BY <3>1, <3>2, <5>1
      <4> QED
        BY <4>2, <4>3
    <3>5. next' - from' < MaxRows
      <4>1. from' = to
        BY <2>4
      <4> HIDE DEF to
      <4>2. to - to < MaxRows
        BY <1>1, <2>1
      <4> QED
        BY <4>1, <4>2 DEF to
    <3>6. DOMAIN inserts' = 1..Len(inserts')
      BY <1>1, <2>4, <3>1
    <3> QED
      BY <2>2, <3>3, <3>4, <3>5, <3>6 DEF Bounded, WriterIsBounded
  <2> QED
    BY <1>2, <2>3, <2>4, TurnOfTheWriter
<1>3. CASE AcknowledgeOldest
  <2>1. /\ inserts # <<>> /\ inserts' \in {inserts, Tail(inserts)} /\ UNCHANGED <<from, next>>
        /\ wpc' # "turning"
    BY <1>3 DEF AcknowledgeOldest
  <2>2. CASE inserts' = inserts
    BY <2>1, <2>2 DEF Bounded, WriterIsBounded
  <2>3. CASE inserts' = Tail(inserts)
    <3>1. /\ inserts' \in Seq(Insert) /\ Len(inserts') = Len(inserts) - 1
          /\ \A i \in 1..(Len(inserts) - 1) : inserts'[i] = inserts[i + 1]
      BY <2>1, <2>3, OldestInsert DEF Typed
    <3> QED
      BY <1>1, <2>1, <3>1, SMTT(30) DEF Bounded, WriterIsBounded
  <2> QED
    BY <2>1, <2>2, <2>3
<1>4. CASE EndTurn
  <2>1. inserts = <<>> => MayStart
    BY <1>1 DEF MayStart
  <2> QED
    BY <1>4, <2>1 DEF EndTurn, Bounded, WriterIsBounded, MayStart
<1>5. ASSUME NEW i \in DOMAIN inserts, NEW s \in Sources, StoreBatch(i, s) \/ StoreRefuses(i, s)
      PROVE  Bounded'
  <2>1. /\ Len(inserts') = Len(inserts) /\ inserts' \in Seq(Insert)
        /\ \A j \in 1..Len(inserts) :
              inserts'[j].from = inserts[j].from /\ inserts'[j].to = inserts[j].to
    BY <1>5, InsertGoesOn DEF Typed
  <2>2. UNCHANGED <<wpc, from, next>>
    BY <1>5 DEF StoreBatch, StoreRefuses
  <2> QED
    BY <1>1, <2>1, <2>2 DEF Bounded, WriterIsBounded, MayStart
<1>6. CASE Exit \/ Crash
  <2>1. from' = normAt /\ next' = normAt /\ inserts' = <<>> /\ normAt \in Nat
    BY <1>6 DEF Exit, Crash, RolesAnew, Typed, TopicsTyped
  <2> QED
    BY <1>1, <2>1 DEF Bounded, WriterIsBounded, MayStart
<1>7. CASE UNCHANGED <<from, next, inserts>> /\ wpc' \in {wpc, "ended"}
  BY <1>7 DEF Bounded, WriterIsBounded, MayStart
<1> QED
  BY <1>2, <1>3, <1>4, <1>5, <1>6, <1>7
     DEF Next, CollectorStep, NormalizerStep, WriterStep, Drop, Look, Collect, Move, LookAgain,
         Normalize, Hand, AcknowledgeRaw, CollectorFails, NormalizerFails, WriterFails,
         Stop, Start, writer, vars

-----------------------------------------------------------------------------
(* What keeps the content of a file: its bytes are ahead of the normalizer, *)
(* or each outcome is stored or ahead of the writer.                       *)
Ahead(f) ==
    \E o \in (rawAt[SourceOf[f]] + 1)..Len(raw[SourceOf[f]]) : raw[SourceOf[f]][o] = f
HandedOn(f) ==
    \A outcome \in Range(OutcomesOf(f)) :
        outcome \in stored \/ \E o \in (normAt + 1)..Len(norm) : norm[o] = outcome
Kept(f) == Ahead(f) \/ HandedOn(f)

(* What a collector is about to move away is kept... *)
CollectingOf(s) ==
    /\ \A f \in listed[s] : SourceOf[f] = s
    /\ cpc[s] = "moving" => listed[s] # {} /\ Kept(Oldest(s))
Collecting == \A s \in Sources : CollectingOf(s)

(* ... and what a normalizer is about to acknowledge was handed on. *)
NormalizingOf(s) ==
    /\ npc[s] = "sending" =>
          \A o \in (rawAt[s] + 1)..through[s] :
              Range(OutcomesOf(raw[s][o])) \subseteq Range(batch[s])
    /\ npc[s] = "sent" => \A o \in (rawAt[s] + 1)..through[s] : HandedOn(raw[s][o])
Normalizing == \A s \in Sources : NormalizingOf(s)

(* What was handed on is stored before the writer acknowledges it. *)
LEMMA HandedOnStays ==
    ASSUME Typed, Chained, Covered, [Next]_vars, NEW f, HandedOn(f)
    PROVE  HandedOn(f)'
<1>1. /\ stored \subseteq stored' /\ normAt \in Nat /\ normAt' \in Nat
      /\ Len(norm) \in Nat /\ Len(norm') \in Nat /\ Len(norm) <= Len(norm')
      /\ \A o \in 1..Len(norm) : norm'[o] = norm[o]
      /\ \A o \in (normAt + 1)..normAt' : norm[o] \in stored'
  BY TopicsGrow, WriterPassesStored, ProcessStaysTyped DEF Extends, Typed, TopicsTyped
<1> SUFFICES ASSUME NEW outcome \in Range(OutcomesOf(f)), outcome \notin stored'
             PROVE  \E o \in (normAt' + 1)..Len(norm') : norm'[o] = outcome
  BY DEF HandedOn
<1>2. PICK o \in (normAt + 1)..Len(norm) : norm[o] = outcome
  BY <1>1 DEF HandedOn
<1>3. o \in 1..Len(norm) /\ norm'[o] = outcome
  BY <1>1, <1>2
<1>4. o \in Nat /\ normAt + 1 <= o /\ o <= Len(norm)
  BY <1>1, <1>2
<1>5. o \in (normAt' + 1)..Len(norm')
  <2> DEFINE at == normAt'
             end == Len(norm')
  <2>1. o \notin (normAt + 1)..at
    BY <1>1, <1>2
  <2>2. at \in Nat /\ end \in Nat /\ Len(norm) <= end
    BY <1>1
  <2> HIDE DEF at, end
  <2>3. o \in (at + 1)..end
    BY <1>1, <1>4, <2>1, <2>2
  <2> QED
    BY <2>3 DEF at, end
<1> QED
  BY <1>3, <1>5

(* Only a normalizer that handed them on acknowledges records. *)
LEMMA AcknowledgedByTheNormalizer ==
    ASSUME Typed, [Next]_vars, NEW s \in Sources, rawAt'[s] # rawAt[s]
    PROVE  npc[s] = "sent" /\ rawAt'[s] = through[s]
<1>1. ASSUME NEW r \in Sources, AcknowledgeRaw(r) PROVE npc[s] = "sent" /\ rawAt'[s] = through[s]
  BY <1>1 DEF AcknowledgeRaw, Typed, TopicsTyped
<1>2. CASE UNCHANGED rawAt
  BY <1>2
<1> QED
  BY <1>1, <1>2
     DEF Next, CollectorStep, NormalizerStep, WriterStep, Drop, Look, Collect, Move, LookAgain,
         Normalize, Hand, AcknowledgeOldest, EndTurn, Turn, StoreBatch, StoreRefuses,
         CollectorFails, NormalizerFails, WriterFails, Stop, Exit, Crash, Start, topics, vars

(* What is kept stays so: bytes are acknowledged once they were handed on. *)
LEMMA KeptStays ==
    ASSUME Typed, Received, Chained, Covered, Normalizing, [Next]_vars,
           NEW f \in Files, Kept(f)
    PROVE  Kept(f)'
<1> DEFINE s == SourceOf[f]
<1>1. CASE HandedOn(f)
  BY <1>1, HandedOnStays DEF Kept
<1>2. CASE Ahead(f)
  <2>1. s \in Sources
    BY FilesAssumption
  <2>2. PICK o \in (rawAt[s] + 1)..Len(raw[s]) : raw[s][o] = f
    BY <1>2 DEF Ahead
  <2> HIDE DEF s
  <2>3. /\ rawAt[s] \in Nat /\ rawAt'[s] \in Nat /\ through[s] \in Nat
        /\ Len(raw[s]) \in Nat /\ Len(raw'[s]) \in Nat /\ Len(raw[s]) <= Len(raw'[s])
        /\ raw'[s][o] = raw[s][o]
    BY <2>1, <2>2, TopicsGrow DEF Extends, Typed, TopicsTyped, NormalizersTyped
  <2>4. CASE rawAt'[s] < o
    <3>1. o \in (rawAt'[s] + 1)..Len(raw'[s]) /\ raw'[s][o] = f
      BY <2>2, <2>3, <2>4
    <3> QED
      BY <3>1 DEF s, Ahead, Kept
  <2>5. CASE o <= rawAt'[s]
    <3>1. npc[s] = "sent" /\ rawAt'[s] = through[s]
      BY <2>1, <2>2, <2>3, <2>5, AcknowledgedByTheNormalizer
    <3>2. o \in (rawAt[s] + 1)..through[s]
      BY <2>2, <2>3, <2>5, <3>1
    <3>3. HandedOn(raw[s][o])
      BY <2>1, <3>1, <3>2 DEF Normalizing, NormalizingOf
    <3> QED
      BY <2>2, <3>3, HandedOnStays DEF Kept
  <2> QED
    BY <2>2, <2>3, <2>4, <2>5
<1> QED
  BY <1>1, <1>2 DEF Kept

(* A normalizer that does not step, while others do, is about to            *)
(* acknowledge what was handed on.                                         *)
LEMMA NormalizerWaits ==
    ASSUME Typed, Received, Chained, Covered, [Next]_vars, NEW s \in Sources, NormalizingOf(s),
           UNCHANGED <<npc[s], batch[s], through[s], rawAt[s]>>
    PROVE  NormalizingOf(s)'
<1>1. /\ rawAt[s] \in Nat /\ through[s] \in Nat /\ Len(raw[s]) \in Nat
      /\ \A o \in 1..Len(raw[s]) : raw'[s][o] = raw[s][o]
  <2>1. Extends(raw[s], raw'[s])
    BY TopicsGrow
  <2> QED
    BY <2>1 DEF Extends, Typed, TopicsTyped, NormalizersTyped
<1>2. CASE npc[s] \in {"sending", "sent"}
  <2>1. \A o \in (rawAt[s] + 1)..through[s] : raw'[s][o] = raw[s][o]
    BY <1>1, <1>2 DEF Received
  <2>2. CASE npc[s] = "sending"
    BY <2>1, <2>2 DEF NormalizingOf, OutcomesOf
  <2>3. CASE npc[s] = "sent"
    <3>1. SUFFICES ASSUME NEW o \in (rawAt[s] + 1)..through[s], NEW f, f = raw[s][o]
                   PROVE  HandedOn(f)' /\ raw'[s][o] = f
      BY <2>3 DEF NormalizingOf, HandedOn, OutcomesOf
    <3> QED
      BY <2>1, <2>3, <3>1, HandedOnStays DEF NormalizingOf
  <2> QED
    BY <1>2, <2>2, <2>3
<1>3. CASE npc[s] \notin {"sending", "sent"}
  BY <1>3 DEF NormalizingOf
<1> QED
  BY <1>2, <1>3

(* Normalizers go on acknowledging what was handed on. *)
LEMMA NormalizingStays ==
    ASSUME Typed, Received, Chained, Covered, Normalizing, [Next]_vars
    PROVE  Normalizing'
<1>0. SUFFICES ASSUME NEW s \in Sources PROVE NormalizingOf(s)'
  BY DEF Normalizing
<1>1. NormalizingOf(s)
  BY DEF Normalizing
<1>2. CASE UNCHANGED <<npc[s], batch[s], through[s], rawAt[s]>>
  BY <1>1, <1>2, NormalizerWaits
<1>3. CASE npc'[s] \notin {"sending", "sent"}
  BY <1>3 DEF NormalizingOf
<1>4. CASE Normalize(s)
  <2>1. CASE npc'[s] = "sending"
    <3>1. UNCHANGED <<raw, rawAt>>
      BY <1>4 DEF Normalize, topics
    <3>2. \A o \in (rawAt[s] + 1)..through'[s] :
             Range(OutcomesOf(raw[s][o])) \subseteq Range(batch'[s])
      BY <1>4, <2>1, NormalizedWhole
    <3> QED
      BY <2>1, <3>1, <3>2 DEF NormalizingOf, OutcomesOf
  <2> QED
    BY <1>3, <1>4, <2>1 DEF Normalize, Typed, NormalizersTyped
<1>5. CASE Hand(s)
  <2>1. /\ npc[s] = "sending" /\ npc'[s] = "sent" /\ norm' = norm \o batch[s]
        /\ UNCHANGED <<raw, rawAt, normAt, through>>
    BY <1>5 DEF Hand, Typed, NormalizersTyped
  <2>2. /\ norm \in Seq(Outcomes) /\ batch[s] \in Seq(Outcomes) /\ normAt \in Nat
        /\ normAt <= Len(norm)
    BY DEF Typed, TopicsTyped, WriterTyped, NormalizersTyped, Chained
  <2>3. \A outcome \in Range(batch[s]) :
           \E o \in (normAt + 1)..Len(norm') : norm'[o] = outcome
    <3>1. SUFFICES ASSUME NEW k \in 1..Len(batch[s])
                   PROVE  \E o \in (normAt + 1)..Len(norm') : norm'[o] = batch[s][k]
      <4>1. \A outcome \in Range(batch[s]) : \E k \in 1..Len(batch[s]) : outcome = batch[s][k]
        BY <2>2 DEF Range
      <4> QED
        BY <4>1
    <3>2. /\ Len(norm) + k \in (normAt + 1)..Len(norm \o batch[s])
          /\ (norm \o batch[s])[Len(norm) + k] = batch[s][k]
      BY <2>2, ConcatProperties
    <3> QED
      BY <2>1, <3>2
  <2>0. npc'[s] = "sent" /\ rawAt' = rawAt /\ through' = through /\ raw' = raw
    BY <2>1
  <2>4. SUFFICES ASSUME NEW o \in (rawAt[s] + 1)..through[s], NEW f, f = raw[s][o]
                 PROVE  HandedOn(f)' /\ raw'[s][o] = f
    BY <2>0 DEF NormalizingOf, HandedOn, OutcomesOf
  <2>5. Range(OutcomesOf(f)) \subseteq Range(batch[s])
    BY <1>1, <2>1, <2>4 DEF NormalizingOf
  <2> QED
    BY <2>1, <2>3, <2>4, <2>5 DEF HandedOn, OutcomesOf
<1>6. CASE AcknowledgeRaw(s) \/ NormalizerFails(s) \/ Exit \/ Crash
  BY <1>3, <1>6
     DEF AcknowledgeRaw, NormalizerFails, Exit, Crash, RolesAnew, Typed, NormalizersTyped
<1>7. ASSUME NEW r \in Sources \ {s}, NormalizerStep(r) \/ NormalizerFails(r)
      PROVE  UNCHANGED <<npc[s], batch[s], through[s], rawAt[s]>>
  BY <1>7 DEF NormalizerStep, Normalize, Hand, AcknowledgeRaw, NormalizerFails, Typed,
              NormalizersTyped, TopicsTyped, topics
<1>8. CASE UNCHANGED <<normalizers, rawAt>>
  BY <1>2, <1>8 DEF normalizers
<1> QED
  BY <1>2, <1>4, <1>5, <1>6, <1>7, <1>8
     DEF Next, CollectorStep, NormalizerStep, WriterStep, Drop, Look, Collect, Move, LookAgain,
         AcknowledgeOldest, EndTurn, Turn, StoreBatch, StoreRefuses, CollectorFails,
         WriterFails, Stop, Start, topics, vars

(* Collectors go on moving away what is kept. *)
LEMMA CollectingStays ==
    ASSUME Typed, Received, Chained, Covered, Normalizing, Collecting, [Next]_vars
    PROVE  Collecting'
<1>0. SUFFICES ASSUME NEW s \in Sources PROVE CollectingOf(s)'
  BY DEF Collecting
<1>1. CollectingOf(s)
  BY DEF Collecting
<1>2. CASE UNCHANGED <<cpc[s], listed[s]>>
  <2>1. CASE cpc[s] = "moving"
    <3>1. PICK f \in Files : f = Oldest(s) /\ Kept(f)
      BY <1>1, <2>1, OldestIsListed DEF CollectingOf, Typed, FilesTyped
    <3>2. Kept(f)' /\ Oldest(s)' = f
      BY <1>2, <3>1, KeptStays DEF Oldest, Min
    <3>3. Kept(Oldest(s))'
      BY <3>2 DEF Kept, Ahead, HandedOn, OutcomesOf
    <3> QED
      BY <1>1, <1>2, <3>3 DEF CollectingOf
  <2>2. CASE cpc[s] # "moving"
    BY <1>1, <1>2, <2>2 DEF CollectingOf
  <2> QED
    BY <2>1, <2>2
<1>3. ASSUME cpc'[s] # "moving", listed'[s] \subseteq listed[s] PROVE CollectingOf(s)'
  BY <1>1, <1>3 DEF CollectingOf
<1>4. CASE Look(s)
  <2>1. listed' = [listed EXCEPT ![s] = {f \in Files : SourceOf[f] = s /\ place[f] = "inbox"}]
        \/ listed' = listed
    BY <1>4 DEF Look
  <2>2. cpc'[s] # "moving" /\ \A f \in listed'[s] : SourceOf[f] = s
    BY <1>1, <1>4, <2>1 DEF Look, CollectingOf, Typed, FilesTyped
  <2> QED
    BY <2>2 DEF CollectingOf
<1>5. CASE Collect(s)
  <2>1. CASE Oldest(s) \in TooLarge
    <3>1. cpc'[s] # "moving" /\ listed'[s] \subseteq listed[s]
      BY <1>5, <2>1 DEF Collect, Typed, FilesTyped
    <3> QED
      BY <1>3, <3>1
  <2>2. CASE Oldest(s) \notin TooLarge
    <3>1. /\ listed[s] # {} /\ raw' = [raw EXCEPT ![s] = Append(@, Oldest(s))]
          /\ UNCHANGED <<listed, rawAt>>
      BY <1>5, <2>2 DEF Collect
    <3>2. PICK f \in listed[s] : f = Oldest(s)
      BY <3>1, OldestIsListed DEF Typed
    <3>3. /\ raw[s] \in Seq(Files) /\ f \in Files /\ SourceOf[f] = s
          /\ rawAt[s] \in Nat /\ rawAt[s] <= Len(raw[s])
      BY <1>1, <3>2 DEF CollectingOf, Typed, FilesTyped, TopicsTyped, Received
    <3>4. raw'[s] = Append(raw[s], f)
      BY <3>1, <3>2 DEF Typed, TopicsTyped
    <3>5. Len(raw'[s]) \in (rawAt'[s] + 1)..Len(raw'[s]) /\ raw'[s][Len(raw'[s])] = f
      BY <3>1, <3>3, <3>4, AppendProperties
    <3>6. Kept(f)' /\ Oldest(s)' = f
      BY <3>1, <3>2, <3>3, <3>5 DEF Kept, Ahead, Oldest, Min
    <3>7. Kept(Oldest(s))'
      BY <3>6 DEF Kept, Ahead, HandedOn, OutcomesOf
    <3> QED
      BY <1>1, <3>1, <3>7 DEF CollectingOf
  <2> QED
    BY <2>1, <2>2
<1>6. CASE Move(s) \/ LookAgain(s) \/ CollectorFails(s) \/ Exit \/ Crash
  <2>1. cpc'[s] # "moving" /\ listed'[s] \subseteq listed[s]
    BY <1>6 DEF Move, LookAgain, CollectorFails, Exit, Crash, RolesAnew, Typed, FilesTyped
  <2> QED
    BY <1>3, <2>1
<1>7. ASSUME NEW r \in Sources \ {s}, CollectorStep(r) \/ CollectorFails(r)
      PROVE  UNCHANGED <<cpc[s], listed[s]>>
  BY <1>7 DEF CollectorStep, Look, Collect, Move, LookAgain, CollectorFails, Typed, FilesTyped
<1>8. CASE UNCHANGED collectors
  BY <1>2, <1>8 DEF collectors
<1> QED
  BY <1>2, <1>4, <1>5, <1>6, <1>7, <1>8
     DEF Next, CollectorStep, NormalizerStep, WriterStep, Drop, Normalize, Hand, AcknowledgeRaw,
         AcknowledgeOldest, EndTurn, Turn, StoreBatch, StoreRefuses, NormalizerFails,
         WriterFails, Stop, Start, vars

(* A file is moved away once it is kept, and is kept from then on. *)
LEMMA CollectedIsKept ==
    ASSUME Typed, Received, Chained, Covered, Normalizing, Collecting, NothingCollectedIsLost,
           [Next]_vars
    PROVE  NothingCollectedIsLost'
<1>0. SUFFICES ASSUME NEW f \in Files, place'[f] = "done" PROVE Kept(f)'
  BY DEF NothingCollectedIsLost, Kept, Ahead, HandedOn
<1>1. CASE place[f] = "done"
  <2>1. Kept(f)
    BY <1>1 DEF NothingCollectedIsLost, Kept, Ahead, HandedOn
  <2> QED
    BY <2>1, KeptStays
<1>2. ASSUME NEW s \in Sources, Move(s), place[f] # "done" PROVE Kept(f)'
  <2>1. f = Oldest(s) /\ cpc[s] = "moving"
    BY <1>0, <1>2 DEF Move, Typed, FilesTyped
  <2>2. Kept(f)
    BY <2>1 DEF Collecting, CollectingOf
  <2> QED
    BY <2>2, KeptStays
<1>3. ASSUME NEW s \in Sources, Collect(s) PROVE place[f] = "done"
  BY <1>0, <1>3 DEF Collect, Typed, FilesTyped
<1>4. ASSUME NEW g \in Files, Drop(g) PROVE place[f] = "done"
  BY <1>0, <1>4 DEF Drop, Typed, FilesTyped
<1>5. CASE UNCHANGED place
  BY <1>0, <1>1, <1>5
<1> QED
  BY <1>1, <1>2, <1>3, <1>4, <1>5
     DEF Next, CollectorStep, NormalizerStep, WriterStep, Look, LookAgain, Normalize, Hand,
         AcknowledgeRaw, AcknowledgeOldest, EndTurn, Turn, StoreBatch, StoreRefuses,
         CollectorFails, NormalizerFails, WriterFails, Stop, Exit, Crash, Start, vars

-----------------------------------------------------------------------------
(* While the process that was started first runs, a collector takes a file *)
(* that is in its inbox, sends it once and moves it away...                *)
FirstRun == starts = 1 /\ process # "down"
CollectedOnceOf(s) ==
    /\ Once(raw[s])
    /\ \A o \in 1..Len(raw[s]) : SourceOf[raw[s][o]] = s
    /\ cpc[s] \in {"taking", "moving"} =>
          \A f \in listed[s] : SourceOf[f] = s /\ place[f] = "inbox"
    /\ cpc[s] = "moving" => listed[s] # {}
    /\ cpc[s] # "ended" =>
          \A o \in 1..Len(raw[s]) :
              place[raw[s][o]] = "done" \/ (cpc[s] = "moving" /\ raw[s][o] = Oldest(s))
CollectedOnce == \A s \in Sources : CollectedOnceOf(s)

(* ... and a normalizer hands on what the records were made into up to the  *)
(* last it acknowledged, or sent and is about to acknowledge.              *)
HandedTo(s) == IF npc[s] = "sent" THEN through[s] ELSE rawAt[s]
NormalizedOnceOf(s) ==
    /\ npc[s] # "ended" =>
          \A i \in 1..Len(norm) : SourceOf[norm[i][1]] = s =>
              \E o \in 1..HandedTo(s) : raw[s][o] = norm[i][1]
    /\ npc[s] = "sending" =>
          /\ Once(batch[s])
          /\ \A x \in Range(batch[s]) :
                \E o \in (rawAt[s] + 1)..through[s] : raw[s][o] = x[1]
    /\ npc[s] # "sending" => batch[s] = <<>>
NormalizedOnce == Once(norm) /\ \A s \in Sources : NormalizedOnceOf(s)

OnceInFirstRun == FirstRun => CollectedOnce /\ NormalizedOnce

(* A step within the first run is none that ends or starts a process. *)
LEMMA FirstRunGoesOn ==
    ASSUME Typed, [Next]_vars, FirstRun'
    PROVE  FirstRun /\ ~Exit /\ ~Crash /\ ~Start
<1>1. process' = process \/ Stop \/ Exit \/ Crash \/ Start
  BY DEF Next, CollectorStep, NormalizerStep, WriterStep, Drop, Look, Collect, Move, LookAgain,
         Normalize, Hand, AcknowledgeRaw, AcknowledgeOldest, EndTurn, Turn, StoreBatch,
         StoreRefuses, CollectorFails, NormalizerFails, WriterFails, vars
<1>2. starts' = starts \/ Start
  BY DEF Next, CollectorStep, NormalizerStep, WriterStep, Drop, Look, Collect, Move, LookAgain,
         Normalize, Hand, AcknowledgeRaw, AcknowledgeOldest, EndTurn, Turn, StoreBatch,
         StoreRefuses, CollectorFails, NormalizerFails, WriterFails, Stop, Exit, Crash, vars
<1>3. Exit \/ Crash => process' = "down"
  BY DEF Exit, Crash
<1>4. Start => starts' = starts + 1
  BY DEF Start
<1>5. Stop => process = "running"
  BY DEF Stop
<1>6. ~Exit /\ ~Crash
  BY <1>3 DEF FirstRun
<1>7. ~Start
  <2>1. starts \in Nat /\ starts >= 1 /\ starts' = 1
    BY LimitsAssumption DEF FirstRun, Typed, ProcessTyped
  <2> QED BY <1>4, <2>1
<1> QED BY <1>1, <1>2, <1>5, <1>6, <1>7 DEF FirstRun

(* A file that is in the inbox was not sent by a collector that goes on. *)
LEMMA SentOnce ==
    ASSUME Typed, NEW s \in Sources, CollectedOnceOf(s), cpc[s] = "taking", listed[s] # {}
    PROVE  /\ Oldest(s) \in Files /\ SourceOf[Oldest(s)] = s /\ place[Oldest(s)] = "inbox"
           /\ Once(Append(raw[s], Oldest(s)))
           /\ \A o \in 1..Len(Append(raw[s], Oldest(s))) :
                 SourceOf[Append(raw[s], Oldest(s))[o]] = s
<1> DEFINE f == Oldest(s)
<1>1. f \in listed[s] /\ f \in Files
  BY OldestIsListed DEF Typed, FilesTyped
<1>2. SourceOf[f] = s /\ place[f] = "inbox"
  BY <1>1 DEF CollectedOnceOf
<1>3. \A o \in 1..Len(raw[s]) : raw[s][o] # f
  BY <1>2 DEF CollectedOnceOf
<1>4. raw[s] \in Seq(Files)
  BY DEF Typed, TopicsTyped
<1> HIDE DEF f
<1>5. /\ Len(Append(raw[s], f)) = Len(raw[s]) + 1 /\ Append(raw[s], f)[Len(raw[s]) + 1] = f
      /\ \A o \in 1..Len(raw[s]) : Append(raw[s], f)[o] = raw[s][o]
  BY <1>1, <1>4
<1>6. Len(raw[s]) \in Nat
  BY <1>4
<1>7. \A o \in 1..(Len(raw[s]) + 1) : o \in 1..Len(raw[s]) \/ o = Len(raw[s]) + 1
  BY <1>6
<1>8. Once(Append(raw[s], f))
  BY <1>3, <1>5, <1>7 DEF Once, CollectedOnceOf
<1>9. \A o \in 1..Len(Append(raw[s], f)) : SourceOf[Append(raw[s], f)[o]] = s
  BY <1>2, <1>5, <1>7 DEF CollectedOnceOf
<1> QED
  BY <1>1, <1>2, <1>8, <1>9 DEF f

(* What others do leaves the files of a source where they are. *)
LEMMA CollectorWaits ==
    ASSUME Typed, NEW s \in Sources, CollectedOnceOf(s),
           UNCHANGED <<cpc[s], listed[s], raw[s]>>,
           \A f \in Files : SourceOf[f] = s /\ place[f] \in {"inbox", "done"} => place'[f] = place[f]
    PROVE  CollectedOnceOf(s)'
<1>1. \A o \in 1..Len(raw[s]) : raw[s][o] \in Files
  BY DEF Typed, TopicsTyped
<1>2. listed[s] \subseteq Files
  BY DEF Typed, FilesTyped
<1>3. Once(raw[s])' /\ \A o \in 1..Len(raw'[s]) : SourceOf[raw'[s][o]] = s
  BY DEF CollectedOnceOf, Once
<1>4. cpc'[s] \in {"taking", "moving"} => \A f \in listed'[s] : SourceOf[f] = s /\ place'[f] = "inbox"
  BY <1>2 DEF CollectedOnceOf
<1>5. cpc'[s] = "moving" => listed'[s] # {}
  BY DEF CollectedOnceOf
<1>6. Oldest(s)' = Oldest(s)
  BY DEF Oldest
<1>7. cpc'[s] # "ended" =>
          \A o \in 1..Len(raw'[s]) :
              place'[raw'[s][o]] = "done" \/ (cpc'[s] = "moving" /\ raw'[s][o] = Oldest(s)')
  BY <1>1, <1>6 DEF CollectedOnceOf
<1> QED
  BY <1>3, <1>4, <1>5, <1>7 DEF CollectedOnceOf

(* Collectors go on sending a file once. *)
LEMMA CollectedOnceStays ==
    ASSUME Typed, CollectedOnce, [Next]_vars, ~Exit, ~Crash, ~Start
    PROVE  CollectedOnce'
<1>0. SUFFICES ASSUME NEW s \in Sources PROVE CollectedOnceOf(s)'
  BY DEF CollectedOnce
<1>1. CollectedOnceOf(s) /\ raw[s] \in Seq(Files) /\ listed[s] \subseteq Files
  BY DEF CollectedOnce, Typed, TopicsTyped, FilesTyped
<1>2. CASE Look(s)
  <2>1. UNCHANGED <<raw, place>> /\ cpc[s] = "looking" /\ cpc'[s] \in {"ended", "taking"}
    BY <1>2 DEF Look, topics, Typed, FilesTyped
  <2>2. cpc'[s] = "taking" => \A f \in listed'[s] : SourceOf[f] = s /\ place[f] = "inbox"
    BY <1>2 DEF Look, Typed, FilesTyped
  <2>3. \A o \in 1..Len(raw[s]) : place[raw[s][o]] = "done"
    BY <1>1, <2>1 DEF CollectedOnceOf
  <2> QED
    BY <1>1, <2>1, <2>2, <2>3 DEF CollectedOnceOf, Once
<1>3. CASE Collect(s)
  <2>0. cpc[s] = "taking" /\ listed[s] # {}
    BY <1>3 DEF Collect
  <2>1. /\ Oldest(s) \in Files /\ SourceOf[Oldest(s)] = s /\ place[Oldest(s)] = "inbox"
        /\ Once(Append(raw[s], Oldest(s)))
        /\ \A o \in 1..Len(Append(raw[s], Oldest(s))) :
              SourceOf[Append(raw[s], Oldest(s))[o]] = s
    BY <1>1, <2>0, SentOnce
  <2>2. \A o \in 1..Len(raw[s]) : place[raw[s][o]] = "done"
    BY <1>1, <2>0 DEF CollectedOnceOf
  <2>3. CASE Oldest(s) \in TooLarge
    <3>1. /\ UNCHANGED <<raw, cpc>>
          /\ place' = [place EXCEPT ![Oldest(s)] = "rejected"]
          /\ listed' = [listed EXCEPT ![s] = @ \ {Oldest(s)}]
      BY <1>3, <2>3 DEF Collect
    <3>2. listed'[s] = listed[s] \ {Oldest(s)} /\ \A f \in Files : f # Oldest(s) => place'[f] = place[f]
      BY <3>1 DEF Typed, FilesTyped
    <3>3. \A o \in 1..Len(raw[s]) : place'[raw[s][o]] = "done"
      BY <1>1, <2>1, <2>2, <3>2
    <3>4. \A f \in listed'[s] : SourceOf[f] = s /\ place'[f] = "inbox"
      BY <1>1, <2>0, <3>2 DEF CollectedOnceOf
    <3> QED
      BY <1>1, <2>0, <3>1, <3>3, <3>4 DEF CollectedOnceOf, Once
  <2>4. CASE Oldest(s) \notin TooLarge
    <3>1. /\ UNCHANGED <<place, listed>> /\ raw'[s] = Append(raw[s], Oldest(s)) /\ cpc'[s] = "moving"
      BY <1>3, <2>4 DEF Collect, Typed, TopicsTyped, FilesTyped
    <3>2. Once(raw[s])' /\ \A o \in 1..Len(raw'[s]) : SourceOf[raw'[s][o]] = s
      BY <2>1, <3>1 DEF Once
    <3>3. Oldest(s)' = Oldest(s)
      BY <3>1 DEF Oldest
    <3>4. \A o \in 1..Len(raw'[s]) : place'[raw'[s][o]] = "done" \/ raw'[s][o] = Oldest(s)'
      <4>1. /\ Len(raw'[s]) = Len(raw[s]) + 1 /\ raw'[s][Len(raw[s]) + 1] = Oldest(s)
            /\ \A o \in 1..Len(raw[s]) : raw'[s][o] = raw[s][o]
        BY <1>1, <2>1, <3>1
      <4>2. \A o \in 1..(Len(raw[s]) + 1) : o \in 1..Len(raw[s]) \/ o = Len(raw[s]) + 1
        BY <1>1
      <4> QED
        BY <2>2, <3>1, <3>3, <4>1, <4>2
    <3>5. \A f \in listed'[s] : SourceOf[f] = s /\ place'[f] = "inbox"
      BY <1>1, <2>0, <3>1 DEF CollectedOnceOf
    <3> QED
      BY <2>0, <3>1, <3>2, <3>4, <3>5 DEF CollectedOnceOf
  <2> QED
    BY <2>3, <2>4
<1>4. CASE Move(s)
  <2>1. /\ cpc[s] = "moving" /\ cpc'[s] = "taking" /\ UNCHANGED raw
        /\ place' = [place EXCEPT ![Oldest(s)] = "done"]
        /\ listed'[s] = listed[s] \ {Oldest(s)}
    BY <1>4 DEF Move, topics, Typed, FilesTyped
  <2>2. Oldest(s) \in listed[s]
    BY <1>1, <2>1, OldestIsListed DEF CollectedOnceOf, Typed
  <2>3. place'[Oldest(s)] = "done" /\ \A f \in Files : f # Oldest(s) => place'[f] = place[f]
    BY <1>1, <2>1, <2>2 DEF Typed, FilesTyped
  <2>4. \A o \in 1..Len(raw[s]) : place'[raw[s][o]] = "done"
    <3>1. \A o \in 1..Len(raw[s]) : raw[s][o] \in Files
      BY <1>1
    <3> QED
      BY <1>1, <2>1, <2>3, <3>1 DEF CollectedOnceOf
  <2>5. \A f \in listed'[s] : SourceOf[f] = s /\ place'[f] = "inbox"
    BY <1>1, <2>1, <2>3 DEF CollectedOnceOf
  <2> QED
    BY <1>1, <2>1, <2>4, <2>5 DEF CollectedOnceOf, Once
<1>5. CASE LookAgain(s)
  <2>1. UNCHANGED <<raw, place, listed>> /\ cpc[s] = "taking" /\ cpc'[s] = "looking"
    BY <1>5 DEF LookAgain, topics, Typed, FilesTyped
  <2> QED
    BY <1>1, <2>1 DEF CollectedOnceOf, Once
<1>6. CASE CollectorFails(s)
  <2>1. cpc'[s] = "ended" /\ UNCHANGED <<place, listed>>
    BY <1>6 DEF CollectorFails, Typed, FilesTyped
  <2>2. CASE UNCHANGED raw
    BY <1>1, <2>1, <2>2 DEF CollectedOnceOf, Once
  <2>3. CASE raw' # raw
    <3>1. cpc[s] = "taking" /\ listed[s] # {} /\ raw'[s] = Append(raw[s], Oldest(s))
      BY <1>6, <2>3 DEF CollectorFails, Typed, TopicsTyped
    <3>2. /\ Once(Append(raw[s], Oldest(s)))
          /\ \A o \in 1..Len(Append(raw[s], Oldest(s))) :
                SourceOf[Append(raw[s], Oldest(s))[o]] = s
      BY <1>1, <3>1, SentOnce
    <3> QED
      BY <2>1, <3>1, <3>2 DEF CollectedOnceOf, Once
  <2> QED
    BY <2>2, <2>3
<1>7. ASSUME NEW r \in Sources \ {s}, CollectorStep(r) \/ CollectorFails(r)
      PROVE  CollectedOnceOf(s)'
  <2>1. UNCHANGED <<cpc[s], listed[s], raw[s]>>
    BY <1>7 DEF CollectorStep, Look, Collect, Move, LookAgain, CollectorFails, Typed, FilesTyped,
                TopicsTyped, topics
  <2>2. \/ UNCHANGED place
        \/ /\ cpc[r] \in {"taking", "moving"} /\ listed[r] # {}
           /\ \E to \in {"rejected", "done"} : place' = [place EXCEPT ![Oldest(r)] = to]
    BY <1>7 DEF CollectorStep, Look, Collect, Move, LookAgain, CollectorFails, CollectedOnce,
                CollectedOnceOf
  <2>3. CASE UNCHANGED place
    BY <1>1, <2>1, <2>3, CollectorWaits
  <2>4. CASE ~UNCHANGED place
    <3>1. Oldest(r) \in listed[r]
      BY <2>2, <2>4, OldestIsListed DEF Typed
    <3>2. SourceOf[Oldest(r)] = r
      BY <2>2, <2>4, <3>1 DEF CollectedOnce, CollectedOnceOf
    <3>3. \A f \in Files : SourceOf[f] = s => place'[f] = place[f]
      BY <2>2, <2>4, <3>2, <1>7 DEF Typed, FilesTyped
    <3> QED
      BY <1>1, <2>1, <3>3, CollectorWaits
  <2> QED
    BY <2>3, <2>4
<1>8. ASSUME NEW g \in Files, Drop(g) PROVE CollectedOnceOf(s)'
  <2>1. UNCHANGED <<cpc[s], listed[s], raw[s]>>
    BY <1>8 DEF Drop, collectors, topics
  <2>2. \A f \in Files : place[f] \in {"inbox", "done"} => place'[f] = place[f]
    BY <1>8 DEF Drop, Typed, FilesTyped
  <2> QED
    BY <1>1, <2>1, <2>2, CollectorWaits
<1>9. CASE UNCHANGED <<cpc, listed, raw, place>>
  BY <1>1, <1>9, CollectorWaits
<1> QED
  BY <1>2, <1>3, <1>4, <1>5, <1>6, <1>7, <1>8, <1>9
     DEF Next, CollectorStep, NormalizerStep, WriterStep, Normalize, Hand, AcknowledgeRaw,
         AcknowledgeOldest, EndTurn, Turn, StoreBatch, StoreRefuses, NormalizerFails,
         WriterFails, Stop, vars, collectors, topics

(* What a normalizer sends was handed on by nobody, so that the topic has   *)
(* nothing twice with it.                                                  *)
LEMMA HandedOnce ==
    ASSUME Typed, Received, CollectedOnce, NormalizedOnce, NEW s \in Sources, npc[s] = "sending"
    PROVE  Once(norm \o batch[s])
<1>1. /\ norm \in Seq(Outcomes) /\ batch[s] \in Seq(Outcomes) /\ raw[s] \in Seq(Files)
      /\ rawAt[s] \in Nat /\ through[s] \in Nat /\ through[s] <= Len(raw[s])
  BY DEF Typed, TopicsTyped, NormalizersTyped, Received
<1>2. Once(norm) /\ Once(batch[s])
  BY DEF NormalizedOnce, NormalizedOnceOf
<1>3. ASSUME NEW x \in Range(norm), x \in Range(batch[s]) PROVE FALSE
  <2>1. PICK i \in 1..Len(norm) : norm[i] = x
    BY <1>1, <1>3 DEF Range
  <2>2. PICK o \in (rawAt[s] + 1)..through[s] : raw[s][o] = x[1]
    BY <1>3 DEF NormalizedOnce, NormalizedOnceOf
  <2>3. o \in 1..Len(raw[s])
    BY <1>1
  <2>4. SourceOf[x[1]] = s
    BY <2>2, <2>3 DEF CollectedOnce, CollectedOnceOf
  <2>5. PICK q \in 1..rawAt[s] : raw[s][q] = x[1]
    BY <2>1, <2>4 DEF NormalizedOnce, NormalizedOnceOf, HandedTo
  <2>6. q \in 1..Len(raw[s]) /\ q # o
    BY <1>1
  <2> QED
    BY <2>2, <2>3, <2>5, <2>6 DEF CollectedOnce, CollectedOnceOf, Once
<1> QED
  BY <1>1, <1>2, <1>3, ConcatOnce

(* A normalizer that does not step stays right about what it handed on, of  *)
(* a topic to which nothing of its source is added.                        *)
LEMMA HandedOnBefore ==
    ASSUME Typed, Received, [Next]_vars, NEW s \in Sources, NormalizedOnceOf(s),
           UNCHANGED <<npc[s], batch[s], through[s], rawAt[s]>>,
           \A i \in 1..Len(norm') : \/ i \in 1..Len(norm) /\ norm'[i] = norm[i]
                                    \/ SourceOf[norm'[i][1]] # s
    PROVE  NormalizedOnceOf(s)'
<1>1. /\ rawAt[s] \in Nat /\ through[s] \in Nat /\ Len(raw[s]) \in Nat /\ rawAt[s] <= Len(raw[s])
      /\ npc[s] \in {"sending", "sent"} => through[s] <= Len(raw[s])
  BY DEF Typed, TopicsTyped, NormalizersTyped, Received
<1>2. \A o \in 1..Len(raw[s]) : raw'[s][o] = raw[s][o]
  BY TopicsGrow DEF Extends
<1>3. HandedTo(s)' = HandedTo(s)
  BY DEF HandedTo
<1>4. ASSUME npc[s] # "ended", NEW i \in 1..Len(norm'), SourceOf[norm'[i][1]] = s
      PROVE  \E o \in 1..HandedTo(s)' : raw'[s][o] = norm'[i][1]
  <2>1. PICK o \in 1..HandedTo(s) : raw[s][o] = norm[i][1]
    BY <1>4 DEF NormalizedOnceOf
  <2>2. o \in 1..Len(raw[s])
    BY <1>1 DEF HandedTo
  <2> QED
    BY <1>2, <1>3, <1>4, <2>1, <2>2
<1>5. ASSUME npc[s] = "sending", NEW x \in Range(batch[s])
      PROVE  \E o \in (rawAt[s] + 1)..through[s] : raw'[s][o] = x[1]
  <2>1. PICK o \in (rawAt[s] + 1)..through[s] : raw[s][o] = x[1]
    BY <1>5 DEF NormalizedOnceOf
  <2>2. o \in 1..Len(raw[s])
    BY <1>1, <1>5
  <2> QED
    BY <1>2, <2>1, <2>2
<1> QED
  BY <1>4, <1>5 DEF NormalizedOnceOf, Once

(* What is handed on is what one normalizer sends, and is of its source. *)
LEMMA HandedOnStaysOnce ==
    ASSUME Typed, Received, CollectedOnce, NormalizedOnce, [Next]_vars,
           NEW r \in Sources, npc[r] = "sending", norm' = norm \o batch[r],
           Hand(r) \/ NormalizerFails(r)
    PROVE  NormalizedOnce'
<1>1. /\ norm \in Seq(Outcomes) /\ batch[r] \in Seq(Outcomes) /\ raw[r] \in Seq(Files)
      /\ rawAt[r] \in Nat /\ through[r] \in Nat /\ through[r] <= Len(raw[r])
      /\ rawAt[r] <= through[r]
  BY DEF Typed, TopicsTyped, NormalizersTyped, Received
<1>2. Once(norm)'
  BY HandedOnce DEF Once
<1>3. \A x \in Range(batch[r]) :
         \E o \in (rawAt[r] + 1)..through[r] : raw[r][o] = x[1] /\ SourceOf[x[1]] = r
  <2>1. TAKE x \in Range(batch[r])
  <2>2. PICK o \in (rawAt[r] + 1)..through[r] : raw[r][o] = x[1]
    BY DEF NormalizedOnce, NormalizedOnceOf
  <2>3. o \in 1..Len(raw[r])
    BY <1>1
  <2> QED
    BY <2>2, <2>3 DEF CollectedOnce, CollectedOnceOf
<1>4. \A i \in 1..Len(norm') : \/ i \in 1..Len(norm) /\ norm'[i] = norm[i]
                               \/ norm'[i] \in Range(batch[r])
  <2> DEFINE both == norm \o batch[r]
  <2>1. /\ Len(both) = Len(norm) + Len(batch[r])
        /\ \A i \in 1..Len(norm) : both[i] = norm[i]
        /\ \A i \in 1..Len(batch[r]) : both[Len(norm) + i] = batch[r][i]
        /\ Len(norm) \in Nat /\ Len(batch[r]) \in Nat
    BY <1>1
  <2>2. \A k \in 1..Len(batch[r]) : batch[r][k] \in Range(batch[r])
    BY <1>1 DEF Range
  <2> HIDE DEF both
  <2>3. ASSUME NEW i \in 1..Len(both), i \notin 1..Len(norm) PROVE both[i] \in Range(batch[r])
    <3>1. i - Len(norm) \in 1..Len(batch[r]) /\ i = Len(norm) + (i - Len(norm))
      BY <2>1, <2>3
    <3> QED BY <2>1, <2>2, <3>1
  <2> QED BY <2>1, <2>3 DEF both
<1>5. ASSUME NEW s \in Sources PROVE NormalizedOnceOf(s)'
  <2>1. CASE s # r
    <3>1. UNCHANGED <<npc[s], batch[s], through[s], rawAt[s]>>
      BY <2>1 DEF Hand, NormalizerFails, Typed, NormalizersTyped
    <3>2. \A i \in 1..Len(norm') : \/ i \in 1..Len(norm) /\ norm'[i] = norm[i]
                                   \/ SourceOf[norm'[i][1]] # s
      BY <1>3, <1>4, <2>1
    <3> QED
      BY <3>1, <3>2, HandedOnBefore DEF NormalizedOnce
  <2>2. CASE s = r
    <3>1. batch'[r] = <<>> /\ UNCHANGED <<raw, rawAt, through>> /\ npc'[r] \in {"sent", "ended"}
      BY DEF Hand, NormalizerFails, Typed, NormalizersTyped
    <3>2. ASSUME npc'[r] # "ended", NEW i \in 1..Len(norm'), SourceOf[norm'[i][1]] = r
          PROVE  \E o \in 1..through[r] : raw[r][o] = norm'[i][1]
      <4>1. CASE norm'[i] \in Range(batch[r])
        <5>1. PICK o \in (rawAt[r] + 1)..through[r] : raw[r][o] = norm'[i][1]
          BY <1>3, <4>1
        <5>2. o \in 1..through[r]
          BY <1>1
        <5> QED BY <5>1, <5>2
      <4>2. CASE i \in 1..Len(norm) /\ norm'[i] = norm[i]
        <5>1. PICK o \in 1..rawAt[r] : raw[r][o] = norm[i][1]
          BY <3>2, <4>2 DEF NormalizedOnce, NormalizedOnceOf, HandedTo
        <5>2. o \in 1..through[r]
          BY <1>1
        <5> QED BY <4>2, <5>1, <5>2
      <4> QED BY <1>4, <4>1, <4>2
    <3>3. npc'[r] # "ended" => HandedTo(r)' = through[r]
      BY <3>1 DEF HandedTo
    <3>4. npc'[r] # "ended" =>
             \A i \in 1..Len(norm') : SourceOf[norm'[i][1]] = r =>
                 \E o \in 1..HandedTo(r)' : raw'[r][o] = norm'[i][1]
      BY <3>1, <3>2, <3>3
    <3> QED
      BY <2>2, <3>1, <3>4 DEF NormalizedOnceOf
  <2> QED
    BY <2>1, <2>2
<1> QED
  BY <1>2, <1>5 DEF NormalizedOnce

(* Normalizers go on handing on everything once. *)
LEMMA NormalizedOnceStays ==
    ASSUME Typed, Received, CollectedOnce, NormalizedOnce, [Next]_vars, ~Exit, ~Crash, ~Start
    PROVE  NormalizedOnce'
<1>1. ASSUME norm' = norm,
             \A s \in Sources : \/ UNCHANGED <<npc[s], batch[s], through[s], rawAt[s]>>
                                \/ NormalizedOnceOf(s)'
      PROVE  NormalizedOnce'
  <2>1. \A i \in 1..Len(norm') : i \in 1..Len(norm) /\ norm'[i] = norm[i]
    BY <1>1
  <2>2. Once(norm)'
    BY <1>1 DEF NormalizedOnce, Once
  <2>3. ASSUME NEW s \in Sources PROVE NormalizedOnceOf(s)'
    BY <1>1, <2>1, HandedOnBefore DEF NormalizedOnce
  <2> QED
    BY <2>2, <2>3 DEF NormalizedOnce
<1>2. ASSUME NEW r \in Sources, Hand(r) \/ NormalizerFails(r) PROVE NormalizedOnce'
  <2>1. CASE npc[r] = "sending" /\ norm' = norm \o batch[r]
    BY <1>2, <2>1, HandedOnStaysOnce
  <2>2. CASE ~(npc[r] = "sending" /\ norm' = norm \o batch[r])
    <3>1. norm' = norm \/ (npc[r] # "sending" /\ norm' = norm \o batch[r])
      BY <1>2, <2>2 DEF Hand, NormalizerFails
    <3>2. norm' = norm
      <4>1. npc[r] # "sending" => batch[r] = <<>>
        BY DEF NormalizedOnce, NormalizedOnceOf
      <4>2. norm \in Seq(Outcomes)
        BY DEF Typed, TopicsTyped
      <4>3. norm \o <<>> = norm
        BY <4>2
      <4> QED BY <3>1, <4>1, <4>3
    <3>3. \A s \in Sources \ {r} : UNCHANGED <<npc[s], batch[s], through[s], rawAt[s]>>
      BY <1>2 DEF Hand, NormalizerFails, Typed, NormalizersTyped
    <3>4. CASE NormalizerFails(r)
      <4>1. npc'[r] = "ended" /\ batch'[r] = <<>>
        BY <3>4 DEF NormalizerFails, Typed, NormalizersTyped
      <4>2. NormalizedOnceOf(r)'
        BY <4>1 DEF NormalizedOnceOf
      <4> QED BY <1>1, <3>2, <3>3, <4>2
    <3>5. CASE Hand(r)
      BY <2>2, <3>5 DEF Hand
    <3> QED BY <1>2, <3>4, <3>5
  <2> QED
    BY <2>1, <2>2
<1>3. ASSUME NEW r \in Sources, Normalize(r) PROVE NormalizedOnce'
  <2>1. norm' = norm /\ UNCHANGED <<raw, rawAt>> /\ npc[r] = "receiving"
    BY <1>3 DEF Normalize, topics
  <2>2. \A s \in Sources \ {r} : UNCHANGED <<npc[s], batch[s], through[s], rawAt[s]>>
    BY <1>3 DEF Normalize, topics, Typed, NormalizersTyped
  <2>3. NormalizedOnceOf(r)'
    <3>1. CASE npc'[r] = "sending"
      <4>1. /\ \A x \in Range(batch'[r]) : \E o \in (rawAt[r] + 1)..through'[r] : raw[r][o] = x[1]
            /\ Once(raw[r]) => Once(batch'[r])
        BY <1>3, <3>1, NormalizedWhole
      <4>2. Once(batch[r])'
        BY <4>1 DEF CollectedOnce, CollectedOnceOf, Once
      <4>3. HandedTo(r)' = rawAt[r] /\ HandedTo(r) = rawAt[r]
        BY <2>1, <3>1 DEF HandedTo
      <4>4. \A i \in 1..Len(norm) : SourceOf[norm[i][1]] = r =>
                \E o \in 1..rawAt[r] : raw[r][o] = norm[i][1]
        BY <2>1, <4>3 DEF NormalizedOnce, NormalizedOnceOf
      <4> QED BY <2>1, <3>1, <4>1, <4>2, <4>3, <4>4 DEF NormalizedOnceOf
    <3>2. CASE npc'[r] # "sending"
      <4>1. npc'[r] = "ended" /\ batch'[r] = batch[r]
        BY <1>3, <3>2 DEF Normalize, Typed, NormalizersTyped
      <4> QED BY <2>1, <4>1 DEF NormalizedOnce, NormalizedOnceOf
    <3> QED BY <3>1, <3>2
  <2> QED
    BY <1>1, <2>1, <2>2, <2>3
<1>4. ASSUME NEW r \in Sources, AcknowledgeRaw(r) PROVE NormalizedOnce'
  <2>1. /\ UNCHANGED <<norm, raw, batch, through>> /\ npc[r] = "sent" /\ npc'[r] = "receiving"
        /\ rawAt'[r] = through[r]
    BY <1>4 DEF AcknowledgeRaw, Typed, NormalizersTyped, TopicsTyped
  <2>2. \A s \in Sources \ {r} : UNCHANGED <<npc[s], batch[s], through[s], rawAt[s]>>
    BY <1>4 DEF AcknowledgeRaw, Typed, NormalizersTyped, TopicsTyped
  <2>3. HandedTo(r)' = HandedTo(r)
    BY <2>1 DEF HandedTo
  <2>4. NormalizedOnceOf(r)'
    BY <2>1, <2>3 DEF NormalizedOnce, NormalizedOnceOf
  <2> QED
    BY <1>1, <2>1, <2>2, <2>4
<1>5. CASE UNCHANGED <<norm, rawAt, normalizers>>
  BY <1>1, <1>5 DEF normalizers
<1> QED
  BY <1>2, <1>3, <1>4, <1>5
     DEF Next, CollectorStep, NormalizerStep, WriterStep, Drop, Look, Collect, Move, LookAgain,
         AcknowledgeOldest, EndTurn, Turn, StoreBatch, StoreRefuses, CollectorFails,
         WriterFails, Stop, vars, topics

-----------------------------------------------------------------------------
(* The inductive invariant. *)
IInv ==
    /\ Typed /\ Received /\ Chained /\ Covered /\ Bounded
    /\ Normalizing /\ Collecting
    /\ AcknowledgedIsStored /\ NothingCollectedIsLost
    /\ OnceInFirstRun

(* It holds where the program starts... *)
LEMMA InitEstablishesIInv == Init => IInv
<1> SUFFICES ASSUME Init PROVE IInv
  OBVIOUS
<1> DEFINE noOutcomes == <<>>
           noInserts == <<>>
           noFiles == <<>>
<1>1. noOutcomes \in Seq(Outcomes) /\ noInserts \in Seq(Insert) /\ noFiles \in Seq(Files)
      /\ Len(noOutcomes) = 0 /\ Len(noInserts) = 0 /\ Len(noFiles) = 0
  OBVIOUS
<1>2. /\ norm = noOutcomes /\ inserts = noInserts /\ raw = [s \in Sources |-> noFiles]
      /\ batch = [s \in Sources |-> noOutcomes]
  BY DEF Init
<1> HIDE DEF noOutcomes, noInserts, noFiles
<1>3. Typed
  <2>1. FilesTyped
    BY DEF Init, FilesTyped
  <2>2. TopicsTyped
    BY <1>1, <1>2 DEF Init, TopicsTyped
  <2>3. NormalizersTyped
    BY <1>1, <1>2 DEF Init, NormalizersTyped
  <2>4. WriterTyped
    BY <1>1, <1>2 DEF Init, WriterTyped
  <2>5. ProcessTyped
    BY LimitsAssumption DEF Init, ProcessTyped
  <2> QED
    BY <2>1, <2>2, <2>3, <2>4, <2>5 DEF Typed
<1>4. Received /\ Normalizing
  BY <1>1, <1>2 DEF Init, Received, Normalizing, NormalizingOf
<1>5. Collecting
  BY DEF Init, Collecting, CollectingOf
<1>6. Len(inserts) = 0 /\ Len(norm) = 0 /\ normAt = 0 /\ from = 0 /\ next = 0
  BY <1>1, <1>2 DEF Init
<1>7. Chained
  BY DEF Init, Chained
<1>8. Covered /\ Bounded
  BY <1>6, LimitsAssumption DEF Covered, Bounded, WriterIsBounded, MayStart
<1>9. AcknowledgedIsStored /\ NothingCollectedIsLost
  BY <1>6 DEF Init, AcknowledgedIsStored, NothingCollectedIsLost
<1>10. OnceInFirstRun
  <2>1. \A s \in Sources : Len(raw[s]) = 0 /\ Len(batch[s]) = 0 /\ batch[s] = <<>>
    BY <1>1, <1>2 DEF noOutcomes
  <2>2. CollectedOnce
    BY <2>1 DEF Init, CollectedOnce, CollectedOnceOf, Once
  <2>3. NormalizedOnce
    BY <1>6, <2>1 DEF Init, NormalizedOnce, NormalizedOnceOf, Once
  <2> QED BY <2>2, <2>3 DEF OnceInFirstRun
<1> QED
  BY <1>3, <1>4, <1>5, <1>7, <1>8, <1>9, <1>10 DEF IInv

(* ... every step keeps it... *)
LEMMA StepsKeepIInv == IInv /\ [Next]_vars => IInv'
<1> SUFFICES ASSUME IInv, [Next]_vars PROVE IInv'
  OBVIOUS
<1>1. Typed /\ Received /\ Chained /\ Covered /\ Bounded /\ Normalizing /\ Collecting
      /\ AcknowledgedIsStored /\ NothingCollectedIsLost /\ OnceInFirstRun
  BY DEF IInv
<1>2. Typed'
  BY <1>1, FilesStayTyped, TopicsGrow, NormalizersStayTyped, WriterStaysTyped, ProcessStaysTyped
     DEF Typed
<1>3. Received' /\ Chained' /\ Covered' /\ Bounded'
  BY <1>1, ReceivedStays, ChainStays, CoverStays, BoundStays
<1>4. Normalizing' /\ Collecting'
  BY <1>1, NormalizingStays, CollectingStays
<1>5. AcknowledgedIsStored' /\ NothingCollectedIsLost'
  BY <1>1, AcknowledgedStaysStored, CollectedIsKept
<1>6. OnceInFirstRun'
  <2>1. SUFFICES ASSUME FirstRun' PROVE CollectedOnce' /\ NormalizedOnce'
    BY DEF OnceInFirstRun
  <2>2. FirstRun /\ ~Exit /\ ~Crash /\ ~Start
    BY <1>1, <2>1, FirstRunGoesOn
  <2>3. CollectedOnce /\ NormalizedOnce
    BY <1>1, <2>2 DEF OnceInFirstRun
  <2> QED
    BY <1>1, <2>2, <2>3, CollectedOnceStays, NormalizedOnceStays
<1> QED
  BY <1>2, <1>3, <1>4, <1>5, <1>6 DEF IInv

(* ... and so it always holds. *)
LEMMA IInvAlways == Spec => []IInv
BY InitEstablishesIInv, StepsKeepIInv, PTL DEF Spec

(* Every topic, position and place of a role, and what they hold between    *)
(* their awaits (roles.rs), has its type, for any files, sources and limits *)
(* and however often the process starts.                                   *)
THEOREM TypeCorrect == Spec => []TypeOK
<1>1. IInv => TypeOK
  BY DEF IInv, Typed, FilesTyped, TopicsTyped, NormalizersTyped, WriterTyped, ProcessTyped,
         Insert, Received, Chained, TypeOK
<1> QED
  BY <1>1, IInvAlways, PTL

(* Whatever order inserts finish in, however they fail and whenever the     *)
(* process crashes, the writer (write of roles.rs) acknowledges nothing     *)
(* that is not stored.                                                     *)
THEOREM AcknowledgedIsAlwaysStored == Spec => []AcknowledgedIsStored
<1>1. IInv => AcknowledgedIsStored
  BY DEF IInv
<1> QED
  BY <1>1, IInvAlways, PTL

(* A file that collect moved away is never lost: what it holds is stored,   *)
(* or in a topic ahead of the role that is to receive it, through any       *)
(* failures, stops and crashes.                                            *)
THEOREM NothingCollectedIsEverLost == Spec => []NothingCollectedIsLost
<1>1. IInv => NothingCollectedIsLost
  BY DEF IInv
<1> QED
  BY <1>1, IInvAlways, PTL

(* However long the store refuses, write starts no more than INSERTS        *)
(* inserts, and holds fewer records in each than a full one and a receive.  *)
THEOREM WriterIsAlwaysBounded == Spec => []WriterIsBounded
<1>1. IInv => WriterIsBounded
  BY DEF IInv, Bounded
<1> QED
  BY <1>1, IInvAlways, PTL

(* Until the process first ends, no outcome is handed on twice, whatever    *)
(* order collectors and normalizers (collect and normalize of roles.rs)    *)
(* step in, and whatever of them fails: work is repeated by restarts only. *)
THEOREM WorkIsRepeatedByRestartsOnly == Spec => []RepeatedByRestartsOnly
<1>1. IInv => RepeatedByRestartsOnly
  <2>1. SUFFICES ASSUME IInv, FirstRun
                 PROVE  \A i, j \in DOMAIN norm : norm[i] = norm[j] => i = j
    BY DEF RepeatedByRestartsOnly, FirstRun
  <2>2. norm \in Seq(Outcomes) /\ Once(norm)
    BY <2>1 DEF IInv, Typed, TopicsTyped, OnceInFirstRun, NormalizedOnce
  <2>3. DOMAIN norm = 1..Len(norm)
    BY <2>2
  <2> QED
    BY <2>2, <2>3 DEF Once
<1> QED
  BY <1>1, IInvAlways, PTL
=============================================================================
